------------------------ MODULE ConversationsProofs ------------------------
(***************************************************************************)
(* Chats, for any number of them, of questions and clicks, and any size of *)
(* the cache, whatever is answered, deleted, restarted or left meanwhile.  *)
(*                                                                         *)
(* "New chat".  NewChatServed is not inductive: that a click fails only    *)
(* when it was overtaken TRIES times rests on what holds between its       *)
(* insert and its select, where it is one behind and an empty chat is      *)
(* there, or the chat was taken meanwhile (ClickInv).                      *)
(*                                                                         *)
(* Whose sessions are whose (Owned).  A session belongs to one chat and    *)
(* its lock to one turn; a turn is spoken of in its own session alone      *)
(* until it is stored, and in sessions of its chat from then on; so a      *)
(* session that was made after its chat was deleted and evicted cannot     *)
(* speak of what was erased.                                               *)
(*                                                                         *)
(* What is shown (ShownInv).  A screen holds pieces of one provider, of    *)
(* rounds before the one under way.                                        *)
(*                                                                         *)
(* Sessions in step with their threads (ContextInv).  Between turns a      *)
(* session holds whole exchanges up to the last one stored, the last of    *)
(* them begun recently enough to survive the cut; during a turn it holds   *)
(* that, a question and what its rounds have said, which rolling back      *)
(* takes away again.                                                       *)
(***************************************************************************)
EXTENDS Conversations, TLAPS, SequenceTheorems, WellFoundedInduction

-----------------------------------------------------------------------------
(* "New chat".                                                             *)

Click == [pc: {"new", "insert", "select", "got", "failed"}, tries: Nat, lost: Nat,
          chat: Chats \cup {NoChat}]

SomeEmpty == \E c \in Chats : chat[c] = "empty"

\* A click is behind its count by one at most, and then an empty chat waits for it.
Paid(k, there) ==
    /\ k.pc = "insert" => k.lost >= k.tries
    /\ k.pc = "select" => k.lost >= k.tries \/ (k.lost + 1 >= k.tries /\ there)
    /\ k.pc = "failed" => k.lost >= TRIES

ClickInv ==
    /\ chat \in [Chats -> Chat]
    /\ click \in [Clicks -> Click]
    /\ \A n \in Clicks : Paid(click[n], SomeEmpty)

\* What a click becomes when chats that were taken are counted against it.
LEMMA CountedAgainst ==
    ASSUME NEW k \in Click, NEW there \in BOOLEAN, Paid(k, there)
    PROVE  /\ [k EXCEPT !.lost = @ + 1] \in Click
           /\ k.pc \in {"insert", "select"} => Paid([k EXCEPT !.lost = @ + 1], FALSE)
<1>1. [k EXCEPT !.lost = @ + 1] = [pc |-> k.pc, tries |-> k.tries, lost |-> k.lost + 1, chat |-> k.chat]
  BY DEF Click
<1>2. k.tries \in Nat /\ k.lost \in Nat
  BY DEF Click
<1>3. [k EXCEPT !.lost = @ + 1] \in Click
  BY <1>1, <1>2 DEF Click
<1>4. ASSUME k.pc \in {"insert", "select"}
      PROVE  Paid([k EXCEPT !.lost = @ + 1], FALSE)
  BY <1>1, <1>2, <1>4 DEF Paid
<1>. QED BY <1>3, <1>4

\* Chats are taken, by an answer or a deletion, and the clicks under way are told.
LEMMA TakingChats ==
    ASSUME ClickInv, NEW gone, Overtaken(gone),
           chat' \in [Chats -> Chat], \A c \in Chats \ gone : chat'[c] = chat[c]
    PROVE  ClickInv'
<1>1. ASSUME NEW n \in Clicks
      PROVE  click'[n] \in Click /\ Paid(click'[n], SomeEmpty')
  <2>1. click[n] \in Click /\ Paid(click[n], SomeEmpty) /\ SomeEmpty \in BOOLEAN
    BY DEF ClickInv, SomeEmpty
  <2>2. CASE click[n].pc \in {"insert", "select"} /\ \E c \in gone : chat[c] = "empty"
    <3>1. click'[n] = [click[n] EXCEPT !.lost = @ + 1]
      BY <2>2 DEF Overtaken
    <3>2. click'[n] \in Click /\ Paid(click'[n], FALSE)
      BY <2>1, <2>2, <3>1, CountedAgainst
    <3>. QED BY <3>2 DEF Paid
  <2>3. CASE ~(click[n].pc \in {"insert", "select"} /\ \E c \in gone : chat[c] = "empty")
    <3>1. click'[n] = click[n]
      BY <2>3 DEF Overtaken
    <3>2. CASE click[n].pc \in {"insert", "select"}
      <4>1. SomeEmpty => SomeEmpty'
        BY <2>3, <3>2 DEF SomeEmpty
      <4>. QED BY <2>1, <3>1, <4>1 DEF Paid
    <3>3. CASE click[n].pc \notin {"insert", "select"}
      BY <2>1, <3>1, <3>3 DEF Paid
    <3>. QED BY <3>2, <3>3
  <2>. QED BY <2>2, <2>3
<1>2. click' \in [Clicks -> Click]
  <2>1. click' = [n \in Clicks |-> click'[n]]
    BY DEF Overtaken
  <2>. QED BY <1>1, <2>1
<1>. QED BY <1>1, <1>2 DEF ClickInv

LEMMA NobodyTouches ==
    ASSUME ClickInv, UNCHANGED <<chat, click>>
    PROVE  ClickInv'
BY DEF ClickInv, Paid, SomeEmpty

\* save_exchange: the chat is used from now on, or was deleted before.
LEMMA Saving ==
    ASSUME ClickInv, NEW t, Save(t)
    PROVE  ClickInv'
<1>1. CASE chat[turn[t].chat] = "deleted"
  BY <1>1, NobodyTouches DEF Save, tables
<1>2. CASE chat[turn[t].chat] # "deleted"
  <2>1. /\ chat' = [chat EXCEPT ![turn[t].chat] = "used"]
        /\ Overtaken({turn[t].chat})
    BY <1>2 DEF Save
  <2>2. chat' \in [Chats -> Chat] /\ \A c \in Chats \ {turn[t].chat} : chat'[c] = chat[c]
    BY <2>1 DEF ClickInv, Chat
  <2>. QED BY <2>1, <2>2, TakingChats
<1>. QED BY <1>1, <1>2

-----------------------------------------------------------------------------
(* One step each.                                                          *)

LEMMA InsertKeeps ==
    ASSUME ClickInv, NEW n \in Clicks, InsertEmpty(n)
    PROVE  ClickInv'
<1>. DEFINE k == click[n]
            new == IF k.pc = "insert" THEN [k EXCEPT !.pc = "select", !.tries = @ + 1]
                   ELSE [NewClick EXCEPT !.pc = "select", !.tries = 1]
<1>1. k \in Click /\ Paid(k, SomeEmpty)
  BY DEF ClickInv
<1>2. click' = [click EXCEPT ![n] = new]
  BY DEF InsertEmpty
<1>3. chat' \in [Chats -> Chat] /\ SomeEmpty'
  <2>1. CASE SomeEmpty
    BY <2>1 DEF InsertEmpty, SomeEmpty, ClickInv
  <2>2. CASE ~SomeEmpty
    <3>. DEFINE c == CHOOSE d \in Chats : chat[d] = "none"
    <3>1. c \in Chats /\ chat' = [chat EXCEPT ![c] = "empty"]
      BY <2>2 DEF InsertEmpty, SomeEmpty
    <3>2. chat'[c] = "empty" /\ chat' \in [Chats -> Chat]
      BY <3>1 DEF ClickInv, Chat
    <3>. QED BY <3>1, <3>2 DEF SomeEmpty
  <2>. QED BY <2>1, <2>2
<1>4. new \in Click /\ Paid(new, TRUE)
  <2>1. CASE k.pc = "insert"
    <3>1. new = [pc |-> "select", tries |-> k.tries + 1, lost |-> k.lost, chat |-> k.chat]
      BY <1>1, <2>1 DEF Click
    <3>2. k.tries \in Nat /\ k.lost \in Nat /\ k.chat \in Chats \cup {NoChat} /\ k.lost >= k.tries
      BY <1>1, <2>1 DEF Click, Paid
    <3>. HIDE DEF new, k
    <3>. QED BY <3>1, <3>2 DEF Click, Paid
  <2>2. CASE k.pc # "insert"
    <3>1. new = [pc |-> "select", tries |-> 1, lost |-> 0, chat |-> NoChat]
      BY <2>2 DEF NewClick
    <3>. HIDE DEF new, k
    <3>. QED BY <3>1 DEF Click, Paid
  <2>. QED BY <2>1, <2>2
<1>5. \A m \in Clicks : Paid(click'[m], TRUE)
  BY <1>2, <1>4 DEF ClickInv, Paid
<1>6. click' \in [Clicks -> Click]
  BY <1>2, <1>4 DEF ClickInv
<1>. QED BY <1>3, <1>5, <1>6 DEF ClickInv

LEMMA SelectKeeps ==
    ASSUME ClickInv, NEW n \in Clicks, SelectEmpty(n)
    PROVE  ClickInv'
<1>. DEFINE k == click[n]
<1>1. /\ k \in Click /\ k.pc = "select" /\ Paid(k, SomeEmpty)
      /\ chat' = chat /\ SomeEmpty' = SomeEmpty
  BY DEF ClickInv, SelectEmpty, tables, SomeEmpty
<1>2. PICK new \in Click : click' = [click EXCEPT ![n] = new] /\ Paid(new, SomeEmpty)
  <2>1. CASE SomeEmpty
    <3>. DEFINE c == CHOOSE d \in Chats : chat[d] = "empty"
                new == [k EXCEPT !.pc = "got", !.chat = c]
    <3>1. click' = [click EXCEPT ![n] = new] /\ c \in Chats
      BY <2>1 DEF SelectEmpty, SomeEmpty
    <3>. HIDE DEF c, k
    <3>2. new \in Click /\ new.pc = "got"
      BY <1>1, <3>1 DEF Click
    <3>3. new \in Click /\ Paid(new, SomeEmpty)
      BY <3>2 DEF Paid
    <3>. QED BY <3>1, <3>3
  <2>2. CASE ~SomeEmpty /\ k.tries = TRIES
    <3>. DEFINE new == [k EXCEPT !.pc = "failed"]
    <3>1. click' = [click EXCEPT ![n] = new]
      BY <2>2 DEF SelectEmpty, SomeEmpty
    <3>2. new = [pc |-> "failed", tries |-> k.tries, lost |-> k.lost, chat |-> k.chat]
      BY <1>1 DEF Click
    <3>3. new \in Click /\ Paid(new, SomeEmpty)
      BY <1>1, <2>2, <3>2 DEF Click, Paid
    <3>. QED BY <3>1, <3>3
  <2>3. CASE ~SomeEmpty /\ k.tries # TRIES
    <3>. DEFINE new == [k EXCEPT !.pc = "insert"]
    <3>1. click' = [click EXCEPT ![n] = new]
      BY <2>3 DEF SelectEmpty, SomeEmpty
    <3>2. new = [pc |-> "insert", tries |-> k.tries, lost |-> k.lost, chat |-> k.chat]
      BY <1>1 DEF Click
    <3>3. new \in Click /\ Paid(new, SomeEmpty)
      BY <1>1, <2>3, <3>2 DEF Click, Paid
    <3>. QED BY <3>1, <3>3
  <2>. QED BY <2>1, <2>2, <2>3
<1>. QED BY <1>1, <1>2 DEF ClickInv

LEMMA DeleteKeeps == ClickInv /\ DeleteChats => ClickInv'
<1>. SUFFICES ASSUME ClickInv, DeleteChats PROVE ClickInv'
  OBVIOUS
<1>1. PICK gone : /\ chat' = [c \in Chats |-> IF c \in gone THEN "deleted" ELSE chat[c]]
                  /\ Overtaken(gone)
  BY DEF DeleteChats
<1>2. chat' \in [Chats -> Chat] /\ \A c \in Chats \ gone : chat'[c] = chat[c]
  BY <1>1 DEF ClickInv, Chat
<1>. QED BY <1>1, <1>2, TakingChats

\* A click whose request died with the process is made again, or not.
LEMMA RestartKeeps == ClickInv /\ Restart => ClickInv'
<1>. SUFFICES ASSUME ClickInv, Restart PROVE ClickInv'
  OBVIOUS
<1>1. chat' = chat /\ (SomeEmpty' <=> SomeEmpty)
  BY DEF Restart, tables, SomeEmpty
<1>2. NewClick \in Click /\ Paid(NewClick, SomeEmpty)
  BY DEF NewClick, Click, Paid
<1>3. click' = [n \in Clicks |-> IF click[n].pc \in {"insert", "select"} THEN NewClick ELSE click[n]]
  BY DEF Restart
<1>. QED BY <1>1, <1>2, <1>3 DEF ClickInv, Paid

\* A turn changes a chat, or a click, only by saving its exchange.
LEMMA TurnKeeps ==
    ASSUME ClickInv, NEW t \in Turns,
           (\E c \in Chats : Begin(t, c)) \/ Step(t) \/ Disconnect(t)
    PROVE  ClickInv'
<1>1. CASE (\E c \in Chats : Begin(t, c)) \/ GetSession(t) \/ Start(t)
  BY <1>1, NobodyTouches DEF Begin, GetSession, Start, tables
<1>2. CASE Answering(t)
  BY <1>2, NobodyTouches DEF Answering, StreamFails, StreamEmpty, StreamCalls, StreamAnswers,
       RunTools, GroqFails, GroqCalls, GroqEnds, untouched, tables
<1>3. CASE Persist(t)
  <2>1. CASE Save(t)
    BY <2>1, Saving
  <2>2. CASE UNCHANGED <<tables, click>>
    BY <2>2, NobodyTouches DEF tables
  <2>. QED BY <1>3, <2>1, <2>2 DEF Persist
<1>4. CASE Disconnect(t)
  <2>1. CASE Save(t)
    BY <2>1, Saving
  <2>2. CASE UNCHANGED <<tables, click>>
    BY <2>2, NobodyTouches DEF tables
  <2>. QED BY <1>4, <2>1, <2>2 DEF Disconnect
<1>. QED BY <1>1, <1>2, <1>3, <1>4 DEF Step

LEMMA InitClicks == Init => ClickInv
<1>. SUFFICES ASSUME Init PROVE ClickInv
  OBVIOUS
<1>1. NewClick \in Click /\ Paid(NewClick, SomeEmpty)
  BY DEF NewClick, Click, Paid
<1>. QED BY <1>1 DEF Init, ClickInv, Chat

LEMMA NextClicks == ClickInv /\ [Next]_vars => ClickInv'
<1>. SUFFICES ASSUME ClickInv, [Next]_vars PROVE ClickInv'
  OBVIOUS
<1>1. ASSUME NEW n \in Clicks, InsertEmpty(n) \/ SelectEmpty(n)
      PROVE  ClickInv'
  BY <1>1, InsertKeeps, SelectKeeps
<1>2. ASSUME NEW t \in Turns, (\E c \in Chats : Begin(t, c)) \/ Step(t) \/ Disconnect(t)
      PROVE  ClickInv'
  BY <1>2, TurnKeeps
<1>3. CASE DeleteChats \/ Restart
  BY <1>3, DeleteKeeps, RestartKeeps
<1>4. ASSUME NEW c \in Chats, Evict(c)
      PROVE  ClickInv'
  BY <1>4, NobodyTouches DEF Evict, tables
<1>5. CASE UNCHANGED vars
  BY <1>5, NobodyTouches DEF vars, tables
<1>. QED BY <1>1, <1>2, <1>3, <1>4, <1>5 DEF Next

-----------------------------------------------------------------------------
\* Chats and clicks keep their types, and a click in the middle of
\* get_or_create_empty_conversation was overtaken once for every try but the one
\* under way (ask_ai/agent/history.py:36-51).
THEOREM ClicksCounted == Spec => []ClickInv
BY InitClicks, NextClicks, PTL DEF Spec

\* "New chat" fails only for a user whose chats stopped being empty at least
\* three times while it tried, for any number of tabs, turns and deletions
\* (ask_ai/agent/history.py:32-51).
THEOREM NewChatsServed == Spec => []NewChatServed
<1>1. ClickInv => NewChatServed
  BY DEF ClickInv, Paid, NewChatServed
<1>. QED BY <1>1, ClicksCounted, PTL

-----------------------------------------------------------------------------
(* Whose sessions are whose.                                               *)

Taken == HOLDING \cup {"waiting"}

Turn == [pc: HOLDING \cup {"new", "owned", "waiting", "ended"}, chat: Chats \cup {NoChat},
         session: Turns \cup {NoTurn}, mark: Nat, round: 0..MaxIterations, attempt: Nat,
         screen: Seq(Pieces), late: BOOLEAN]

\* The session of chat c, in the cache or in the hands of a turn.
Cached(c, s) == \E i \in DOMAIN cache : cache[i].chat = c /\ cache[i].session = s
TakenBy(c, s) == \E t \in Turns : turn[t].pc \in Taken /\ turn[t].chat = c /\ turn[t].session = s
InUse(c, s) == Cached(c, s) \/ TakenBy(c, s)

\* The turns a history speaks of, and those whose exchanges are stored.
Said(h) == {h[i].turn : i \in DOMAIN h}
Stored(c) == Said(messages[c])

\* Only a turn with a session has one, with a chat and a round.
WellTyped(k) ==
    /\ k.pc \in Taken \cup {"owned"} => k.chat \in Chats
    /\ k.pc \in Taken => k.session \in Turns
    /\ k.pc \notin Taken => k.session = NoTurn /\ k.late = FALSE
    /\ k.pc \notin HOLDING => k.screen = <<>>
    /\ k.pc \in HOLDING => k.round \in 1..MaxIterations

Types ==
    /\ chat \in [Chats -> Chat]
    /\ messages \in [Chats -> Seq(Exchange)]
    /\ cache \in Seq([chat: Chats, session: Turns])
    /\ hist \in [Turns -> Seq(Entries)]
    /\ turn \in [Turns -> Turn]
    /\ evicting \subseteq Chats
    /\ \A t \in Turns : WellTyped(turn[t])
    /\ \A c \in Chats : messages[c] # <<>> => chat[c] = "used"
    /\ \A i, j \in DOMAIN cache : cache[i].chat = cache[j].chat => i = j

\* A session belongs to one chat and, while its lock is held, to one turn.
Sessioned ==
    /\ \A c, d \in Chats, s \in Turns : InUse(c, s) /\ InUse(d, s) => c = d
    /\ \A c \in Chats, s \in Turns : InUse(c, s) => turn[s].pc \notin {"new", "owned"}
    /\ \A s \in Turns : hist[s] # <<>> => turn[s].pc \notin {"new", "owned"}
    /\ \A t, u \in Turns :
         turn[t].pc \in HOLDING /\ turn[u].pc \in HOLDING /\ turn[t].session = turn[u].session => t = u
    /\ \A t \in Turns : turn[t].pc \in HOLDING => turn[t].mark < Len(hist[turn[t].session])

\* A turn is spoken of in its own session until it is stored, and from then on in
\* sessions of its chat.
Traced ==
    /\ \A t \in Turns : turn[t].pc # "ended" => t \notin erased /\ \A c \in Chats : t \notin Stored(c)
    /\ \A t, s \in Turns : t \in Said(hist[s]) =>
         turn[t].pc = "ended" \/ (turn[t].pc \in HOLDING /\ turn[t].session = s)
    /\ \A c, d \in Chats : \A t \in Stored(c) \cap Stored(d) : c = d
    /\ \A c, d \in Chats, s \in Turns : \A t \in Said(hist[s]) \cap Stored(d) : InUse(c, s) => c = d

\* A chat that was deleted and evicted has only sessions that were made since.
Clean ==
    /\ \A c \in Chats, s \in Turns :
         Cached(c, s) /\ chat[c] = "deleted" /\ c \notin evicting => Said(hist[s]) \cap erased = {}
    /\ \A t \in Turns : turn[t].late =>
         chat[turn[t].chat] = "deleted" /\ Said(hist[turn[t].session]) \cap erased = {}

Owned == Types /\ Sessioned /\ Traced /\ Clean

\* Turns begin and end without a session, a chat of their own or a screen.
LEMMA EndedTyped ==
    /\ Ended \in Turn /\ WellTyped(Ended) /\ Ended.pc = "ended" /\ Ended.late = FALSE
    /\ Ended.session = NoTurn /\ Ended.screen = <<>>
    /\ NewTurn \in Turn /\ WellTyped(NewTurn) /\ NewTurn.pc = "new" /\ NewTurn.late = FALSE
    /\ NewTurn.session = NoTurn /\ NewTurn.screen = <<>>
<1>1. MaxIterations \in Nat
  BY ConversationsAssumption
<1>2. NewTurn \in Turn /\ WellTyped(NewTurn)
  BY <1>1 DEF NewTurn, Turn, WellTyped, Taken, HOLDING
<1>3. /\ NewTurn.pc = "new" /\ NewTurn.late = FALSE /\ NewTurn.session = NoTurn /\ NewTurn.screen = <<>>
  BY DEF NewTurn
<1>4. Ended \in Turn /\ Ended.pc = "ended" /\ Ended.late = FALSE /\ Ended.session = NoTurn /\ Ended.screen = <<>>
  <2>. HIDE DEF NewTurn
  <2>. QED BY <1>2, <1>3 DEF Ended, Turn
<1>5. WellTyped(Ended)
  <2>. HIDE DEF Ended
  <2>. QED BY <1>4 DEF WellTyped, Taken, HOLDING
<1>. QED BY <1>2, <1>3, <1>4, <1>5

\* What an entry adds to what is spoken of.
LEMMA SaidAppend ==
    ASSUME NEW R, NEW h \in Seq(R), NEW e \in R
    PROVE  Append(h, e) \in Seq(R) /\ Said(Append(h, e)) = Said(h) \cup {e.turn}
<1>1. /\ Append(h, e) \in Seq(R) /\ Len(Append(h, e)) = Len(h) + 1
      /\ \A i \in 1..Len(h) : Append(h, e)[i] = h[i]
      /\ Append(h, e)[Len(h) + 1] = e
  OBVIOUS
<1>2. DOMAIN Append(h, e) = 1..Len(h) + 1 /\ DOMAIN h = 1..Len(h) /\ Len(h) \in Nat
  BY <1>1
<1>. QED BY <1>1, <1>2 DEF Said

\* Histories that grow or are cut at either end.
LEMMA SaidOf ==
    ASSUME NEW h \in Seq(Entries)
    PROVE  /\ Said(h) \subseteq Turns
           /\ \A e \in Entries : Append(h, e) \in Seq(Entries) /\ Said(Append(h, e)) = Said(h) \cup {e.turn}
           /\ \A m \in Nat, n \in Nat : 1 <= m /\ n <= Len(h) =>
                SubSeq(h, m, n) \in Seq(Entries) /\ Said(SubSeq(h, m, n)) \subseteq Said(h)
<1>1. Said(h) \subseteq Turns
  <2>1. \A e \in Entries : e.turn \in Turns
    BY DEF Entries
  <2>2. \A i \in DOMAIN h : h[i] \in Entries
    OBVIOUS
  <2>. QED BY <2>1, <2>2 DEF Said
<1>2. ASSUME NEW e \in Entries
      PROVE  Append(h, e) \in Seq(Entries) /\ Said(Append(h, e)) = Said(h) \cup {e.turn}
  BY SaidAppend
<1>3. ASSUME NEW m \in Nat, NEW n \in Nat, 1 <= m, n <= Len(h)
      PROVE  SubSeq(h, m, n) \in Seq(Entries) /\ Said(SubSeq(h, m, n)) \subseteq Said(h)
  <2>1. \A i \in m..n : h[i] \in Entries
    BY <1>3
  <2>2. /\ SubSeq(h, m, n) \in Seq(Entries) /\ Len(SubSeq(h, m, n)) = IF m <= n THEN n - m + 1 ELSE 0
        /\ \A i \in 1..n - m + 1 : SubSeq(h, m, n)[i] = h[m + i - 1]
    BY <2>1, SubSeqProperties
  <2>3. DOMAIN SubSeq(h, m, n) = 1..Len(SubSeq(h, m, n)) /\ DOMAIN h = 1..Len(h)
    BY <2>2
  <2>4. \A i \in DOMAIN SubSeq(h, m, n) : m + i - 1 \in DOMAIN h /\ SubSeq(h, m, n)[i] = h[m + i - 1]
    BY <1>3, <2>2, <2>3
  <2>. QED BY <2>2, <2>4 DEF Said
<1>. QED BY <1>1, <1>2, <1>3

-----------------------------------------------------------------------------
(* The two histories a turn may begin with.                                *)

\* Numbers have a least one: the first question, where the cut falls.
LEMMA LeastOf ==
    ASSUME NEW S \in SUBSET Nat, S # {}
    PROVE  \E i \in S : \A j \in S : i <= j
<1>1. IsWellFoundedOn(OpToRel(<, Nat), Nat)
  BY NatLessThanWellFounded, Zenon
<1>2. PICK i \in S : \A j \in S : ~(<<j, i>> \in OpToRel(<, Nat))
  BY <1>1, WFMin, Zenon
<1>3. \A j \in S : ~(j < i)
  BY <1>2 DEF OpToRel
<1>. QED BY <1>3

\* Truncate drops what precedes the first of the questions left.
LEMMA TruncateFrom ==
    ASSUME NEW h \in Seq(Entries)
    PROVE  /\ Truncate(h) \in Seq(Entries) /\ Said(Truncate(h)) \subseteq Said(h)
           /\ \/ Truncate(h) = h
              \/ /\ Truncate(h) = <<>> /\ Len(h) > Limit
                 /\ \A q \in 1..Len(h) : Len(h) - q < Limit => h[q].kind # "question"
              \/ \E p \in 1..Len(h) :
                   /\ Len(h) - p < Limit /\ h[p].kind = "question"
                   /\ \A q \in 1..Len(h) : Len(h) - q < Limit /\ h[q].kind = "question" => p <= q
                   /\ Len(Truncate(h)) = Len(h) - p + 1
                   /\ \A j \in 1..Len(h) - p + 1 : Truncate(h)[j] = h[p + j - 1]
<1>0. Limit \in Nat /\ Len(h) \in Nat
  BY ConversationsAssumption
<1>1. CASE Len(h) <= Limit
  BY <1>1 DEF Truncate
<1>2. CASE Len(h) > Limit
  <2>. DEFINE n == Len(h)
              last == LastOf(h)
              questions == {i \in 1..Limit: last[i].kind = "question"}
              first == CHOOSE i \in questions : \A j \in questions : i <= j
  <2>1. /\ last \in Seq(Entries) /\ Len(last) = Limit
        /\ \A i \in 1..Limit : last[i] = h[n - Limit + i]
    <3>1. \A i \in n - Limit + 1..n : h[i] \in Entries
      BY <1>0, <1>2
    <3>2. /\ last \in Seq(Entries)
          /\ Len(last) = IF n - Limit + 1 <= n THEN n - (n - Limit + 1) + 1 ELSE 0
          /\ \A i \in 1..n - (n - Limit + 1) + 1 : last[i] = h[n - Limit + 1 + i - 1]
      BY <1>0, <3>1, SubSeqProperties DEF LastOf
    <3>. QED BY <1>0, <3>2
  <2>2. Truncate(h) = IF questions = {} THEN <<>> ELSE SubSeq(last, first, Limit)
    BY <1>0, <1>2 DEF Truncate
  <2>3. \A q \in 1..n : n - q < Limit /\ h[q].kind = "question" => q - (n - Limit) \in questions
    BY <1>0, <1>2, <2>1
  <2>4. CASE questions = {}
    <3>1. Truncate(h) = <<>> /\ \A q \in 1..n : n - q < Limit => h[q].kind # "question"
      BY <2>2, <2>3, <2>4
    <3>2. Said(<<>>) = {}
      BY DEF Said
    <3>. QED BY <1>2, <3>1, <3>2
  <2>5. CASE questions # {}
    <3>1. questions \in SUBSET Nat
      BY <1>0
    <3>2. first \in questions /\ \A j \in questions : first <= j
      BY <2>5, <3>1, LeastOf
    <3>. DEFINE p == n - Limit + first
    <3>. HIDE DEF first, questions, last
    <3>3. first \in 1..Limit /\ last[first].kind = "question"
      BY <3>2 DEF questions
    <3>4. /\ p \in 1..n /\ n - p < Limit /\ h[p].kind = "question"
          /\ \A q \in 1..n : n - q < Limit /\ h[q].kind = "question" => p <= q
      BY <1>0, <1>2, <2>1, <2>3, <3>2, <3>3
    <3>5. \A i \in first..Limit : last[i] \in Entries
      BY <1>0, <2>1, <3>3
    <3>6. /\ SubSeq(last, first, Limit) \in Seq(Entries)
          /\ Len(SubSeq(last, first, Limit)) = Limit - first + 1
          /\ \A j \in 1..Limit - first + 1 : SubSeq(last, first, Limit)[j] = last[first + j - 1]
      BY <1>0, <3>3, <3>5, SubSeqProperties
    <3>7. Truncate(h) = SubSeq(last, first, Limit)
      BY <2>2, <2>5
    <3>8. /\ Len(Truncate(h)) = n - p + 1
          /\ \A j \in 1..n - p + 1 : Truncate(h)[j] = h[p + j - 1]
      BY <1>0, <2>1, <3>3, <3>6, <3>7
    <3>9. Truncate(h) \in Seq(Entries)
      BY <3>6, <3>7
    <3>. HIDE DEF p
    <3>10. Said(Truncate(h)) \subseteq Said(h)
      <4>1. DOMAIN Truncate(h) = 1..n - p + 1 /\ DOMAIN h = 1..n
        BY <3>8, <3>9
      <4>2. \A j \in 1..n - p + 1 : p + j - 1 \in 1..n
        BY <1>0, <3>4
      <4>. QED BY <3>8, <4>1, <4>2 DEF Said
    <3>. QED BY <3>4, <3>8, <3>9, <3>10
  <2>. QED BY <2>4, <2>5
<1>. QED BY <1>0, <1>1, <1>2

\* load_thread: the last exchanges of the chat.
LEMMA LoadedThread ==
    ASSUME NEW c \in Chats, messages[c] \in Seq(Exchange)
    PROVE  /\ LoadThread(c) \in Seq(Entries)
           /\ Said(LoadThread(c)) \subseteq Stored(c)
           /\ messages[c] = <<>> => LoadThread(c) = <<>>
           /\ messages[c] # <<>> =>
                LET n == Len(LoadThread(c))
                IN  /\ n >= 2
                    /\ \A i \in 1..n : LoadThread(c)[i].kind \in {"question", "answer"}
                    /\ LoadThread(c)[1].kind = "question" /\ LoadThread(c)[n - 1].kind = "question"
                    /\ \A i \in 1..n - 1 : LoadThread(c)[i].kind # LoadThread(c)[i + 1].kind
                    /\ LoadThread(c)[n] = [kind |-> "answer", turn |-> messages[c][Len(messages[c])].turn]
<1>. DEFINE m == messages[c]
            older == IF 2 * Len(m) > Limit THEN Len(m) - Limit \div 2 ELSE 0
            k == Len(m) - older
            kind(i) == IF i % 2 = 1 THEN "question" ELSE "answer"
            e(i) == [kind |-> kind(i), turn |-> m[older + (i + 1) \div 2].turn]
<1>1. Len(m) \in Nat /\ Limit \in Nat /\ Limit % 2 = 0 /\ Limit >= 2
  BY ConversationsAssumption
<1>2. k \in Nat /\ older \in Nat /\ older + k = Len(m) /\ (m # <<>> => k >= 1) /\ (m = <<>> => k = 0)
  <2>1. m # <<>> => Len(m) >= 1
    BY <1>1
  <2>2. Limit \div 2 \in Nat /\ Limit \div 2 >= 1 /\ 2 * (Limit \div 2) = Limit
    BY <1>1
  <2>. HIDE DEF m
  <2>3. CASE 2 * Len(m) > Limit
    <3>1. older = Len(m) - Limit \div 2
      BY <2>3
    <3>. QED BY <1>1, <2>2, <2>3, <3>1
  <2>4. CASE ~(2 * Len(m) > Limit)
    BY <1>1, <2>1, <2>4
  <2>. QED BY <2>3, <2>4
<1>3. LoadThread(c) = [i \in 1..2 * k |-> e(i)]
  BY DEF LoadThread
<1>. HIDE DEF older, k
<1>4. ASSUME NEW i \in 1..2 * k
      PROVE  older + (i + 1) \div 2 \in 1..Len(m)
  <2>1. (i + 1) \div 2 \in 1..k
    BY <1>2
  <2>. QED BY <1>1, <1>2, <2>1
<1>5. \A x \in Exchange : x.turn \in Turns
  BY DEF Exchange
<1>6. \A j \in 1..Len(m) : m[j] \in Exchange /\ m[j].turn \in Turns
  BY <1>5
<1>7. ASSUME NEW i \in 1..2 * k
      PROVE  e(i) \in Entries /\ e(i).turn \in Stored(c) /\ e(i).kind = kind(i)
  <2>1. m[older + (i + 1) \div 2].turn \in Turns
    BY <1>4, <1>6
  <2>2. DOMAIN m = 1..Len(m)
    OBVIOUS
  <2>3. m[older + (i + 1) \div 2].turn \in Stored(c)
    BY <1>4, <2>2 DEF Stored, Said
  <2>. HIDE DEF m
  <2>. QED BY <2>1, <2>3 DEF Entries
<1>. HIDE DEF e
<1>8. LoadThread(c) \in Seq(Entries) /\ Len(LoadThread(c)) = 2 * k
      /\ \A i \in 1..2 * k : LoadThread(c)[i] = e(i)
  <2>1. 2 * k \in Nat
    BY <1>2
  <2>. QED BY <1>3, <1>7, <2>1
<1>9. Said(LoadThread(c)) \subseteq Stored(c)
  BY <1>7, <1>8 DEF Said
<1>10. m = <<>> => LoadThread(c) = <<>>
  BY <1>2, <1>8
<1>11. ASSUME m # <<>>
       PROVE  LET n == Len(LoadThread(c))
              IN  /\ n >= 2
                  /\ \A i \in 1..n : LoadThread(c)[i].kind \in {"question", "answer"}
                  /\ LoadThread(c)[1].kind = "question" /\ LoadThread(c)[n - 1].kind = "question"
                  /\ \A i \in 1..n - 1 : LoadThread(c)[i].kind # LoadThread(c)[i + 1].kind
                  /\ LoadThread(c)[n] = [kind |-> "answer", turn |-> m[Len(m)].turn]
  <2>1. k >= 1 /\ k \in Nat
    BY <1>2, <1>11
  <2>2. kind(1) = "question" /\ kind(2 * k - 1) = "question" /\ kind(2 * k) = "answer"
    BY <2>1
  <2>3. \A i \in 1..2 * k - 1 : kind(i) # kind(i + 1)
    BY <2>1
  <2>4. (2 * k + 1) \div 2 = k
    BY <2>1
  <2>5. e(2 * k) = [kind |-> "answer", turn |-> m[Len(m)].turn]
    <3>1. older + (2 * k + 1) \div 2 = Len(m)
      BY <1>2, <2>4
    <3>. QED BY <2>2, <3>1 DEF e
  <2>6. 1 \in 1..2 * k /\ 2 * k - 1 \in 1..2 * k /\ 2 * k \in 1..2 * k
        /\ \A i \in 1..2 * k - 1 : i \in 1..2 * k /\ i + 1 \in 1..2 * k
    BY <2>1
  <2>7. \A i \in 1..2 * k : kind(i) \in {"question", "answer"}
    OBVIOUS
  <2>. HIDE DEF kind
  <2>8. \A i \in 1..2 * k : LoadThread(c)[i].kind = kind(i)
    BY <1>7, <1>8
  <2>. QED BY <1>8, <2>1, <2>2, <2>3, <2>5, <2>6, <2>7, <2>8
<1>. QED BY <1>8, <1>9, <1>10, <1>11

-----------------------------------------------------------------------------
(* Steps that keep it so.                                                  *)

\* A turn that has a session says something in it, or something is loaded.
LEMMA SpeakingKeeps ==
    ASSUME Owned, NEW t \in Turns, turn[t].pc \in Taken,
           turn' \in [Turns -> Turn], \A u \in Turns \ {t} : turn'[u] = turn[u],
           turn'[t].pc \in HOLDING, WellTyped(turn'[t]),
           turn'[t].chat = turn[t].chat, turn'[t].session = turn[t].session, turn'[t].late = turn[t].late,
           turn[t].pc = "waiting" => Unlocked(turn[t].session),
           hist' \in [Turns -> Seq(Entries)], \A r \in Turns \ {turn[t].session} : hist'[r] = hist[r],
           Said(hist'[turn[t].session]) \subseteq Said(hist[turn[t].session]) \cup {t} \cup Stored(turn[t].chat),
           turn'[t].mark < Len(hist'[turn[t].session]),
           UNCHANGED <<tables, cache, evicting, erased>>
    PROVE  Owned'
<1>. DEFINE c == turn[t].chat
            s == turn[t].session
<1>1. /\ c \in Chats /\ s \in Turns /\ TakenBy(c, s) /\ InUse(c, s)
      /\ turn'[t].pc # "ended" /\ turn'[t].pc # "new" /\ turn'[t].pc # "owned" /\ turn'[t].pc \in Taken
      /\ turn[t].pc # "new" /\ turn[t].pc # "owned" /\ turn[t].pc # "ended"
  BY DEF Owned, Types, WellTyped, TakenBy, InUse, Taken, HOLDING
<1>2. UNCHANGED <<chat, messages, cache, evicting, erased>> /\ \A d \in Chats : Stored(d)' = Stored(d)
  BY DEF tables, Stored
<1>3. \A d \in Chats, r \in Turns :
        /\ Cached(d, r)' <=> Cached(d, r)
        /\ TakenBy(d, r)' <=> TakenBy(d, r)
        /\ InUse(d, r)' <=> InUse(d, r)
  <2>1. \A d \in Chats, r \in Turns : Cached(d, r)' <=> Cached(d, r)
    BY <1>2 DEF Cached
  <2>2. \A u \in Turns : /\ turn'[u].pc \in Taken <=> turn[u].pc \in Taken
                         /\ turn'[u].chat = turn[u].chat /\ turn'[u].session = turn[u].session
    BY <1>1
  <2>3. \A d \in Chats, r \in Turns : TakenBy(d, r)' <=> TakenBy(d, r)
    BY <2>2 DEF TakenBy
  <2>. QED BY <2>1, <2>3 DEF InUse
<1>4. Types'
  BY <1>2 DEF Owned, Types
<1>5. \A u \in Turns : /\ turn'[u].pc \in {"new", "owned"} <=> turn[u].pc \in {"new", "owned"}
                       /\ turn'[u].pc = "ended" <=> turn[u].pc = "ended"
  BY <1>1
<1>6. Sessioned'
  <2>1. \A d, e \in Chats, r \in Turns : InUse(d, r)' /\ InUse(e, r)' => d = e
    BY <1>3 DEF Owned, Sessioned
  <2>2. \A d \in Chats, r \in Turns : InUse(d, r)' => turn'[r].pc \notin {"new", "owned"}
    BY <1>3, <1>5 DEF Owned, Sessioned
  <2>3. \A r \in Turns : hist'[r] # <<>> => turn'[r].pc \notin {"new", "owned"}
    BY <1>1, <1>5 DEF Owned, Sessioned
  <2>4. \A u \in Turns \ {t} : turn[u].pc \in HOLDING => turn[u].session # s
    BY <1>1 DEF Owned, Sessioned, Taken, Unlocked
  <2>5. \A u, v \in Turns :
          turn'[u].pc \in HOLDING /\ turn'[v].pc \in HOLDING /\ turn'[u].session = turn'[v].session => u = v
    BY <2>4 DEF Owned, Sessioned
  <2>6. \A u \in Turns : turn'[u].pc \in HOLDING => turn'[u].mark < Len(hist'[turn'[u].session])
    <3>1. \A u \in Turns : turn[u].pc \in HOLDING => turn[u].session \in Turns
      BY DEF Owned, Types, WellTyped, Taken
    <3>. QED BY <2>4, <3>1 DEF Owned, Sessioned
  <2>. QED BY <2>1, <2>2, <2>3, <2>5, <2>6 DEF Sessioned
<1>7. \A u \in Stored(c) : turn[u].pc = "ended" \/ u \notin Turns
  BY <1>1 DEF Owned, Traced
<1>8. \A r \in Turns : r # s => Said(hist'[r]) = Said(hist[r])
  OBVIOUS
<1>9. Said(hist'[s]) \subseteq Said(hist[s]) \cup {t} \cup Stored(c)
  OBVIOUS
<1>. HIDE DEF c, s
<1>10. Traced'
  <2>1. \A u \in Turns : turn'[u].pc # "ended" => u \notin erased' /\ \A d \in Chats : u \notin Stored(d)'
    BY <1>2, <1>5 DEF Owned, Traced
  <2>2. \A u, r \in Turns : u \in Said(hist'[r]) =>
          turn'[u].pc = "ended" \/ (turn'[u].pc \in HOLDING /\ turn'[u].session = r)
    <3>. SUFFICES ASSUME NEW u \in Turns, NEW r \in Turns, u \in Said(hist'[r]), turn'[u].pc # "ended"
                  PROVE  turn'[u].pc \in HOLDING /\ turn'[u].session = r
      OBVIOUS
    <3>1. CASE u \in Said(hist[r])
      <4>1. turn[u].pc \in HOLDING /\ turn[u].session = r
        BY <1>5, <3>1 DEF Owned, Traced
      <4>. QED BY <4>1
    <3>2. CASE u \notin Said(hist[r])
      <4>1. r = s /\ u \in {t} \cup Stored(c)
        BY <1>8, <1>9, <3>2
      <4>2. u = t
        BY <1>5, <1>7, <4>1
      <4>. QED BY <4>1, <4>2 DEF s
    <3>. QED BY <3>1, <3>2
  <2>3. \A d, e \in Chats : \A u \in Stored(d)' \cap Stored(e)' : d = e
    BY <1>2 DEF Owned, Traced
  <2>4. \A d, e \in Chats, r \in Turns : \A u \in Said(hist'[r]) \cap Stored(e)' : InUse(d, r)' => d = e
    <3>. SUFFICES ASSUME NEW d \in Chats, NEW e \in Chats, NEW r \in Turns, NEW u \in Said(hist'[r]),
                         u \in Stored(e), InUse(d, r)
                  PROVE  d = e
      BY <1>2, <1>3
    <3>1. CASE u \in Said(hist[r])
      BY <3>1 DEF Owned, Traced
    <3>2. CASE u \notin Said(hist[r])
      <4>1. r = s /\ u \in {t} \cup Stored(c)
        BY <1>8, <1>9, <3>2
      <4>2. d = c
        BY <1>1, <4>1 DEF Owned, Sessioned
      <4>3. u # t
        BY <1>1 DEF Owned, Traced
      <4>. QED BY <1>1, <4>1, <4>2, <4>3 DEF Owned, Traced
    <3>. QED BY <3>1, <3>2
  <2>. QED BY <2>1, <2>2, <2>3, <2>4 DEF Traced
<1>11. ASSUME NEW d \in Chats, NEW r \in Turns, InUse(d, r), chat[d] = "deleted", Said(hist[r]) \cap erased = {}
       PROVE  Said(hist'[r]) \cap erased = {}
  <2>1. CASE r # s
    BY <1>8, <1>11, <2>1
  <2>2. CASE r = s
    <3>1. d = c
      BY <1>1, <1>11, <2>2 DEF Owned, Sessioned
    <3>2. Stored(c) = {}
      BY <1>1, <1>11, <3>1 DEF Owned, Types, Stored, Said
    <3>3. t \notin erased
      BY <1>1 DEF Owned, Traced
    <3>. QED BY <1>9, <1>11, <2>2, <3>2, <3>3
  <2>. QED BY <2>1, <2>2
<1>12. Clean'
  <2>1. \A d \in Chats, r \in Turns :
          Cached(d, r)' /\ chat'[d] = "deleted" /\ d \notin evicting' => Said(hist'[r]) \cap erased' = {}
    BY <1>2, <1>3, <1>11 DEF Owned, Clean, InUse
  <2>2. ASSUME NEW u \in Turns, turn'[u].late
        PROVE  chat'[turn'[u].chat] = "deleted" /\ Said(hist'[turn[u].session]) \cap erased' = {}
    <3>1. turn'[u].chat = turn[u].chat /\ turn'[u].session = turn[u].session /\ turn'[u].late = turn[u].late
      BY DEF Owned
    <3>2. turn[u].late = TRUE
      BY <2>2, <3>1, Zenon
    <3>3. turn[u].pc \in Taken
      BY <3>2 DEF Owned, Types, WellTyped
    <3>4. turn[u].chat \in Chats /\ turn[u].session \in Turns /\ InUse(turn[u].chat, turn[u].session)
      BY <3>3 DEF Owned, Types, WellTyped, InUse, TakenBy
    <3>5. chat[turn[u].chat] = "deleted" /\ Said(hist[turn[u].session]) \cap erased = {}
      BY <3>2 DEF Owned, Clean
    <3>6. \A r : r = turn[u].session => Said(hist'[r]) = Said(hist'[turn[u].session])
      BY <3>1 DEF Said
    <3>. QED BY <1>2, <1>11, <3>1, <3>4, <3>5, <3>6
  <2>. QED BY <2>1, <2>2 DEF Clean
<1>. QED BY <1>4, <1>6, <1>10, <1>12 DEF Owned

\* Turns end, what they said is taken back or stays, and sessions leave the cache.
LEMMA LeavingKeeps ==
    ASSUME Owned,
           turn' \in [Turns -> Turn], \A u \in Turns : turn'[u] = turn[u] \/ turn'[u] = Ended,
           hist' \in [Turns -> Seq(Entries)],
           \A r \in Turns :
             \/ hist'[r] = hist[r]
             \/ /\ Said(hist'[r]) \subseteq Said(hist[r]) /\ hist[r] # <<>>
                /\ \A u \in Turns : turn'[u].pc \in HOLDING => turn'[u].session # r,
           cache' \in Seq([chat: Chats, session: Turns]),
           \A i, j \in DOMAIN cache' : cache'[i].chat = cache'[j].chat => i = j,
           \A d \in Chats, r \in Turns : Cached(d, r)' => Cached(d, r) /\ (d \in evicting => d \in evicting'),
           evicting' \subseteq Chats,
           UNCHANGED <<tables, erased>>
    PROVE  Owned'
<1>1. UNCHANGED <<chat, messages, erased>> /\ \A d \in Chats : Stored(d)' = Stored(d)
  BY DEF tables, Stored
<1>2. \A u \in Turns : turn'[u].pc # "ended" => turn'[u] = turn[u]
  BY EndedTyped
<1>3. \A u \in Turns : turn'[u].pc \in Taken => turn'[u] = turn[u]
  BY EndedTyped DEF Taken, HOLDING
<1>4. \A d \in Chats, r \in Turns :
        /\ TakenBy(d, r)' => TakenBy(d, r)
        /\ InUse(d, r)' => InUse(d, r)
  <2>1. \A d \in Chats, r \in Turns : TakenBy(d, r)' => TakenBy(d, r)
    BY <1>3 DEF TakenBy
  <2>. QED BY <2>1 DEF InUse
<1>5. Types'
  <2>1. \A u \in Turns : WellTyped(turn'[u])
    BY EndedTyped DEF Owned, Types
  <2>. QED BY <1>1, <2>1 DEF Owned, Types
<1>6. \A r \in Turns : Said(hist'[r]) \subseteq Said(hist[r]) /\ (hist'[r] # <<>> => hist[r] # <<>>)
  OBVIOUS
<1>7. Sessioned'
  <2>1. \A d, e \in Chats, r \in Turns : InUse(d, r)' /\ InUse(e, r)' => d = e
    BY <1>4 DEF Owned, Sessioned
  <2>2. \A r \in Turns : turn[r].pc \notin {"new", "owned"} => turn'[r].pc \notin {"new", "owned"}
    BY EndedTyped
  <2>3. \A d \in Chats, r \in Turns : InUse(d, r)' => turn'[r].pc \notin {"new", "owned"}
    BY <1>4, <2>2 DEF Owned, Sessioned
  <2>4. \A r \in Turns : hist'[r] # <<>> => turn'[r].pc \notin {"new", "owned"}
    BY <1>6, <2>2 DEF Owned, Sessioned
  <2>5. \A u \in Turns : turn'[u].pc \in HOLDING => turn'[u] = turn[u] /\ turn[u].pc \in HOLDING
    BY <1>3 DEF Taken
  <2>6. \A u, v \in Turns :
          turn'[u].pc \in HOLDING /\ turn'[v].pc \in HOLDING /\ turn'[u].session = turn'[v].session => u = v
    BY <2>5 DEF Owned, Sessioned
  <2>7. ASSUME NEW u \in Turns, turn'[u].pc \in HOLDING
        PROVE  turn'[u].mark < Len(hist'[turn'[u].session])
    <3>1. turn[u].session \in Turns
      BY <2>5, <2>7 DEF Owned, Types, WellTyped, Taken
    <3>2. hist'[turn'[u].session] = hist[turn[u].session]
      BY <2>5, <2>7, <3>1
    <3>. QED BY <2>5, <2>7, <3>2 DEF Owned, Sessioned
  <2>. QED BY <2>1, <2>3, <2>4, <2>6, <2>7 DEF Sessioned
<1>8. Traced'
  <2>1. \A u \in Turns : turn'[u].pc # "ended" => u \notin erased' /\ \A d \in Chats : u \notin Stored(d)'
    BY <1>1, <1>2 DEF Owned, Traced
  <2>2. \A u, r \in Turns : u \in Said(hist'[r]) =>
          turn'[u].pc = "ended" \/ (turn'[u].pc \in HOLDING /\ turn'[u].session = r)
    BY <1>2, <1>6 DEF Owned, Traced
  <2>3. \A d, e \in Chats : \A u \in Stored(d)' \cap Stored(e)' : d = e
    BY <1>1 DEF Owned, Traced
  <2>4. \A d, e \in Chats, r \in Turns : \A u \in Said(hist'[r]) \cap Stored(e)' : InUse(d, r)' => d = e
    BY <1>1, <1>4, <1>6 DEF Owned, Traced
  <2>. QED BY <2>1, <2>2, <2>3, <2>4 DEF Traced
<1>9. Clean'
  <2>1. \A d \in Chats, r \in Turns :
          Cached(d, r)' /\ chat'[d] = "deleted" /\ d \notin evicting' => Said(hist'[r]) \cap erased' = {}
    <3>. SUFFICES ASSUME NEW d \in Chats, NEW r \in Turns, Cached(d, r)', chat'[d] = "deleted", d \notin evicting'
                  PROVE  Said(hist'[r]) \cap erased' = {}
      OBVIOUS
    <3>1. Cached(d, r) /\ d \notin evicting /\ chat[d] = "deleted"
      BY <1>1
    <3>2. Said(hist[r]) \cap erased = {}
      BY <3>1 DEF Owned, Clean
    <3>. QED BY <1>1, <1>6, <3>2
  <2>2. ASSUME NEW u \in Turns, turn'[u].late
        PROVE  chat'[turn'[u].chat] = "deleted" /\ Said(hist'[turn'[u].session]) \cap erased' = {}
    <3>1. turn'[u] # Ended
      BY <2>2, EndedTyped
    <3>2. turn'[u] = turn[u] /\ turn[u].late
      BY <2>2, <3>1
    <3>3. turn[u].session \in Turns
      <4>1. turn[u].late = TRUE /\ WellTyped(turn[u])
        BY <3>2 DEF Owned, Types, Turn
      <4>. QED BY <4>1 DEF WellTyped
    <3>4. chat[turn[u].chat] = "deleted" /\ Said(hist[turn[u].session]) \cap erased = {}
      BY <3>2 DEF Owned, Clean
    <3>. QED BY <1>1, <1>6, <3>2, <3>3, <3>4
  <2>. QED BY <2>1, <2>2 DEF Clean
<1>. QED BY <1>5, <1>7, <1>8, <1>9 DEF Owned

\* An answered turn stores its exchange, or finds its chat deleted.
LEMMA SavingKeeps ==
    ASSUME Owned, NEW t \in Turns, NEW c, NEW s, c = turn[t].chat, s = turn[t].session,
           turn[t].pc = "answered", turn' = [turn EXCEPT ![t] = Ended], Save(t),
           UNCHANGED <<cache, hist, evicting, erased>>
    PROVE  Owned'
<1>. DEFINE x == [turn |-> t, text |-> turn[t].screen]
<1>1. /\ c \in Chats /\ s \in Turns /\ turn[t].pc \in HOLDING /\ turn[t].pc \in Taken /\ turn[t].pc # "ended"
      /\ TakenBy(c, s) /\ InUse(c, s) /\ turn[t].screen \in Seq(Pieces)
  BY DEF Owned, Types, Turn, WellTyped, Taken, HOLDING, TakenBy, InUse
<1>2. /\ turn' \in [Turns -> Turn] /\ turn'[t] = Ended /\ \A u \in Turns \ {t} : turn'[u] = turn[u]
  BY EndedTyped DEF Owned, Types
<1>3. CASE chat[c] = "deleted"
  <2>1. UNCHANGED tables
    BY <1>3 DEF Save
  <2>2. \A d \in Chats, r \in Turns : Cached(d, r)' => Cached(d, r)
    BY DEF Cached
  <2>. QED BY <1>2, <2>1, <2>2, LeavingKeeps DEF Owned, Types
<1>4. CASE chat[c] # "deleted"
  <2>1. chat' = [chat EXCEPT ![c] = "used"] /\ messages' = [messages EXCEPT ![c] = Append(@, x)]
    BY <1>4 DEF Save
  <2>2. x \in Exchange /\ x.turn = t
    BY <1>1 DEF Exchange
  <2>. HIDE DEF x
  <2>3. /\ messages' \in [Chats -> Seq(Exchange)] /\ \A d \in Chats \ {c} : messages'[d] = messages[d]
        /\ messages'[c] = Append(messages[c], x) /\ messages[c] \in Seq(Exchange)
    BY <1>1, <2>1, <2>2 DEF Owned, Types
  <2>4. /\ chat' \in [Chats -> Chat] /\ chat'[c] = "used" /\ \A d \in Chats \ {c} : chat'[d] = chat[d]
    BY <1>1, <2>1 DEF Owned, Types, Chat
  <2>5. \A d \in Chats \ {c} : Stored(d)' = Stored(d)
    BY <2>3 DEF Stored
  <2>6. Stored(c)' = Stored(c) \cup {t}
    BY <2>2, <2>3, SaidAppend DEF Stored
  <2>7. \A u \in Turns : turn'[u].pc \in Taken => u # t /\ turn'[u] = turn[u]
    BY <1>2, EndedTyped DEF Taken, HOLDING
  <2>8. \A d \in Chats, r \in Turns :
        /\ Cached(d, r)' <=> Cached(d, r)
        /\ TakenBy(d, r)' => TakenBy(d, r)
        /\ InUse(d, r)' => InUse(d, r)
    <3>1. \A d \in Chats, r \in Turns : Cached(d, r)' <=> Cached(d, r)
      BY DEF Cached
    <3>2. \A d \in Chats, r \in Turns : TakenBy(d, r)' => TakenBy(d, r)
      BY <2>7 DEF TakenBy
    <3>. QED BY <3>1, <3>2 DEF InUse
  <2>9. Types'
    <3>1. \A u \in Turns : WellTyped(turn'[u])
      BY <1>2, EndedTyped DEF Owned, Types
    <3>2. \A d \in Chats : messages'[d] # <<>> => chat'[d] = "used"
      BY <2>3, <2>4 DEF Owned, Types
    <3>. QED BY <1>2, <2>3, <2>4, <3>1, <3>2 DEF Owned, Types
  <2>10. \A u \in Turns : turn'[u].pc # "ended" => u # t /\ turn'[u] = turn[u]
    BY <1>2, EndedTyped
  <2>11. Sessioned'
    <3>1. \A d, e \in Chats, r \in Turns : InUse(d, r)' /\ InUse(e, r)' => d = e
      BY <2>8 DEF Owned, Sessioned
    <3>2. \A r \in Turns : turn[r].pc \notin {"new", "owned"} => turn'[r].pc \notin {"new", "owned"}
      BY <1>2, EndedTyped
    <3>3. \A d \in Chats, r \in Turns : InUse(d, r)' => turn'[r].pc \notin {"new", "owned"}
      BY <2>8, <3>2 DEF Owned, Sessioned
    <3>4. \A r \in Turns : hist'[r] # <<>> => turn'[r].pc \notin {"new", "owned"}
      BY <3>2 DEF Owned, Sessioned
    <3>5. \A u \in Turns : turn'[u].pc \in HOLDING => turn'[u] = turn[u]
      BY <2>7 DEF Taken
    <3>6. /\ \A u, v \in Turns :
               turn'[u].pc \in HOLDING /\ turn'[v].pc \in HOLDING /\ turn'[u].session = turn'[v].session => u = v
          /\ \A u \in Turns : turn'[u].pc \in HOLDING => turn'[u].mark < Len(hist'[turn'[u].session])
      BY <3>5 DEF Owned, Sessioned
    <3>. QED BY <3>1, <3>3, <3>4, <3>6 DEF Sessioned
  <2>12. t \notin erased /\ \A d \in Chats : t \notin Stored(d)
    BY <1>1 DEF Owned, Traced
  <2>13. Traced'
    <3>1. \A u \in Turns : turn'[u].pc # "ended" => u \notin erased' /\ \A d \in Chats : u \notin Stored(d)'
      BY <2>5, <2>6, <2>10 DEF Owned, Traced
    <3>2. \A u, r \in Turns : u \in Said(hist[r]) =>
            turn'[u].pc = "ended" \/ (turn'[u].pc \in HOLDING /\ turn'[u].session = r)
      BY <2>10 DEF Owned, Traced
    <3>3. \A d, e \in Chats : \A u \in Stored(d)' \cap Stored(e)' : d = e
      <4>. SUFFICES ASSUME NEW d \in Chats, NEW e \in Chats, NEW u \in Stored(d)' \cap Stored(e)'
                    PROVE  d = e
        OBVIOUS
      <4>1. CASE u = t
        BY <1>1, <2>5, <2>6, <2>12, <4>1
      <4>2. CASE u # t
        <5>1. u \in Stored(d) \cap Stored(e)
          BY <2>5, <2>6, <4>2
        <5>. QED BY <5>1 DEF Owned, Traced
      <4>. QED BY <4>1, <4>2
    <3>4. \A d, e \in Chats, r \in Turns : \A u \in Said(hist[r]) \cap Stored(e)' : InUse(d, r)' => d = e
      <4>. SUFFICES ASSUME NEW d \in Chats, NEW e \in Chats, NEW r \in Turns,
                           NEW u \in Said(hist[r]) \cap Stored(e)', InUse(d, r)
                    PROVE  d = e
        BY <2>8
      <4>1. CASE u = t
        <5>1. e = c
          BY <2>5, <2>12, <4>1
        <5>2. turn[t].session = r
          BY <1>1, <4>1 DEF Owned, Traced
        <5>3. InUse(c, r)
          BY <1>1, <5>2
        <5>. QED BY <1>1, <5>1, <5>3 DEF Owned, Sessioned
      <4>2. CASE u # t
        <5>1. u \in Stored(e)
          BY <2>5, <2>6, <4>2
        <5>. QED BY <5>1 DEF Owned, Traced
      <4>. QED BY <4>1, <4>2
    <3>. QED BY <3>1, <3>2, <3>3, <3>4 DEF Traced
  <2>14. Clean'
    <3>1. \A d \in Chats, r \in Turns :
          Cached(d, r)' /\ chat'[d] = "deleted" /\ d \notin evicting' => Said(hist[r]) \cap erased = {}
      BY <2>4, <2>8 DEF Owned, Clean
    <3>2. ASSUME NEW u \in Turns, turn'[u].late
          PROVE  chat'[turn'[u].chat] = "deleted" /\ Said(hist[turn'[u].session]) \cap erased = {}
      <4>1. turn'[u] # Ended
        BY <3>2, EndedTyped
      <4>2. turn'[u] = turn[u] /\ turn[u].late
        BY <1>2, <3>2, <4>1
      <4>3. turn[u].chat \in Chats
        <5>1. turn[u].late = TRUE /\ WellTyped(turn[u])
          BY <4>2 DEF Owned, Types, Turn
        <5>. QED BY <5>1 DEF WellTyped
      <4>4. chat[turn[u].chat] = "deleted" /\ Said(hist[turn[u].session]) \cap erased = {}
        BY <4>2 DEF Owned, Clean
      <4>5. turn[u].chat # c
        BY <1>4, <4>4
      <4>. QED BY <2>4, <4>2, <4>3, <4>4, <4>5
    <3>. QED BY <3>1, <3>2 DEF Clean
  <2>. QED BY <2>9, <2>11, <2>13, <2>14 DEF Owned
<1>. QED BY <1>3, <1>4

\* Stored exchanges go with their chats, whose sessions are still to be evicted.
LEMMA DeletingKeeps == Owned /\ DeleteChats => Owned'
<1>. SUFFICES ASSUME Owned, DeleteChats PROVE Owned'
  OBVIOUS
<1>1. PICK gone \in SUBSET Chats :
        /\ \A d \in gone : chat[d] \in {"empty", "used"}
        /\ chat' = [d \in Chats |-> IF d \in gone THEN "deleted" ELSE chat[d]]
        /\ messages' = [d \in Chats |-> IF d \in gone THEN <<>> ELSE messages[d]]
        /\ evicting' = evicting \cup gone
        /\ erased' = erased \cup UNION {{m.turn : m \in Range(messages[d])}: d \in gone}
        /\ UNCHANGED <<cache, hist, turn>>
  BY DEF DeleteChats
<1>2. /\ chat' \in [Chats -> Chat] /\ \A d \in gone : chat'[d] = "deleted"
      /\ \A d \in Chats \ gone : chat'[d] = chat[d]
  BY <1>1 DEF Owned, Types, Chat
<1>3. /\ messages' \in [Chats -> Seq(Exchange)] /\ \A d \in gone : messages'[d] = <<>>
      /\ \A d \in Chats \ gone : messages'[d] = messages[d]
  BY <1>1 DEF Owned, Types
<1>4. \A d \in Chats : Stored(d)' \subseteq Stored(d) /\ (d \in gone => Stored(d)' = {})
  BY <1>3 DEF Stored, Said
<1>5. ASSUME NEW u
      PROVE  u \in erased' <=> (u \in erased \/ \E d \in gone : u \in Stored(d))
  <2>1. \A d \in gone : {m.turn : m \in Range(messages[d])} = Stored(d)
    BY DEF Stored, Said, Range
  <2>. QED BY <1>1, <2>1
<1>6. \A d \in Chats, r \in Turns :
        /\ Cached(d, r)' <=> Cached(d, r)
        /\ TakenBy(d, r)' <=> TakenBy(d, r)
        /\ InUse(d, r)' <=> InUse(d, r)
  BY <1>1 DEF InUse, Cached, TakenBy
<1>7. Types'
  <2>1. \A d \in Chats : messages'[d] # <<>> => chat'[d] = "used"
    BY <1>2, <1>3 DEF Owned, Types
  <2>2. evicting' \subseteq Chats
    BY <1>1 DEF Owned, Types
  <2>. QED BY <1>1, <1>2, <1>3, <2>1, <2>2 DEF Owned, Types
<1>8. Sessioned'
  BY <1>1, <1>6 DEF Owned, Sessioned
<1>9. Traced'
  <2>1. \A u \in Turns : turn'[u].pc # "ended" => u \notin erased' /\ \A d \in Chats : u \notin Stored(d)'
    BY <1>1, <1>4, <1>5 DEF Owned, Traced
  <2>2. \A u, r \in Turns : u \in Said(hist'[r]) =>
          turn'[u].pc = "ended" \/ (turn'[u].pc \in HOLDING /\ turn'[u].session = r)
    BY <1>1 DEF Owned, Traced
  <2>3. \A d, e \in Chats : \A u \in Stored(d)' \cap Stored(e)' : d = e
    BY <1>4 DEF Owned, Traced
  <2>4. \A d, e \in Chats, r \in Turns : \A u \in Said(hist'[r]) \cap Stored(e)' : InUse(d, r)' => d = e
    BY <1>1, <1>4, <1>6 DEF Owned, Traced
  <2>. QED BY <2>1, <2>2, <2>3, <2>4 DEF Traced
<1>10. ASSUME NEW d \in Chats, NEW r \in Turns, InUse(d, r), d \notin gone, Said(hist[r]) \cap erased = {}
       PROVE  Said(hist'[r]) \cap erased' = {}
  BY <1>1, <1>5, <1>10 DEF Owned, Traced
<1>11. Clean'
  <2>1. ASSUME NEW d \in Chats, NEW r \in Turns, Cached(d, r)', chat'[d] = "deleted", d \notin evicting'
        PROVE  Said(hist'[r]) \cap erased' = {}
    <3>1. d \notin gone /\ d \notin evicting /\ chat[d] = "deleted" /\ Cached(d, r) /\ InUse(d, r)
      BY <1>1, <1>2, <1>6, <2>1 DEF InUse
    <3>. QED BY <1>10, <3>1 DEF Owned, Clean
  <2>2. ASSUME NEW u \in Turns, turn'[u].late
        PROVE  chat'[turn'[u].chat] = "deleted" /\ Said(hist'[turn'[u].session]) \cap erased' = {}
    <3>1. turn'[u] = turn[u] /\ turn[u].late = TRUE /\ WellTyped(turn[u])
      BY <1>1, <2>2 DEF Owned, Types, Turn
    <3>2. turn[u].pc \in Taken /\ turn[u].chat \in Chats /\ turn[u].session \in Turns
      BY <3>1 DEF WellTyped
    <3>3. InUse(turn[u].chat, turn[u].session)
      BY <3>2 DEF InUse, TakenBy
    <3>4. chat[turn[u].chat] = "deleted" /\ Said(hist[turn[u].session]) \cap erased = {}
      BY <3>1 DEF Owned, Clean
    <3>5. turn[u].chat \notin gone
      BY <1>1, <3>4
    <3>. QED BY <1>2, <1>10, <3>1, <3>2, <3>3, <3>4, <3>5
  <2>. QED BY <2>1, <2>2 DEF Clean
<1>. QED BY <1>7, <1>8, <1>9, <1>11 DEF Owned

\* A chat is created, or a turn is let in: no session is involved.
LEMMA LettingInKeeps ==
    ASSUME Owned,
           turn' \in [Turns -> Turn],
           \A u \in Turns : \/ turn'[u] = turn[u]
                            \/ turn[u].pc = "new" /\ turn'[u].pc = "owned" /\ WellTyped(turn'[u]) /\ ~turn'[u].late,
           chat' \in [Chats -> Chat],
           \A d \in Chats : chat'[d] = chat[d] \/ (chat[d] = "none" /\ chat'[d] = "empty"),
           UNCHANGED <<messages, cache, hist, evicting, erased>>
    PROVE  Owned'
<1>1. \A u \in Turns : /\ turn'[u].pc \in Taken \/ turn[u].pc \in Taken => turn'[u] = turn[u]
                       /\ turn'[u].pc = "ended" <=> turn[u].pc = "ended"
                       /\ turn'[u].pc \in {"new", "owned"} <=> turn[u].pc \in {"new", "owned"}
                       /\ turn'[u].late => turn'[u] = turn[u]
  BY DEF Taken, HOLDING
<1>2. \A d \in Chats, r \in Turns :
        /\ Cached(d, r)' <=> Cached(d, r)
        /\ TakenBy(d, r)' <=> TakenBy(d, r)
        /\ InUse(d, r)' <=> InUse(d, r)
  <2>1. \A d \in Chats, r \in Turns : Cached(d, r)' <=> Cached(d, r)
    BY DEF Cached
  <2>2. \A d \in Chats, r \in Turns : TakenBy(d, r)' <=> TakenBy(d, r)
    BY <1>1 DEF TakenBy
  <2>. QED BY <2>1, <2>2 DEF InUse
<1>3. \A d \in Chats : Stored(d)' = Stored(d) /\ (chat'[d] = "deleted" <=> chat[d] = "deleted")
                       /\ (chat[d] = "used" => chat'[d] = "used")
  BY DEF Stored
<1>4. Types'
  BY <1>3 DEF Owned, Types
<1>5. Sessioned'
  <2>1. \A u \in Turns : turn'[u].pc \in HOLDING => turn'[u] = turn[u]
    BY <1>1 DEF Taken
  <2>. QED BY <1>1, <1>2, <2>1 DEF Owned, Sessioned
<1>6. Traced'
  <2>1. \A u \in Turns : turn'[u].pc # "ended" => u \notin erased' /\ \A d \in Chats : u \notin Stored(d)'
    BY <1>1, <1>3 DEF Owned, Traced
  <2>2. \A u, r \in Turns : u \in Said(hist'[r]) =>
          turn'[u].pc = "ended" \/ (turn'[u].pc \in HOLDING /\ turn'[u].session = r)
    BY <1>1 DEF Owned, Traced, Taken
  <2>3. \A d, e \in Chats : \A u \in Stored(d)' \cap Stored(e)' : d = e
    BY <1>3 DEF Owned, Traced
  <2>4. \A d, e \in Chats, r \in Turns : \A u \in Said(hist'[r]) \cap Stored(e)' : InUse(d, r)' => d = e
    BY <1>2, <1>3 DEF Owned, Traced
  <2>. QED BY <2>1, <2>2, <2>3, <2>4 DEF Traced
<1>7. Clean'
  <2>1. ASSUME NEW u \in Turns, turn'[u].late
        PROVE  chat'[turn'[u].chat] = "deleted" /\ Said(hist'[turn'[u].session]) \cap erased' = {}
    <3>1. turn'[u] = turn[u] /\ turn[u].late = TRUE /\ WellTyped(turn[u])
      BY <1>1, <2>1 DEF Owned, Types, Turn
    <3>2. turn[u].chat \in Chats
      BY <3>1 DEF WellTyped
    <3>. QED BY <1>3, <3>1, <3>2 DEF Owned, Clean
  <2>2. \A d \in Chats, r \in Turns :
          Cached(d, r)' /\ chat'[d] = "deleted" /\ d \notin evicting' => Said(hist'[r]) \cap erased' = {}
    BY <1>2, <1>3 DEF Owned, Clean
  <2>. QED BY <2>1, <2>2 DEF Clean
<1>. QED BY <1>4, <1>5, <1>6, <1>7 DEF Owned

-----------------------------------------------------------------------------
(* The cache.                                                              *)

Slot == [chat: Chats, session: Turns]

\* What is left of the cache when a chat's session, or the oldest, is out.
Thinner(q, c) ==
    /\ q \in Seq(Slot)
    /\ \A i \in DOMAIN q : \E j \in DOMAIN cache : q[i] = cache[j] /\ cache[j].chat # c
    /\ \A i, j \in DOMAIN q : q[i].chat = q[j].chat => i = j

\* RemoveAt takes one entry out and leaves the others as they were.
LEMMA OneOut ==
    ASSUME cache \in Seq(Slot), \A i, j \in DOMAIN cache : cache[i].chat = cache[j].chat => i = j,
           NEW c \in Chats, NEW p \in DOMAIN cache, \A i \in DOMAIN cache : cache[i].chat = c => i = p
    PROVE  Thinner(RemoveAt(cache, p), c)
<1>. DEFINE n == Len(cache)
            front == SubSeq(cache, 1, p - 1)
            back == SubSeq(cache, p + 1, n)
            q == front \o back
<1>1. n \in Nat /\ p \in 1..n /\ DOMAIN cache = 1..n
  OBVIOUS
<1>2. \A i \in 1..n : cache[i] \in Slot
  OBVIOUS
<1>3. front \in Seq(Slot) /\ Len(front) = p - 1 /\ \A i \in 1..p - 1 : front[i] = cache[i]
  <2>1. \A i \in 1..p - 1 : cache[i] \in Slot
    BY <1>1, <1>2
  <2>2. /\ front \in Seq(Slot) /\ Len(front) = IF 1 <= p - 1 THEN p - 1 - 1 + 1 ELSE 0
        /\ \A i \in 1..p - 1 - 1 + 1 : front[i] = cache[1 + i - 1]
    BY <1>1, <2>1, SubSeqProperties
  <2>. QED BY <1>1, <2>2
<1>4. back \in Seq(Slot) /\ Len(back) = n - p /\ \A i \in 1..n - p : back[i] = cache[p + i]
  <2>1. \A i \in p + 1..n : cache[i] \in Slot
    BY <1>1, <1>2
  <2>2. /\ back \in Seq(Slot) /\ Len(back) = IF p + 1 <= n THEN n - (p + 1) + 1 ELSE 0
        /\ \A i \in 1..n - (p + 1) + 1 : back[i] = cache[p + 1 + i - 1]
    BY <1>1, <2>1, SubSeqProperties
  <2>. QED BY <1>1, <2>2
<1>. HIDE DEF front, back
<1>5. /\ q \in Seq(Slot) /\ Len(q) = n - 1
      /\ \A i \in 1..n - 1 : q[i] = IF i < p THEN cache[i] ELSE cache[i + 1]
  <2>1. /\ q \in Seq(Slot) /\ Len(q) = Len(front) + Len(back)
        /\ \A i \in 1..Len(front) + Len(back) : q[i] = IF i <= Len(front) THEN front[i] ELSE back[i - Len(front)]
    <3>1. front \in Seq(Slot) /\ back \in Seq(Slot)
      BY <1>3, <1>4
    <3>2. q \in Seq(Slot) /\ Len(q) = Len(front) + Len(back)
      BY <3>1, ConcatProperties
    <3>3. ASSUME NEW i \in 1..Len(front) + Len(back)
          PROVE  q[i] = IF i <= Len(front) THEN front[i] ELSE back[i - Len(front)]
      BY <3>1, <3>3, ConcatProperties
    <3>. QED BY <3>2, <3>3
  <2>. HIDE DEF q
  <2>2. Len(front) + Len(back) = n - 1
    BY <1>1, <1>3, <1>4
  <2>3. ASSUME NEW i \in 1..n - 1
        PROVE  q[i] = IF i < p THEN cache[i] ELSE cache[i + 1]
    <3>1. q[i] = IF i <= p - 1 THEN front[i] ELSE back[i - (p - 1)]
      BY <1>3, <2>1, <2>2
    <3>2. CASE i < p
      <4>1. i <= p - 1 /\ i \in 1..p - 1
        BY <1>1, <3>2
      <4>. QED BY <1>3, <3>1, <3>2, <4>1
    <3>3. CASE ~(i < p)
      <4>1. ~(i <= p - 1) /\ i - (p - 1) \in 1..n - p /\ p + (i - (p - 1)) = i + 1
        BY <1>1, <3>3
      <4>. QED BY <1>4, <3>1, <3>3, <4>1
    <3>. QED BY <3>2, <3>3
  <2>. QED BY <2>1, <2>2, <2>3
<1>6. RemoveAt(cache, p) = q
  BY DEF RemoveAt, front, back
<1>. HIDE DEF q
<1>7. DOMAIN q = 1..n - 1
  BY <1>5
<1>. DEFINE at(i) == IF i < p THEN i ELSE i + 1
<1>8. \A i \in 1..n - 1 : at(i) \in 1..n /\ at(i) # p /\ q[i] = cache[at(i)]
  BY <1>1, <1>5
<1>9. \A i, j \in 1..n - 1 : at(i) = at(j) => i = j
  BY <1>1
<1>. HIDE DEF at
<1>10. \A i \in DOMAIN q : \E j \in DOMAIN cache : q[i] = cache[j] /\ cache[j].chat # c
  BY <1>1, <1>7, <1>8
<1>11. \A i, j \in DOMAIN q : q[i].chat = q[j].chat => i = j
  BY <1>1, <1>7, <1>8, <1>9
<1>. QED BY <1>5, <1>6, <1>10, <1>11 DEF Thinner

\* The session of a chat is popped, if it is there.
LEMMA WithoutOf ==
    ASSUME cache \in Seq(Slot), \A i, j \in DOMAIN cache : cache[i].chat = cache[j].chat => i = j,
           NEW c \in Chats
    PROVE  Thinner(Without(c), c)
<1>1. CASE Places(c) = {}
  BY <1>1 DEF Without, Places, Thinner
<1>2. CASE Places(c) # {}
  <2>. DEFINE p == CHOOSE i \in Places(c) : TRUE
  <2>1. p \in Places(c)
    BY <1>2
  <2>2. Without(c) = RemoveAt(cache, p)
    BY <1>2 DEF Without
  <2>. HIDE DEF p
  <2>3. p \in DOMAIN cache /\ \A i \in DOMAIN cache : cache[i].chat = c => i = p
    BY <2>1 DEF Places
  <2>. QED BY <2>2, <2>3, OneOut
<1>. QED BY <1>1, <1>2

\* The cache is full, and the oldest goes.
LEMMA OldestOut ==
    ASSUME cache \in Seq(Slot), \A i, j \in DOMAIN cache : cache[i].chat = cache[j].chat => i = j,
           NEW c \in Chats, Places(c) = {}, Len(cache) >= Capacity
    PROVE  Thinner(Tail(cache), c)
<1>1. cache # <<>> /\ Len(cache) \in Nat /\ Len(cache) >= 1
  BY ConversationsAssumption
<1>2. /\ Tail(cache) \in Seq(Slot) /\ Len(Tail(cache)) = Len(cache) - 1
      /\ \A i \in 1..Len(cache) - 1 : Tail(cache)[i] = cache[i + 1]
  BY <1>1, HeadTailProperties
<1>3. DOMAIN Tail(cache) = 1..Len(cache) - 1 /\ DOMAIN cache = 1..Len(cache)
  BY <1>1, <1>2
<1>4. \A i \in 1..Len(cache) - 1 : i + 1 \in 1..Len(cache)
  BY <1>1
<1>5. \A i \in DOMAIN cache : cache[i].chat # c
  BY DEF Places
<1>6. \A i, j \in 1..Len(cache) - 1 : i + 1 = j + 1 => i = j
  BY <1>1
<1>. QED BY <1>2, <1>3, <1>4, <1>5, <1>6 DEF Thinner

\* A turn gets its chat's session s out of the cache, or makes it.
Gets(t, c, s) ==
    /\ s = t \/ Cached(c, s)
    /\ \A d \in Chats, r \in Turns : Cached(d, r)' => (d = c /\ r = s) \/ (Cached(d, r) /\ d # c)
    /\ \E late \in BOOLEAN :
         /\ late <=> chat[c] = "deleted" /\ c \notin evicting
         /\ turn' = [turn EXCEPT ![t].pc = "waiting", ![t].session = s, ![t].late = late]
    /\ split' = IF Sessions(c) \subseteq {s} THEN split ELSE split \cup {c}

\* get_session: what GetSession does, for the one session it is about.
LEMMA GetsOne ==
    ASSUME Owned, NEW t \in Turns, GetSession(t), NEW c, c = turn[t].chat
    PROVE  /\ turn[t].pc = "owned" /\ c \in Chats
           /\ cache' \in Seq(Slot) /\ \A i, j \in DOMAIN cache' : cache'[i].chat = cache'[j].chat => i = j
           /\ hist[t] = <<>> /\ \A d \in Chats : ~InUse(d, t)
           /\ \E s \in Turns : Gets(t, c, s)
<1>1. turn[t].pc = "owned" /\ c \in Chats
  BY DEF GetSession, Owned, Types, WellTyped
<1>2. hist[t] = <<>> /\ \A d \in Chats : ~InUse(d, t)
  BY <1>1 DEF Owned, Sessioned
<1>. DEFINE found == {cache[i].session: i \in Places(c)}
            s == IF found = {} THEN t ELSE CHOOSE r \in found : TRUE
            kept == IF found = {} /\ Len(cache) >= Capacity THEN Tail(cache) ELSE Without(c)
<1>3. s \in Turns /\ (s = t \/ Cached(c, s))
  <2>1. CASE found = {}
    BY <2>1
  <2>2. CASE found # {}
    <3>1. s \in found
      BY <2>2
    <3>2. PICK i \in Places(c) : s = cache[i].session
      BY <3>1
    <3>3. i \in DOMAIN cache /\ cache[i].chat = c /\ cache \in Seq(Slot)
      BY DEF Owned, Types, Places, Slot
    <3>4. cache[i].session \in Turns
      <4>1. cache[i] \in Slot
        BY <3>3
      <4>. QED BY <4>1 DEF Slot
    <3>. QED BY <3>2, <3>3, <3>4 DEF Cached
  <2>. QED BY <2>1, <2>2
<1>4. Thinner(kept, c)
  <2>1. found = {} => Places(c) = {}
    OBVIOUS
  <2>2. cache \in Seq(Slot) /\ \A i, j \in DOMAIN cache : cache[i].chat = cache[j].chat => i = j
    BY DEF Owned, Types, Slot
  <2>. QED BY <1>1, <2>1, <2>2, WithoutOf, OldestOut
<1>5. /\ cache' = Append(kept, [chat |-> c, session |-> s])
      /\ turn' = [turn EXCEPT ![t].pc = "waiting", ![t].session = s,
                              ![t].late = chat[c] = "deleted" /\ c \notin evicting]
      /\ split' = IF Sessions(c) \subseteq {s} THEN split ELSE split \cup {c}
  BY DEF GetSession
<1>. DEFINE x == [chat |-> c, session |-> s]
<1>. HIDE DEF kept, s
<1>6. x \in Slot /\ x.chat = c /\ x.session = s
  BY <1>1, <1>3 DEF Slot
<1>. HIDE DEF x
<1>7. /\ cache' \in Seq(Slot) /\ Len(kept) \in Nat /\ DOMAIN kept = 1..Len(kept) /\ DOMAIN cache' = 1..Len(kept) + 1
      /\ \A i \in 1..Len(kept) : cache'[i] = kept[i]
      /\ cache'[Len(kept) + 1] = x
  BY <1>4, <1>5, <1>6 DEF Thinner, x
<1>8. \A i \in 1..Len(kept) : kept[i].chat # c
  BY <1>4, <1>7 DEF Thinner
<1>9. \A i, j \in DOMAIN cache' : cache'[i].chat = cache'[j].chat => i = j
  <2>1. \A i \in DOMAIN cache' : i \in 1..Len(kept) \/ i = Len(kept) + 1
    BY <1>7
  <2>. QED BY <1>4, <1>6, <1>7, <1>8, <2>1 DEF Thinner
<1>10. ASSUME NEW d \in Chats, NEW r \in Turns, Cached(d, r)'
     PROVE  (d = c /\ r = s) \/ (Cached(d, r) /\ d # c)
  <2>1. PICK i \in DOMAIN cache' : cache'[i].chat = d /\ cache'[i].session = r
    BY <1>10 DEF Cached
  <2>2. CASE i = Len(kept) + 1
    BY <1>6, <1>7, <2>1, <2>2
  <2>3. CASE i \in 1..Len(kept)
    <3>1. PICK j \in DOMAIN cache : kept[i] = cache[j] /\ cache[j].chat # c
      BY <1>4, <1>7, <2>3 DEF Thinner
    <3>. QED BY <1>7, <2>1, <2>3, <3>1 DEF Cached
  <2>4. i \in 1..Len(kept) \/ i = Len(kept) + 1
    BY <1>7
  <2>. QED BY <2>2, <2>3, <2>4
<1>11. \E late \in BOOLEAN :
         /\ late <=> chat[c] = "deleted" /\ c \notin evicting
         /\ turn' = [turn EXCEPT ![t].pc = "waiting", ![t].session = s, ![t].late = late]
  <2>. DEFINE b == chat[c] = "deleted" /\ c \notin evicting
  <2>1. b \in BOOLEAN
    OBVIOUS
  <2>2. turn' = [turn EXCEPT ![t].pc = "waiting", ![t].session = s, ![t].late = b]
    BY <1>5
  <2>3. b <=> chat[c] = "deleted" /\ c \notin evicting
    OBVIOUS
  <2>. HIDE DEF b
  <2>. QED BY <2>1, <2>2, <2>3, Zenon
<1>12. Gets(t, c, s)
  <2>1. split' = IF Sessions(c) \subseteq {s} THEN split ELSE split \cup {c}
    BY <1>5
  <2>. QED BY <1>3, <1>10, <1>11, <2>1 DEF Gets
<1>. QED BY <1>1, <1>2, <1>3, <1>7, <1>9, <1>12

\* Nobody but the turn has the session, and it was in the cache or is new.
LEMMA GettingUses ==
    ASSUME Owned, NEW t \in Turns, GetSession(t), NEW c, c = turn[t].chat, NEW s \in Turns, s = t \/ Cached(c, s),
           \A d \in Chats, r \in Turns : Cached(d, r)' => (d = c /\ r = s) \/ Cached(d, r),
           turn'[t].pc = "waiting", turn'[t].session = s, turn'[t].chat = c,
           \A u \in Turns \ {t} : turn'[u] = turn[u]
    PROVE  /\ \A d \in Chats, r \in Turns : InUse(d, r)' => (d = c /\ r = s) \/ InUse(d, r)
           /\ \A d \in Chats : InUse(d, s) => d = c
<1>1. turn[t].pc = "owned" /\ c \in Chats /\ hist[t] = <<>> /\ \A d \in Chats : ~InUse(d, t)
  BY GetsOne
<1>2. ASSUME NEW d \in Chats, NEW r \in Turns, TakenBy(d, r)'
      PROVE  (d = c /\ r = s) \/ TakenBy(d, r)
  <2>1. PICK u \in Turns : turn'[u].pc \in Taken /\ turn'[u].chat = d /\ turn'[u].session = r
    BY <1>2 DEF TakenBy
  <2>2. CASE u = t
    BY <2>1, <2>2
  <2>3. CASE u # t
    BY <2>1, <2>3 DEF TakenBy
  <2>. QED BY <2>2, <2>3
<1>3. ASSUME NEW d \in Chats, InUse(d, s)
      PROVE  d = c
  <2>1. CASE s = t
    BY <1>1, <1>3, <2>1
  <2>2. CASE Cached(c, s)
    <3>1. InUse(c, s)
      BY <2>2 DEF InUse
    <3>. QED BY <1>1, <1>3, <3>1 DEF Owned, Sessioned
  <2>. QED BY <2>1, <2>2
<1>. QED BY <1>2, <1>3 DEF InUse

\* A session that was made after the eviction is empty, so the turn that takes it is clean.
LEMMA GettingKeeps ==
    ASSUME Owned, NEW t \in Turns, GetSession(t), NEW c, c = turn[t].chat
    PROVE  Owned'
<1>1. /\ turn[t].pc = "owned" /\ c \in Chats
      /\ cache' \in Seq(Slot) /\ \A i, j \in DOMAIN cache' : cache'[i].chat = cache'[j].chat => i = j
      /\ hist[t] = <<>> /\ \A d \in Chats : ~InUse(d, t)
  BY GetsOne
<1>2. PICK s \in Turns : Gets(t, c, s)
  BY GetsOne
<1>3. turn[t] \in Turn /\ turn \in [Turns -> Turn] /\ turn[t].screen = <<>>
  BY <1>1 DEF Owned, Types, WellTyped, HOLDING
<1>4. PICK late \in BOOLEAN :
        /\ late <=> chat[c] = "deleted" /\ c \notin evicting
        /\ turn' = [turn EXCEPT ![t].pc = "waiting", ![t].session = s, ![t].late = late]
  BY <1>2 DEF Gets
<1>. DEFINE v == [turn[t] EXCEPT !.pc = "waiting", !.session = s, !.late = late]
<1>5. turn' = [turn EXCEPT ![t] = v]
  BY <1>3, <1>4
<1>6. v \in Turn /\ v.pc = "waiting" /\ v.session = s /\ v.late = late /\ v.chat = turn[t].chat /\ v.screen = <<>>
  BY <1>1, <1>3 DEF Turn, HOLDING
<1>. HIDE DEF v
<1>7. WellTyped(v)
  BY <1>1, <1>2, <1>6 DEF WellTyped, Taken, HOLDING
<1>8. turn' \in [Turns -> Turn] /\ turn'[t] = v /\ \A u \in Turns \ {t} : turn'[u] = turn[u]
  BY <1>3, <1>5, <1>6
<1>9. UNCHANGED <<chat, messages, hist, evicting, erased>> /\ \A d \in Chats : Stored(d)' = Stored(d)
  BY DEF GetSession, tables, Stored
<1>10. /\ \A d \in Chats, r \in Turns : InUse(d, r)' => (d = c /\ r = s) \/ InUse(d, r)
       /\ \A d \in Chats : InUse(d, s) => d = c
  BY <1>2, <1>6, <1>8, GettingUses DEF Gets
<1>11. \A u \in Turns : /\ turn'[u].pc \in {"new", "owned"} => turn[u].pc \in {"new", "owned"} /\ u # t
                        /\ turn'[u].pc = "ended" <=> turn[u].pc = "ended"
                        /\ turn'[u].pc \in HOLDING \/ turn[u].pc \in HOLDING => turn'[u] = turn[u]
  BY <1>1, <1>6, <1>8 DEF HOLDING
<1>12. Types'
  BY <1>1, <1>7, <1>8, <1>9 DEF Owned, Types, Slot
<1>13. s = t \/ InUse(c, s)
  BY <1>2 DEF InUse, Gets
<1>14. Sessioned'
  <2>1. \A d, e \in Chats, r \in Turns : InUse(d, r)' /\ InUse(e, r)' => d = e
    BY <1>10 DEF Owned, Sessioned
  <2>2. \A d \in Chats, r \in Turns : InUse(d, r)' => turn'[r].pc \notin {"new", "owned"}
    BY <1>1, <1>10, <1>11, <1>13 DEF Owned, Sessioned
  <2>3. \A r \in Turns : hist'[r] # <<>> => turn'[r].pc \notin {"new", "owned"}
    BY <1>9, <1>11 DEF Owned, Sessioned
  <2>4. /\ \A u, w \in Turns :
             turn'[u].pc \in HOLDING /\ turn'[w].pc \in HOLDING /\ turn'[u].session = turn'[w].session => u = w
        /\ \A u \in Turns : turn'[u].pc \in HOLDING => turn'[u].mark < Len(hist'[turn'[u].session])
    BY <1>9, <1>11 DEF Owned, Sessioned
  <2>. QED BY <2>1, <2>2, <2>3, <2>4 DEF Sessioned
<1>15. Said(<<>>) = {}
  BY DEF Said
<1>16. Traced'
  <2>1. \A u \in Turns : turn'[u].pc # "ended" => u \notin erased' /\ \A d \in Chats : u \notin Stored(d)'
    BY <1>9, <1>11 DEF Owned, Traced
  <2>2. \A u, r \in Turns : u \in Said(hist'[r]) =>
          turn'[u].pc = "ended" \/ (turn'[u].pc \in HOLDING /\ turn'[u].session = r)
    BY <1>9, <1>11 DEF Owned, Traced
  <2>3. \A d, e \in Chats : \A u \in Stored(d)' \cap Stored(e)' : d = e
    BY <1>9 DEF Owned, Traced
  <2>4. \A d, e \in Chats, r \in Turns : \A u \in Said(hist'[r]) \cap Stored(e)' : InUse(d, r)' => d = e
    <3>. SUFFICES ASSUME NEW d \in Chats, NEW e \in Chats, NEW r \in Turns,
                         NEW u \in Said(hist[r]) \cap Stored(e), InUse(d, r)'
                  PROVE  d = e
      BY <1>9
    <3>1. InUse(d, r)
      BY <1>1, <1>10, <1>13, <1>15
    <3>. QED BY <3>1 DEF Owned, Traced
  <2>. QED BY <2>1, <2>2, <2>3, <2>4 DEF Traced
<1>17. Clean'
  <2>1. ASSUME NEW d \in Chats, NEW r \in Turns, Cached(d, r)', chat'[d] = "deleted", d \notin evicting'
        PROVE  Said(hist'[r]) \cap erased' = {}
    <3>1. Cached(d, r) \/ hist[r] = <<>>
      BY <1>1, <1>2, <2>1 DEF Gets
    <3>. QED BY <1>9, <1>15, <2>1, <3>1 DEF Owned, Clean
  <2>2. ASSUME NEW u \in Turns, turn'[u].late
        PROVE  chat'[turn'[u].chat] = "deleted" /\ Said(hist'[turn'[u].session]) \cap erased' = {}
    <3>1. CASE u # t
      BY <1>8, <1>9, <2>2, <3>1 DEF Owned, Clean
    <3>2. CASE u = t
      <4>1. turn'[u] = v /\ v.late /\ late
        BY <1>6, <1>8, <2>2, <3>2
      <4>2. chat[c] = "deleted" /\ c \notin evicting
        BY <1>4, <4>1
      <4>3. s = t \/ Cached(c, s)
        BY <1>2 DEF Gets
      <4>4. Said(hist[s]) \cap erased = {}
        BY <1>1, <1>15, <4>2, <4>3 DEF Owned, Clean
      <4>. QED BY <1>6, <1>9, <4>1, <4>2, <4>4
    <3>. QED BY <3>1, <3>2
  <2>. QED BY <2>1, <2>2 DEF Clean
<1>. QED BY <1>12, <1>14, <1>16, <1>17 DEF Owned

-----------------------------------------------------------------------------
(* What becomes of a turn that is being answered.                          *)

\* The screen after a round of a provider.
Streamed(k, provider) == {k.screen, Append(k.screen, <<provider, k.round>>)}

\* Turn k goes on as v, and says e in its session.
Advance(k, v, e) ==
    /\ v \in Turn /\ WellTyped(v)
    /\ v.chat = k.chat /\ v.session = k.session /\ v.late = k.late /\ v.mark = k.mark
    /\ \/ k.pc = "gemini" /\ v.pc = "gemini" /\ e = "nothing" /\ v.round = k.round /\ v.screen = <<>>
       \/ k.pc = "gemini" /\ v.pc = "groq" /\ e = "nothing" /\ v.screen = <<>>
       \/ k.pc = "gemini" /\ v.pc = "tools" /\ e = "call" /\ v.round = k.round /\ v.screen \in Streamed(k, "gemini")
       \/ k.pc = "tools" /\ v.pc = "gemini" /\ e = "result" /\ v.round = k.round + 1 /\ v.screen = k.screen
       \/ /\ k.pc = "gemini" /\ v.pc = "answered" /\ e = "answer"
          /\ v.screen = Append(k.screen, <<"gemini", k.round>>)
       \/ k.pc = "groq" /\ v.pc = "groq" /\ e = "nothing" /\ v.round = k.round /\ v.screen = k.screen
       \/ k.pc = "groq" /\ v.pc = "groq" /\ e = "nothing" /\ v.round = k.round + 1 /\ v.screen \in Streamed(k, "groq")
       \/ k.pc = "groq" /\ v.pc = "answered" /\ e = "answer" /\ v.screen # <<>> /\ v.screen \in Streamed(k, "groq")

Going(t) == \E v, e : /\ Advance(turn[t], v, e)
                      /\ turn' = [turn EXCEPT ![t] = v]
                      /\ IF e = "nothing" THEN UNCHANGED hist ELSE Says(t, e)

Moved(k, pc, screen, round, attempt) ==
    [k EXCEPT !.pc = pc, !.screen = screen, !.round = round, !.attempt = attempt]

\* What turn k is left as, when it goes on as v.
Goes(k, v, pc, screen, round) ==
    /\ v \in Turn /\ WellTyped(v)
    /\ v.chat = k.chat /\ v.session = k.session /\ v.late = k.late /\ v.mark = k.mark
    /\ v.pc = pc /\ v.screen = screen /\ v.round = round

\* A turn that goes on keeps its chat, session and mark.
LEMMA TurnMoves ==
    ASSUME NEW k \in Turn, WellTyped(k), k.pc \in HOLDING,
           NEW pc \in HOLDING, NEW screen \in Seq(Pieces), NEW round \in 1..MaxIterations, NEW attempt \in Nat
    PROVE  Goes(k, Moved(k, pc, screen, round, attempt), pc, screen, round)
<1>. DEFINE v == Moved(k, pc, screen, round, attempt)
<1>1. round \in 0..MaxIterations
  BY ConversationsAssumption
<1>2. /\ v \in Turn
      /\ v.chat = k.chat /\ v.session = k.session /\ v.late = k.late /\ v.mark = k.mark
      /\ v.pc = pc /\ v.screen = screen /\ v.round = round
  BY <1>1 DEF Turn, Moved
<1>3. k.chat \in Chats /\ k.session \in Turns
  BY DEF WellTyped, Taken
<1>. HIDE DEF v
<1>4. WellTyped(v)
  BY <1>2, <1>3 DEF WellTyped, Taken, HOLDING
<1>. QED BY <1>2, <1>4 DEF v, Goes

\* A screen takes one more piece.
LEMMA ScreensGrow ==
    ASSUME NEW k \in Turn, WellTyped(k), k.pc \in HOLDING, NEW provider \in {"gemini", "groq"}
    PROVE  /\ k.screen \in Seq(Pieces) /\ Append(k.screen, <<provider, k.round>>) \in Seq(Pieces)
           /\ Streamed(k, provider) \subseteq Seq(Pieces)
           /\ <<>> \in Seq(Pieces) /\ k.attempt \in Nat /\ k.round \in 1..MaxIterations
<1>1. k.screen \in Seq(Pieces) /\ k.attempt \in Nat /\ k.round \in 1..MaxIterations
  BY DEF Turn, WellTyped
<1>2. <<provider, k.round>> \in Pieces
  BY <1>1 DEF Pieces
<1>. QED BY <1>1, <1>2 DEF Streamed

\* The budget of rounds is not spent.
LEMMA RoundsGoOn == \A n \in 1..MaxIterations : n # MaxIterations => n + 1 \in 1..MaxIterations
BY ConversationsAssumption

\* Whatever answers, the turn is given up and rolled back, or goes on.
LEMMA Outcome ==
    ASSUME Types, NEW t \in Turns, Answering(t)
    PROVE  /\ turn[t].pc \in {"gemini", "tools", "groq"}
           /\ UNCHANGED untouched
           /\ GiveUp(t) \/ Going(t)
<1>1. turn[t].pc \in {"gemini", "tools", "groq"} /\ UNCHANGED untouched
  BY DEF Answering, StreamFails, StreamEmpty, StreamCalls, StreamAnswers, RunTools, GroqFails, GroqCalls, GroqEnds
<1>2. turn \in [Turns -> Turn] /\ turn[t] \in Turn /\ WellTyped(turn[t]) /\ turn[t].pc \in HOLDING
  BY <1>1 DEF Types, HOLDING
<1>. DEFINE k == turn[t]
<1>3. /\ k.screen \in Seq(Pieces) /\ k.attempt \in Nat /\ k.round \in 1..MaxIterations
      /\ Append(k.screen, <<"gemini", k.round>>) \in Seq(Pieces) /\ <<>> \in Seq(Pieces)
      /\ Streamed(k, "gemini") \subseteq Seq(Pieces) /\ Streamed(k, "groq") \subseteq Seq(Pieces)
      /\ Shown(t, "gemini") = Streamed(k, "gemini") /\ Shown(t, "groq") = Streamed(k, "groq")
  BY <1>2, ScreensGrow DEF Shown, Streamed
<1>4. 1 \in 1..MaxIterations /\ 1 \in Nat /\ k.attempt + 1 \in Nat
  BY <1>3, ConversationsAssumption
<1>5. ASSUME NEW pc \in HOLDING, NEW screen \in Seq(Pieces), NEW round \in 1..MaxIterations, NEW attempt \in Nat
      PROVE  Goes(k, Moved(k, pc, screen, round, attempt), pc, screen, round)
  BY <1>2, TurnMoves
<1>6. CASE StreamFails(t)
  <2>1. PICK shown \in Streamed(k, "gemini") :
          \/ GiveUp(t)
          \/ turn' = [turn EXCEPT ![t].screen = <<>>, ![t].attempt = @ + 1] /\ UNCHANGED hist
          \/ turn' = [turn EXCEPT ![t].screen = <<>>, ![t].pc = "groq", ![t].round = 1, ![t].attempt = 1] /\ UNCHANGED hist
    BY <1>3, <1>6 DEF StreamFails, Reset
  <2>2. k.pc = "gemini"
    BY <1>6 DEF StreamFails
  <2>3. CASE GiveUp(t)
    BY <1>1, <2>3
  <2>4. CASE turn' = [turn EXCEPT ![t].screen = <<>>, ![t].attempt = @ + 1] /\ UNCHANGED hist
    <3>. DEFINE w == Moved(k, "gemini", <<>>, k.round, k.attempt + 1)
    <3>1. turn' = [turn EXCEPT ![t] = w]
      BY <1>2, <2>2, <2>4 DEF Turn, Moved
    <3>2. Goes(k, w, "gemini", <<>>, k.round)
      BY <1>3, <1>4, <1>5 DEF HOLDING
    <3>3. Advance(k, w, "nothing")
      <4>. HIDE DEF w, k
      <4>. QED BY <2>2, <3>2 DEF Advance, Goes
    <3>. QED BY <1>1, <2>4, <3>1, <3>3 DEF Going
  <2>5. CASE turn' = [turn EXCEPT ![t].screen = <<>>, ![t].pc = "groq", ![t].round = 1, ![t].attempt = 1] /\ UNCHANGED hist
    <3>. DEFINE w == Moved(k, "groq", <<>>, 1, 1)
    <3>1. turn' = [turn EXCEPT ![t] = w]
      BY <1>2, <2>2, <2>5 DEF Turn, Moved
    <3>2. Goes(k, w, "groq", <<>>, 1)
      BY <1>3, <1>4, <1>5 DEF HOLDING
    <3>3. Advance(k, w, "nothing")
      <4>. HIDE DEF w, k
      <4>. QED BY <2>2, <3>2 DEF Advance, Goes
    <3>. QED BY <1>1, <2>5, <3>1, <3>3 DEF Going
  <2>. QED BY <2>1, <2>3, <2>4, <2>5
<1>7. CASE StreamEmpty(t)
  BY <1>1, <1>7 DEF StreamEmpty
<1>8. CASE StreamCalls(t)
  <2>1. PICK shown \in Streamed(k, "gemini") : turn' = [turn EXCEPT ![t].pc = "tools", ![t].screen = shown]
    BY <1>3, <1>8 DEF StreamCalls
  <2>2. k.pc = "gemini" /\ Says(t, "call")
    BY <1>8 DEF StreamCalls
  <2>. DEFINE w == Moved(k, "tools", shown, k.round, k.attempt)
  <2>3. turn' = [turn EXCEPT ![t] = w]
    BY <1>2, <2>1 DEF Turn, Moved
  <2>4. shown \in Seq(Pieces)
    BY <1>3
  <2>5. Goes(k, w, "tools", shown, k.round)
    BY <1>3, <1>4, <1>5, <2>4 DEF HOLDING
  <2>6. Advance(k, w, "call")
    <3>1. k.pc = "gemini" /\ shown \in Streamed(k, "gemini")
      BY <2>1, <2>2
    <3>. HIDE DEF w, k
    <3>. QED BY <2>5, <3>1 DEF Advance, Goes
  <2>. QED BY <1>1, <2>2, <2>3, <2>6 DEF Going
<1>9. CASE StreamAnswers(t)
  <2>1. /\ turn' = [turn EXCEPT ![t].pc = "answered", ![t].screen = Append(@, <<"gemini", turn[t].round>>)]
        /\ k.pc = "gemini" /\ Says(t, "answer")
    BY <1>9 DEF StreamAnswers
  <2>. DEFINE w == Moved(k, "answered", Append(k.screen, <<"gemini", k.round>>), k.round, k.attempt)
  <2>2. turn' = [turn EXCEPT ![t] = w]
    BY <1>2, <2>1 DEF Turn, Moved
  <2>3. Goes(k, w, "answered", Append(k.screen, <<"gemini", k.round>>), k.round)
    BY <1>3, <1>4, <1>5 DEF HOLDING
  <2>4. Advance(k, w, "answer")
    <3>1. k.pc = "gemini"
      BY <2>1
    <3>. HIDE DEF w, k
    <3>. QED BY <2>3, <3>1 DEF Advance, Goes
  <2>. QED BY <1>1, <2>1, <2>2, <2>4 DEF Going
<1>10. CASE RunTools(t)
  <2>1. CASE k.round = MaxIterations
    BY <1>1, <1>10, <2>1 DEF RunTools
  <2>2. CASE k.round # MaxIterations
    <3>1. /\ turn' = [turn EXCEPT ![t].pc = "gemini", ![t].round = @ + 1, ![t].attempt = 1]
          /\ k.pc = "tools" /\ Says(t, "result")
      BY <1>10, <2>2 DEF RunTools
    <3>2. k.round + 1 \in 1..MaxIterations
      BY <1>3, <2>2, RoundsGoOn
    <3>. DEFINE w == Moved(k, "gemini", k.screen, k.round + 1, 1)
    <3>3. turn' = [turn EXCEPT ![t] = w]
      BY <1>2, <3>1 DEF Turn, Moved
    <3>4. Goes(k, w, "gemini", k.screen, k.round + 1)
      BY <1>3, <1>4, <1>5, <3>2 DEF HOLDING
    <3>5. Advance(k, w, "result")
      <4>1. k.pc = "tools"
        BY <3>1
      <4>. HIDE DEF w, k
      <4>. QED BY <3>4, <4>1 DEF Advance, Goes
    <3>. QED BY <1>1, <3>1, <3>3, <3>5 DEF Going
  <2>. QED BY <2>1, <2>2
<1>11. CASE GroqFails(t)
  <2>1. k.pc = "groq" /\ (GiveUp(t) \/ (turn' = [turn EXCEPT ![t].attempt = @ + 1] /\ UNCHANGED hist))
    BY <1>11 DEF GroqFails
  <2>2. CASE GiveUp(t)
    BY <1>1, <2>2
  <2>3. CASE turn' = [turn EXCEPT ![t].attempt = @ + 1] /\ UNCHANGED hist
    <3>. DEFINE w == Moved(k, "groq", k.screen, k.round, k.attempt + 1)
    <3>1. turn' = [turn EXCEPT ![t] = w]
      BY <1>2, <2>1, <2>3 DEF Turn, Moved
    <3>2. Goes(k, w, "groq", k.screen, k.round)
      BY <1>3, <1>4, <1>5 DEF HOLDING
    <3>3. Advance(k, w, "nothing")
      <4>1. k.pc = "groq"
        BY <2>1
      <4>. HIDE DEF w, k
      <4>. QED BY <3>2, <4>1 DEF Advance, Goes
    <3>. QED BY <1>1, <2>3, <3>1, <3>3 DEF Going
  <2>. QED BY <2>1, <2>2, <2>3
<1>12. CASE GroqEnds(t)
  <2>1. k.pc = "groq"
    BY <1>12 DEF GroqEnds
  <2>2. PICK shown \in Streamed(k, "groq") :
          IF shown = <<>> THEN GiveUp(t)
          ELSE turn' = [turn EXCEPT ![t].pc = "answered", ![t].screen = shown] /\ Says(t, "answer")
    BY <1>3, <1>12 DEF GroqEnds
  <2>3. CASE shown = <<>>
    BY <1>1, <2>2, <2>3
  <2>4. CASE shown # <<>>
    <3>. DEFINE w == Moved(k, "answered", shown, k.round, k.attempt)
    <3>1. turn' = [turn EXCEPT ![t] = w] /\ Says(t, "answer")
      BY <1>2, <2>2, <2>4 DEF Turn, Moved
    <3>2. shown \in Seq(Pieces)
      BY <1>3
    <3>3. Goes(k, w, "answered", shown, k.round)
      BY <1>3, <1>4, <1>5, <3>2 DEF HOLDING
    <3>4. shown \in Streamed(k, "groq")
      BY <2>2
    <3>5. Advance(k, w, "answer")
      <4>. HIDE DEF w, k
      <4>. QED BY <2>1, <2>4, <3>3, <3>4 DEF Advance, Goes
    <3>. QED BY <1>1, <3>1, <3>5 DEF Going
  <2>. QED BY <2>3, <2>4
<1>13. CASE GroqCalls(t)
  <2>1. k.pc = "groq" /\ k.round < MaxIterations /\ UNCHANGED hist
    BY <1>13 DEF GroqCalls
  <2>2. PICK shown \in Streamed(k, "groq") :
          turn' = [turn EXCEPT ![t].screen = shown, ![t].round = @ + 1, ![t].attempt = 1]
    BY <1>3, <1>13 DEF GroqCalls
  <2>3. k.round + 1 \in 1..MaxIterations /\ shown \in Seq(Pieces)
    <3>1. k.round \in 1..MaxIterations /\ k.round # MaxIterations
      BY <1>3, <2>1
    <3>2. shown \in Seq(Pieces)
      BY <1>3
    <3>. HIDE DEF k
    <3>. QED BY <3>1, <3>2, RoundsGoOn
  <2>. DEFINE w == Moved(k, "groq", shown, k.round + 1, 1)
  <2>4. turn' = [turn EXCEPT ![t] = w]
    BY <1>2, <2>1, <2>2 DEF Turn, Moved
  <2>5. Goes(k, w, "groq", shown, k.round + 1)
    BY <1>3, <1>4, <1>5, <2>3 DEF HOLDING
  <2>6. Advance(k, w, "nothing")
    <3>1. k.pc = "groq" /\ shown \in Streamed(k, "groq")
      BY <2>1, <2>2
    <3>. HIDE DEF w, k
    <3>. QED BY <2>5, <3>1 DEF Advance, Goes
  <2>. QED BY <1>1, <2>1, <2>4, <2>6 DEF Going
<1>. QED BY <1>6, <1>7, <1>8, <1>9, <1>10, <1>11, <1>12, <1>13 DEF Answering

-----------------------------------------------------------------------------
(* Every step leaves sessions owned.                                      *)

\* What is known of a turn that has a session.
LEMMA Holding ==
    ASSUME Owned, NEW t \in Turns, turn[t].pc \in Taken
    PROVE  /\ turn[t] \in Turn /\ WellTyped(turn[t]) /\ turn \in [Turns -> Turn]
           /\ turn[t].chat \in Chats /\ turn[t].session \in Turns
           /\ TakenBy(turn[t].chat, turn[t].session) /\ InUse(turn[t].chat, turn[t].session)
           /\ hist \in [Turns -> Seq(Entries)] /\ hist[turn[t].session] \in Seq(Entries)
           /\ messages[turn[t].chat] \in Seq(Exchange)
           /\ turn[t].mark \in Nat
           /\ turn[t].pc \in HOLDING => turn[t].mark < Len(hist[turn[t].session])
<1>1. turn[t] \in Turn /\ WellTyped(turn[t]) /\ turn \in [Turns -> Turn] /\ hist \in [Turns -> Seq(Entries)]
  BY DEF Owned, Types
<1>2. turn[t].chat \in Chats /\ turn[t].session \in Turns
  BY <1>1 DEF WellTyped
<1>3. turn[t].mark \in Nat
  BY <1>1 DEF Turn
<1>4. messages[turn[t].chat] \in Seq(Exchange)
  BY <1>2 DEF Owned, Types
<1>5. turn[t].pc \in HOLDING => turn[t].mark < Len(hist[turn[t].session])
  BY DEF Owned, Sessioned
<1>. QED BY <1>1, <1>2, <1>3, <1>4, <1>5 DEF TakenBy, InUse

\* _rollback_history.
LEMMA GivingUpKeeps ==
    ASSUME Owned, NEW t \in Turns, turn[t].pc \in HOLDING, GiveUp(t),
           UNCHANGED <<tables, cache, evicting, erased>>
    PROVE  Owned'
<1>. DEFINE s == turn[t].session
            h == SubSeq(hist[s], 1, turn[t].mark)
<1>1. /\ s \in Turns /\ hist \in [Turns -> Seq(Entries)] /\ turn \in [Turns -> Turn]
      /\ turn[t].mark \in Nat /\ turn[t].mark < Len(hist[s])
  BY Holding DEF Taken
<1>2. hist' = [hist EXCEPT ![s] = h] /\ turn' = [turn EXCEPT ![t] = Ended]
  BY DEF GiveUp
<1>3. h \in Seq(Entries) /\ Said(h) \subseteq Said(hist[s]) /\ hist[s] # <<>>
  <2>1. hist[s] \in Seq(Entries) /\ 1 \in Nat /\ turn[t].mark <= Len(hist[s]) /\ 1 <= 1
    BY <1>1
  <2>2. h \in Seq(Entries) /\ Said(h) \subseteq Said(hist[s])
    BY <1>1, <2>1, SaidOf
  <2>3. hist[s] # <<>>
    BY <1>1
  <2>. QED BY <2>2, <2>3
<1>. HIDE DEF h
<1>4. hist' \in [Turns -> Seq(Entries)] /\ hist'[s] = h /\ \A r \in Turns \ {s} : hist'[r] = hist[r]
  BY <1>1, <1>2, <1>3
<1>5. turn' \in [Turns -> Turn] /\ turn'[t] = Ended /\ \A u \in Turns \ {t} : turn'[u] = turn[u]
  BY <1>1, <1>2, EndedTyped
<1>6. \A u \in Turns : turn'[u].pc \in HOLDING => turn'[u].session # s
  BY <1>5, EndedTyped DEF Owned, Sessioned, HOLDING
<1>7. \A d \in Chats, r \in Turns : Cached(d, r)' => Cached(d, r)
  BY DEF Cached
<1>8. \A r \in Turns :
        \/ hist'[r] = hist[r]
        \/ /\ Said(hist'[r]) \subseteq Said(hist[r]) /\ hist[r] # <<>>
           /\ \A u \in Turns : turn'[u].pc \in HOLDING => turn'[u].session # r
  BY <1>3, <1>4, <1>6
<1>9. /\ cache' \in Seq([chat: Chats, session: Turns]) /\ evicting' \subseteq Chats
      /\ \A i, j \in DOMAIN cache' : cache'[i].chat = cache'[j].chat => i = j
  BY DEF Owned, Types
<1>. QED BY <1>4, <1>5, <1>7, <1>8, <1>9, LeavingKeeps

\* A round ends, or a stream is tried again.
LEMMA AdvancingKeeps ==
    ASSUME Owned, NEW t \in Turns, turn[t].pc \in HOLDING, Going(t),
           UNCHANGED <<tables, cache, evicting, erased>>
    PROVE  Owned'
<1>. DEFINE s == turn[t].session
<1>1. PICK v, e : /\ Advance(turn[t], v, e) /\ turn' = [turn EXCEPT ![t] = v]
                  /\ IF e = "nothing" THEN UNCHANGED hist ELSE Says(t, e)
  BY DEF Going
<1>2. /\ s \in Turns /\ hist \in [Turns -> Seq(Entries)] /\ turn \in [Turns -> Turn]
      /\ turn[t].mark \in Nat /\ turn[t].mark < Len(hist[s]) /\ turn[t].pc \in Taken /\ turn[t].pc # "waiting"
  BY Holding DEF Taken, HOLDING
<1>3. /\ v \in Turn /\ WellTyped(v) /\ v.chat = turn[t].chat /\ v.session = s /\ v.late = turn[t].late
      /\ v.mark = turn[t].mark /\ v.pc \in HOLDING /\ e \in {"nothing", "call", "result", "answer"}
  BY <1>1 DEF Advance, HOLDING
<1>4. turn' \in [Turns -> Turn] /\ turn'[t] = v /\ \A u \in Turns \ {t} : turn'[u] = turn[u]
  BY <1>1, <1>2, <1>3
<1>5. /\ hist' \in [Turns -> Seq(Entries)] /\ \A r \in Turns \ {s} : hist'[r] = hist[r]
      /\ Said(hist'[s]) \subseteq Said(hist[s]) \cup {t} /\ turn[t].mark < Len(hist'[s])
  <2>1. CASE e = "nothing"
    BY <1>1, <1>2, <2>1
  <2>2. CASE e # "nothing"
    <3>. DEFINE x == [kind |-> e, turn |-> t]
    <3>1. x \in Entries /\ x.turn = t
      BY <1>3, <2>2 DEF Entries
    <3>2. hist' = [hist EXCEPT ![s] = Append(@, x)]
      BY <1>1, <2>2 DEF Says
    <3>. HIDE DEF x
    <3>3. Append(hist[s], x) \in Seq(Entries) /\ Said(Append(hist[s], x)) = Said(hist[s]) \cup {t}
      BY <1>2, <3>1, SaidOf
    <3>4. Len(Append(hist[s], x)) = Len(hist[s]) + 1 /\ Len(hist[s]) \in Nat
      BY <1>2
    <3>. QED BY <1>2, <3>2, <3>3, <3>4
  <2>. QED BY <2>1, <2>2
<1>. QED BY <1>2, <1>3, <1>4, <1>5, SpeakingKeeps

\* The lock is taken and the question asked.
LEMMA StartKeeps ==
    ASSUME Owned, NEW t \in Turns, Start(t)
    PROVE  Owned'
<1>. DEFINE s == turn[t].session
            c == turn[t].chat
            x == [kind |-> "question", turn |-> t]
<1>1. turn[t].pc = "waiting" /\ Unlocked(s) /\ UNCHANGED <<tables, cache, evicting, erased>> /\ turn[t].pc \in Taken
  BY DEF Start, Taken
<1>2. PICK h \in {hist[s], LoadThread(c)} :
        /\ h = LoadThread(c) \/ h = hist[s]
        /\ hist' = [hist EXCEPT ![s] = Append(Truncate(h), x)]
        /\ turn' = [turn EXCEPT ![t].pc = "gemini", ![t].mark = Len(Truncate(h)), ![t].round = 1, ![t].attempt = 1]
  BY DEF Start
<1>3. /\ s \in Turns /\ c \in Chats /\ hist \in [Turns -> Seq(Entries)] /\ turn \in [Turns -> Turn]
      /\ hist[s] \in Seq(Entries) /\ messages[c] \in Seq(Exchange) /\ turn[t] \in Turn /\ WellTyped(turn[t])
  BY <1>1, Holding
<1>4. h \in Seq(Entries) /\ Said(h) \subseteq Said(hist[s]) \cup Stored(c)
  BY <1>2, <1>3, LoadedThread
<1>5. Truncate(h) \in Seq(Entries) /\ Said(Truncate(h)) \subseteq Said(h) /\ Len(Truncate(h)) \in Nat
  BY <1>4, TruncateFrom
<1>6. x \in Entries /\ x.turn = t
  BY DEF Entries
<1>. HIDE DEF x
<1>7. /\ Append(Truncate(h), x) \in Seq(Entries) /\ Len(Append(Truncate(h), x)) = Len(Truncate(h)) + 1
      /\ Said(Append(Truncate(h), x)) \subseteq Said(hist[s]) \cup {t} \cup Stored(c)
  BY <1>4, <1>5, <1>6, SaidOf
<1>8. /\ hist' \in [Turns -> Seq(Entries)] /\ hist'[s] = Append(Truncate(h), x)
      /\ \A r \in Turns \ {s} : hist'[r] = hist[r]
  BY <1>2, <1>3, <1>7
<1>. DEFINE v == [turn[t] EXCEPT !.pc = "gemini", !.mark = Len(Truncate(h)), !.round = 1, !.attempt = 1]
<1>9. turn' = [turn EXCEPT ![t] = v]
  BY <1>2, <1>3
<1>10. 1 \in 0..MaxIterations /\ 1 \in 1..MaxIterations /\ 1 \in Nat
  BY ConversationsAssumption
<1>11. /\ v \in Turn /\ v.pc = "gemini" /\ v.chat = c /\ v.session = s /\ v.late = turn[t].late
       /\ v.mark = Len(Truncate(h)) /\ v.round = 1
  BY <1>3, <1>5, <1>10 DEF Turn, HOLDING
<1>. HIDE DEF v
<1>12. WellTyped(v) /\ v.pc \in HOLDING
  BY <1>3, <1>10, <1>11 DEF WellTyped, Taken, HOLDING
<1>13. turn' \in [Turns -> Turn] /\ turn'[t] = v /\ \A u \in Turns \ {t} : turn'[u] = turn[u]
  BY <1>3, <1>9, <1>11
<1>14. v.mark < Len(hist'[s])
  BY <1>5, <1>7, <1>8, <1>11
<1>. QED BY <1>1, <1>7, <1>8, <1>11, <1>12, <1>13, <1>14, SpeakingKeeps

\* The session of a deleted chat leaves the cache, and who holds it keeps it.
LEMMA EvictKeeps ==
    ASSUME Owned, NEW c \in Chats, Evict(c)
    PROVE  Owned'
<1>1. c \in evicting /\ evicting' = evicting \ {c} /\ cache' = Without(c) /\ UNCHANGED <<tables, hist, turn, erased>>
  BY DEF Evict, ghosts
<1>2. Thinner(Without(c), c)
  BY WithoutOf DEF Owned, Types, Slot
<1>3. /\ cache' \in Seq([chat: Chats, session: Turns])
      /\ \A i, j \in DOMAIN cache' : cache'[i].chat = cache'[j].chat => i = j
      /\ \A d \in Chats, r \in Turns : Cached(d, r)' => Cached(d, r) /\ d # c
  BY <1>1, <1>2 DEF Thinner, Cached, Slot
<1>4. \A d \in Chats, r \in Turns : Cached(d, r)' => Cached(d, r) /\ (d \in evicting => d \in evicting')
  BY <1>1, <1>3
<1>5. turn' \in [Turns -> Turn] /\ hist' \in [Turns -> Seq(Entries)] /\ evicting' \subseteq Chats
  BY <1>1 DEF Owned, Types
<1>. QED BY <1>1, <1>3, <1>4, <1>5, LeavingKeeps

\* All turns end and the cache is empty; what histories said is nobody's.
LEMMA RestartKeepsOwned ==
    ASSUME Owned, Restart
    PROVE  Owned'
<1>1. /\ cache' = <<>> /\ evicting' = {} /\ UNCHANGED <<tables, hist, erased>>
      /\ turn' = [t \in Turns |-> IF t \in Running THEN Ended ELSE turn[t]]
  BY DEF Restart, ghosts
<1>2. turn' \in [Turns -> Turn] /\ \A u \in Turns : turn'[u] = turn[u] \/ turn'[u] = Ended
  BY <1>1, EndedTyped DEF Owned, Types
<1>3. \A d \in Chats, r \in Turns : ~Cached(d, r)'
  BY <1>1 DEF Cached
<1>4. cache' \in Seq([chat: Chats, session: Turns]) /\ \A i, j \in DOMAIN cache' : cache'[i].chat = cache'[j].chat => i = j
  BY <1>1
<1>5. hist' \in [Turns -> Seq(Entries)] /\ evicting' \subseteq Chats
  BY <1>1 DEF Owned, Types
<1>. QED BY <1>1, <1>2, <1>3, <1>4, <1>5, LeavingKeeps

\* A turn ends without a word.
LEMMA EndingKeeps ==
    ASSUME Owned, NEW t \in Turns, turn' = [turn EXCEPT ![t] = Ended],
           UNCHANGED <<tables, cache, hist, evicting, erased>>
    PROVE  Owned'
<1>1. turn' \in [Turns -> Turn] /\ \A u \in Turns : turn'[u] = turn[u] \/ turn'[u] = Ended
  BY EndedTyped DEF Owned, Types
<1>2. \A d \in Chats, r \in Turns : Cached(d, r)' => Cached(d, r)
  BY DEF Cached
<1>3. /\ cache' \in Seq([chat: Chats, session: Turns]) /\ evicting' \subseteq Chats
      /\ \A i, j \in DOMAIN cache' : cache'[i].chat = cache'[j].chat => i = j
      /\ hist' \in [Turns -> Seq(Entries)]
  BY DEF Owned, Types
<1>. QED BY <1>1, <1>2, <1>3, LeavingKeeps

\* _persist_exchange, whether it stored or failed.
LEMMA PersistKeeps ==
    ASSUME Owned, NEW t \in Turns, Persist(t)
    PROVE  Owned'
<1>1. turn[t].pc = "answered" /\ turn' = [turn EXCEPT ![t] = Ended] /\ UNCHANGED <<cache, hist, evicting, erased>>
  BY DEF Persist
<1>2. CASE Save(t)
  BY <1>1, <1>2, SavingKeeps
<1>3. CASE UNCHANGED tables
  BY <1>1, <1>3, EndingKeeps
<1>. QED BY <1>2, <1>3 DEF Persist

\* The client leaves, and the session keeps what was said.
LEMMA DisconnectKeeps ==
    ASSUME Owned, NEW t \in Turns, Disconnect(t)
    PROVE  Owned'
<1>1. turn' = [turn EXCEPT ![t] = Ended] /\ UNCHANGED <<cache, hist, evicting, erased>>
  BY DEF Disconnect
<1>2. CASE turn[t].pc = "answered" /\ Save(t)
  BY <1>1, <1>2, SavingKeeps
<1>3. CASE UNCHANGED tables
  BY <1>1, <1>3, EndingKeeps
<1>. QED BY <1>2, <1>3 DEF Disconnect

\* A turn is let in.
LEMMA BeginKeeps ==
    ASSUME Owned, NEW t \in Turns, NEW c \in Chats, Begin(t, c)
    PROVE  Owned'
<1>1. /\ turn[t].pc = "new" /\ turn' = [turn EXCEPT ![t].pc = "owned", ![t].chat = c]
      /\ UNCHANGED <<tables, cache, hist, evicting, erased>>
  BY DEF Begin, ghosts
<1>. DEFINE v == [turn[t] EXCEPT !.pc = "owned", !.chat = c]
<1>2. turn[t] \in Turn /\ turn \in [Turns -> Turn] /\ WellTyped(turn[t])
  BY DEF Owned, Types
<1>3. turn' = [turn EXCEPT ![t] = v]
  BY <1>1, <1>2
<1>4. turn[t].session = NoTurn /\ turn[t].late = FALSE /\ turn[t].screen = <<>>
  BY <1>1, <1>2 DEF WellTyped, Taken, HOLDING
<1>5. v \in Turn /\ v.pc = "owned" /\ v.chat = c /\ v.session = NoTurn /\ v.late = FALSE /\ v.screen = <<>>
  BY <1>2, <1>4 DEF Turn
<1>. HIDE DEF v
<1>6. WellTyped(v) /\ ~v.late
  BY <1>5 DEF WellTyped, Taken, HOLDING
<1>7. turn' \in [Turns -> Turn] /\ turn'[t] = v /\ \A u \in Turns \ {t} : turn'[u] = turn[u]
  BY <1>2, <1>3, <1>5
<1>8. \A u \in Turns : \/ turn'[u] = turn[u]
                       \/ turn[u].pc = "new" /\ turn'[u].pc = "owned" /\ WellTyped(turn'[u]) /\ ~turn'[u].late
  <2>1. turn[t].pc = "new" /\ turn'[t].pc = "owned" /\ WellTyped(turn'[t]) /\ ~turn'[t].late
    BY <1>1, <1>5, <1>6, <1>7
  <2>. QED BY <1>7, <2>1
<1>9. chat' \in [Chats -> Chat] /\ chat' = chat /\ UNCHANGED <<messages, cache, hist, evicting, erased>>
  BY <1>1 DEF Owned, Types, tables
<1>. QED BY <1>7, <1>8, <1>9, LettingInKeeps

\* "New chat" makes an empty chat at most.
LEMMA NewChatKeeps ==
    ASSUME Owned, NEW n \in Clicks, InsertEmpty(n) \/ SelectEmpty(n)
    PROVE  Owned'
<1>1. UNCHANGED <<messages, cache, hist, turn, evicting, erased>>
  BY DEF InsertEmpty, SelectEmpty, tables, ghosts
<1>2. chat' \in [Chats -> Chat] /\ \A d \in Chats : chat'[d] = chat[d] \/ (chat[d] = "none" /\ chat'[d] = "empty")
  <2>1. CASE UNCHANGED chat
    BY <2>1 DEF Owned, Types
  <2>2. CASE /\ \E c \in Chats : chat[c] = "none"
             /\ chat' = [chat EXCEPT ![CHOOSE c \in Chats : chat[c] = "none"] = "empty"]
    <3>. DEFINE c == CHOOSE d \in Chats : chat[d] = "none"
    <3>1. c \in Chats /\ chat[c] = "none" /\ chat' = [chat EXCEPT ![c] = "empty"]
      BY <2>2
    <3>. HIDE DEF c
    <3>. QED BY <3>1 DEF Owned, Types, Chat
  <2>. QED BY <2>1, <2>2 DEF InsertEmpty, SelectEmpty, tables
<1>3. turn' \in [Turns -> Turn] /\ turn' = turn
  BY <1>1 DEF Owned, Types
<1>. QED BY <1>1, <1>2, <1>3, LettingInKeeps

LEMMA InitOwned == Init => Owned
<1>. SUFFICES ASSUME Init PROVE Owned
  OBVIOUS
<1>1. /\ \A t \in Turns : turn[t] = NewTurn /\ hist[t] = <<>>
      /\ \A c \in Chats : messages[c] = <<>> /\ chat[c] = "none"
      /\ cache = <<>> /\ evicting = {} /\ erased = {}
  BY DEF Init
<1>2. /\ \A t \in Turns : turn[t].pc = "new" /\ turn[t].late = FALSE /\ WellTyped(turn[t]) /\ turn[t].session = NoTurn
      /\ \A t \in Turns : turn[t].pc \notin Taken /\ turn[t].pc \notin HOLDING
  BY <1>1, EndedTyped DEF Taken, HOLDING
<1>3. /\ chat \in [Chats -> Chat] /\ messages \in [Chats -> Seq(Exchange)] /\ hist \in [Turns -> Seq(Entries)]
      /\ turn \in [Turns -> Turn]
  BY EndedTyped DEF Init, Chat
<1>4. \A c \in Chats, s \in Turns : ~InUse(c, s)
  BY <1>1, <1>2 DEF InUse, Cached, TakenBy
<1>5. \A c \in Chats : Stored(c) = {}
  BY <1>1 DEF Stored, Said
<1>6. \A t \in Turns : Said(hist[t]) = {}
  BY <1>1 DEF Said
<1>7. Types
  BY <1>1, <1>2, <1>3 DEF Types
<1>8. Sessioned
  BY <1>1, <1>2, <1>4 DEF Sessioned
<1>9. Traced
  BY <1>1, <1>2, <1>5, <1>6 DEF Traced
<1>10. Clean
  BY <1>1, <1>2 DEF Clean, Cached
<1>. QED BY <1>7, <1>8, <1>9, <1>10 DEF Owned

\* A round of a provider, or of tools.
LEMMA AnsweringKeeps ==
    ASSUME Owned, NEW t \in Turns, Answering(t)
    PROVE  Owned'
<1>1. /\ turn[t].pc \in HOLDING /\ UNCHANGED <<tables, cache, evicting, erased>>
      /\ GiveUp(t) \/ Going(t)
  BY Outcome DEF Owned, HOLDING, untouched, ghosts
<1>. QED BY <1>1, GivingUpKeeps, AdvancingKeeps

LEMMA NextOwned == Owned /\ [Next]_vars => Owned'
<1>. SUFFICES ASSUME Owned, [Next]_vars PROVE Owned'
  OBVIOUS
<1>1. ASSUME NEW n \in Clicks, InsertEmpty(n) \/ SelectEmpty(n)
      PROVE  Owned'
  BY <1>1, NewChatKeeps
<1>2. ASSUME NEW t \in Turns, (\E c \in Chats : Begin(t, c)) \/ Step(t) \/ Disconnect(t)
      PROVE  Owned'
  BY <1>2, BeginKeeps, GettingKeeps, StartKeeps, AnsweringKeeps, PersistKeeps, DisconnectKeeps DEF Step
<1>3. CASE DeleteChats \/ Restart
  BY <1>3, DeletingKeeps, RestartKeepsOwned
<1>4. ASSUME NEW c \in Chats, Evict(c)
      PROVE  Owned'
  BY <1>4, EvictKeeps
<1>5. CASE UNCHANGED vars
  BY <1>5, LettingInKeeps DEF vars, tables, ghosts, Owned, Types
<1>. QED BY <1>1, <1>2, <1>3, <1>4, <1>5 DEF Next

\* A session is of one chat, its lock is held by one turn, and what it says was said
\* in that chat; what was made after a deletion knows nothing of what was deleted
\* (rag/session_cache.py:13-32, rag/agent_runner.py:100-160).
THEOREM SessionsOwned == Spec => []Owned
BY InitOwned, NextOwned, PTL DEF Spec

\* A turn that was let in before its chat was deleted, and takes its session after the
\* deletion was answered, is not sent an exchange that was deleted, whatever other
\* turns of the chat are still writing (api/ask.py:112-116).
THEOREM DeletedChatsForgotten == Spec => []DeletedForgotten
<1>1. Owned => DeletedForgotten
  <2>. SUFFICES ASSUME Owned, NEW t \in Turns, turn[t].late, NEW i \in DOMAIN hist[turn[t].session]
                PROVE  hist[turn[t].session][i].turn \notin erased
    BY DEF DeletedForgotten
  <2>1. Said(hist[turn[t].session]) \cap erased = {}
    BY DEF Owned, Clean
  <2>2. hist[turn[t].session][i].turn \in Said(hist[turn[t].session])
    BY DEF Said
  <2>. QED BY <2>1, <2>2
<1>. QED BY <1>1, SessionsOwned, PTL

-----------------------------------------------------------------------------
(* What is shown is stored.                                                *)

\* Everything in text was said by one provider, in rounds up to n.
Spoken(text, provider, n) ==
    /\ text \in Seq(Pieces) /\ IsInjective(text)
    /\ \A i \in DOMAIN text : text[i][1] = provider /\ text[i][2] <= n

ScreenOf(k) ==
    /\ k.pc \in {"new", "owned", "waiting", "ended"} => k.screen = <<>>
    /\ k.pc = "gemini" => Spoken(k.screen, "gemini", k.round - 1)
    /\ k.pc = "tools" => Spoken(k.screen, "gemini", k.round)
    /\ k.pc = "groq" => Spoken(k.screen, "groq", k.round - 1)
    /\ k.pc = "answered" =>
         k.screen # <<>> /\ \E provider \in {"gemini", "groq"} : Spoken(k.screen, provider, MaxIterations)

ShownInv == (\A t \in Turns : ScreenOf(turn[t])) /\ StoredIsShown

\* One more piece, of a round not yet spoken of.
LEMMA SpokenMore ==
    ASSUME NEW text, NEW provider \in {"gemini", "groq"}, NEW n \in 1..MaxIterations,
           Spoken(text, provider, n - 1)
    PROVE  /\ Spoken(text, provider, n) /\ Spoken(text, provider, MaxIterations)
           /\ LET more == Append(text, <<provider, n>>)
              IN  more # <<>> /\ Spoken(more, provider, n) /\ Spoken(more, provider, MaxIterations)
<1>. DEFINE x == <<provider, n>>
            more == Append(text, x)
<1>1. MaxIterations \in Nat /\ n \in Nat /\ n <= MaxIterations
  BY ConversationsAssumption
<1>2. text \in Seq(Pieces) /\ \A i \in DOMAIN text : text[i] \in Pieces
  BY DEF Spoken
<1>3. \A i \in DOMAIN text : text[i][2] \in Nat
  BY <1>1, <1>2 DEF Pieces
<1>4. \A i \in DOMAIN text : text[i][2] <= n - 1
  BY DEF Spoken
<1>5. \A i \in DOMAIN text : text[i][2] <= n /\ text[i][2] <= MaxIterations /\ text[i][2] < n
  BY <1>1, <1>3, <1>4
<1>6. x \in Pieces /\ x[1] = provider /\ x[2] = n
  BY DEF Pieces
<1>. HIDE DEF x
<1>7. /\ more \in Seq(Pieces) /\ DOMAIN more = 1..Len(text) + 1 /\ DOMAIN text = 1..Len(text) /\ Len(text) \in Nat
      /\ \A i \in 1..Len(text) : more[i] = text[i]
      /\ more[Len(text) + 1] = x /\ more # <<>>
  BY <1>2, <1>6
<1>8. \A i \in DOMAIN text : text[i] # x
  BY <1>1, <1>3, <1>5, <1>6
<1>9. IsInjective(more)
  <2>1. \A i \in DOMAIN more : i \in DOMAIN text \/ i = Len(text) + 1
    BY <1>7
  <2>2. \A i, j \in DOMAIN text : more[i] = more[j] => i = j
    BY <1>7 DEF Spoken, IsInjective
  <2>3. \A i \in DOMAIN text : more[i] # x
    BY <1>7, <1>8
  <2>. HIDE DEF more
  <2>. QED BY <1>7, <2>1, <2>2, <2>3 DEF IsInjective
<1>10. \A i \in DOMAIN more : more[i][1] = provider /\ more[i][2] <= n /\ more[i][2] <= MaxIterations
  <2>1. \A i \in DOMAIN more : i \in 1..Len(text) \/ i = Len(text) + 1
    BY <1>7
  <2>2. \A i \in 1..Len(text) : more[i][1] = provider /\ more[i][2] <= n /\ more[i][2] <= MaxIterations
    BY <1>5, <1>7 DEF Spoken
  <2>3. more[Len(text) + 1][1] = provider /\ more[Len(text) + 1][2] <= n /\ more[Len(text) + 1][2] <= MaxIterations
    BY <1>1, <1>6, <1>7
  <2>. HIDE DEF more
  <2>. QED BY <2>1, <2>2, <2>3
<1>11. Spoken(text, provider, n) /\ Spoken(text, provider, MaxIterations)
  BY <1>5 DEF Spoken
<1>12. Spoken(more, provider, n) /\ Spoken(more, provider, MaxIterations)
  <2>. HIDE DEF more
  <2>. QED BY <1>7, <1>9, <1>10 DEF Spoken
<1>. QED BY <1>7, <1>11, <1>12 DEF x

LEMMA SpokenNothing == \A provider, n : Spoken(<<>>, provider, n)
BY DEF Spoken, IsInjective

LEMMA EmptyScreen ==
    ASSUME NEW k, k.screen = <<>>, k.pc # "answered"
    PROVE  ScreenOf(k)
BY SpokenNothing DEF ScreenOf

\* A round adds its own piece to the screen, and a stream that died clears it.
LEMMA AdvanceShows ==
    ASSUME NEW k \in Turn, WellTyped(k), ScreenOf(k), NEW v, NEW e, Advance(k, v, e)
    PROVE  ScreenOf(v)
<1>1. MaxIterations \in Nat
  BY ConversationsAssumption
<1>2. k.pc \in HOLDING /\ k.round \in 1..MaxIterations
  BY DEF Advance, WellTyped, HOLDING
<1>3. ASSUME NEW provider \in {"gemini", "groq"}, Spoken(k.screen, provider, k.round - 1),
             NEW screen \in Streamed(k, provider)
      PROVE  Spoken(screen, provider, k.round) /\ Spoken(screen, provider, MaxIterations)
  BY <1>2, <1>3, SpokenMore DEF Streamed
<1>4. CASE k.pc = "gemini" /\ v.screen = <<>> /\ v.pc \in {"gemini", "groq"}
  BY <1>4, EmptyScreen
<1>5. CASE k.pc = "gemini" /\ v.pc = "tools" /\ v.round = k.round /\ v.screen \in Streamed(k, "gemini")
  <2>1. Spoken(v.screen, "gemini", v.round)
    BY <1>3, <1>5 DEF ScreenOf
  <2>. QED BY <1>5, <2>1 DEF ScreenOf
<1>6. CASE k.pc = "tools" /\ v.pc = "gemini" /\ v.round = k.round + 1 /\ v.screen = k.screen
  <2>1. v.round - 1 = k.round
    BY <1>1, <1>2, <1>6
  <2>. QED BY <1>6, <2>1 DEF ScreenOf
<1>7. CASE k.pc = "gemini" /\ v.pc = "answered" /\ v.screen = Append(k.screen, <<"gemini", k.round>>)
  <2>1. v.screen # <<>> /\ Spoken(v.screen, "gemini", MaxIterations)
    BY <1>2, <1>7, SpokenMore DEF ScreenOf
  <2>. QED BY <1>7, <2>1 DEF ScreenOf
<1>8. CASE k.pc = "groq" /\ v.pc = "groq" /\ v.round = k.round /\ v.screen = k.screen
  BY <1>8 DEF ScreenOf
<1>9. CASE k.pc = "groq" /\ v.pc = "groq" /\ v.round = k.round + 1 /\ v.screen \in Streamed(k, "groq")
  <2>1. v.round - 1 = k.round
    BY <1>1, <1>2, <1>9
  <2>2. Spoken(v.screen, "groq", k.round)
    BY <1>3, <1>9 DEF ScreenOf
  <2>. QED BY <1>9, <2>1, <2>2 DEF ScreenOf
<1>10. CASE k.pc = "groq" /\ v.pc = "answered" /\ v.screen # <<>> /\ v.screen \in Streamed(k, "groq")
  <2>1. Spoken(v.screen, "groq", MaxIterations)
    BY <1>3, <1>10 DEF ScreenOf
  <2>. QED BY <1>10, <2>1 DEF ScreenOf
<1>. QED BY <1>4, <1>5, <1>6, <1>7, <1>8, <1>9, <1>10 DEF Advance

\* Nothing is stored: only the turns are looked at.
LEMMA ShownWithoutSaving ==
    ASSUME ShownInv, \A c \in Chats : messages'[c] = messages[c] \/ messages'[c] = <<>>,
           \A u \in Turns : \/ turn'[u] = turn[u] \/ turn'[u] = Ended \/ ScreenOf(turn'[u])
                            \/ turn'[u].screen = <<>> /\ turn'[u].pc # "answered"
    PROVE  ShownInv'
<1>1. \A u \in Turns : ScreenOf(turn'[u])
  BY EndedTyped, EmptyScreen DEF ShownInv
<1>2. StoredIsShown'
  BY DEF ShownInv, StoredIsShown
<1>. QED BY <1>1, <1>2 DEF ShownInv

\* What is saved is the screen of an answered turn.
LEMMA ShownWhenSaved ==
    ASSUME Owned, ShownInv, NEW t \in Turns, turn[t].pc = "answered", turn' = [turn EXCEPT ![t] = Ended], Save(t)
    PROVE  ShownInv'
<1>. DEFINE c == turn[t].chat
            text == turn[t].screen
            x == [turn |-> t, text |-> text]
<1>1. c \in Chats /\ messages \in [Chats -> Seq(Exchange)] /\ text \in Seq(Pieces) /\ turn \in [Turns -> Turn]
  BY Holding DEF Taken, HOLDING, Owned, Types, Turn
<1>2. turn'[t] = Ended /\ \A u \in Turns : turn'[u] = turn[u] \/ turn'[u] = Ended
  BY <1>1
<1>3. CASE chat[c] = "deleted"
  BY <1>2, <1>3, ShownWithoutSaving DEF Save, tables
<1>4. CASE chat[c] # "deleted"
  <2>1. messages' = [messages EXCEPT ![c] = Append(@, x)]
    BY <1>4 DEF Save
  <2>2. x \in Exchange /\ x.text = text
    BY <1>1 DEF Exchange
  <2>3. text # <<>> /\ IsInjective(text) /\ \A p, q \in Range(text) : p[1] = q[1]
    <3>1. PICK provider \in {"gemini", "groq"} : text # <<>> /\ Spoken(text, provider, MaxIterations)
      BY DEF ShownInv, ScreenOf
    <3>. QED BY <3>1 DEF Spoken, Range
  <2>. HIDE DEF x
  <2>4. /\ \A d \in Chats \ {c} : messages'[d] = messages[d]
        /\ messages'[c] = Append(messages[c], x) /\ messages[c] \in Seq(Exchange)
    BY <1>1, <2>1, <2>2
  <2>5. /\ \A i \in DOMAIN messages'[c] : i \in DOMAIN messages[c] \/ i = Len(messages[c]) + 1
        /\ \A i \in DOMAIN messages[c] : messages'[c][i] = messages[c][i]
        /\ messages'[c][Len(messages[c]) + 1] = x
    <3>1. /\ DOMAIN messages'[c] = 1..Len(messages[c]) + 1 /\ DOMAIN messages[c] = 1..Len(messages[c])
          /\ Len(messages[c]) \in Nat
      BY <2>2, <2>4
    <3>2. \A i \in 1..Len(messages[c]) : messages'[c][i] = messages[c][i]
      BY <2>2, <2>4
    <3>3. messages'[c][Len(messages[c]) + 1] = x
      BY <2>2, <2>4
    <3>. QED BY <3>1, <3>2, <3>3
  <2>6. StoredIsShown'
    <3>. SUFFICES ASSUME NEW d \in Chats, NEW i \in DOMAIN messages'[d]
                  PROVE  LET y == messages'[d][i].text
                         IN  y # <<>> /\ IsInjective(y) /\ \A p, q \in Range(y) : p[1] = q[1]
      BY DEF StoredIsShown
    <3>1. CASE d # c
      BY <2>4, <3>1 DEF ShownInv, StoredIsShown
    <3>2. CASE d = c /\ i \in DOMAIN messages[c]
      BY <2>5, <3>2 DEF ShownInv, StoredIsShown
    <3>3. CASE d = c /\ i = Len(messages[c]) + 1
      <4>1. messages'[d][i].text = text
        BY <2>2, <2>5, <3>3
      <4>. HIDE DEF text
      <4>. QED BY <2>3, <4>1
    <3>. QED BY <2>5, <3>1, <3>2, <3>3
  <2>7. \A u \in Turns : ScreenOf(turn'[u])
    BY <1>2, EndedTyped, EmptyScreen DEF ShownInv
  <2>. QED BY <2>6, <2>7 DEF ShownInv
<1>. QED BY <1>3, <1>4

LEMMA NextShown == Owned /\ ShownInv /\ [Next]_vars => ShownInv'
<1>. SUFFICES ASSUME Owned, ShownInv, [Next]_vars PROVE ShownInv'
  OBVIOUS
<1>. USE DEF tables
<1>1. ASSUME NEW n \in Clicks, InsertEmpty(n) \/ SelectEmpty(n)
      PROVE  ShownInv'
  BY <1>1, ShownWithoutSaving DEF InsertEmpty, SelectEmpty
<1>2. ASSUME NEW t \in Turns, NEW v, turn' = [turn EXCEPT ![t] = v], v.screen = <<>>, v.pc # "answered",
             UNCHANGED messages
      PROVE  ShownInv'
  BY <1>2, ShownWithoutSaving DEF Owned, Types
<1>3. ASSUME NEW t \in Turns, NEW c \in Chats, Begin(t, c)
      PROVE  ShownInv'
  <2>. DEFINE v == [turn[t] EXCEPT !.pc = "owned", !.chat = c]
  <2>1. turn[t] \in Turn /\ turn \in [Turns -> Turn] /\ turn[t].screen = <<>>
    BY <1>3 DEF Owned, Types, WellTyped, Begin, HOLDING
  <2>2. turn' = [turn EXCEPT ![t] = v] /\ v.screen = <<>> /\ v.pc = "owned"
    BY <1>3, <2>1 DEF Begin, Turn
  <2>. QED BY <1>2, <1>3, <2>2 DEF Begin
<1>4. ASSUME NEW t \in Turns, GetSession(t)
      PROVE  ShownInv'
  <2>1. PICK s \in Turns : turn[t].pc = "owned" /\ Gets(t, turn[t].chat, s)
    BY <1>4, GetsOne
  <2>2. PICK late \in BOOLEAN : turn' = [turn EXCEPT ![t].pc = "waiting", ![t].session = s, ![t].late = late]
    BY <2>1 DEF Gets
  <2>. DEFINE v == [turn[t] EXCEPT !.pc = "waiting", !.session = s, !.late = late]
  <2>3. turn[t] \in Turn /\ turn \in [Turns -> Turn] /\ turn[t].screen = <<>>
    BY <2>1 DEF Owned, Types, WellTyped, HOLDING
  <2>4. turn' = [turn EXCEPT ![t] = v] /\ v.screen = <<>> /\ v.pc = "waiting"
    BY <2>2, <2>3 DEF Turn
  <2>. QED BY <1>2, <1>4, <2>4 DEF GetSession
<1>5. ASSUME NEW t \in Turns, Start(t)
      PROVE  ShownInv'
  <2>1. PICK n : turn' = [turn EXCEPT ![t].pc = "gemini", ![t].mark = n, ![t].round = 1, ![t].attempt = 1]
    BY <1>5 DEF Start
  <2>. DEFINE v == [turn[t] EXCEPT !.pc = "gemini", !.mark = n, !.round = 1, !.attempt = 1]
  <2>2. turn[t] \in Turn /\ turn \in [Turns -> Turn] /\ turn[t].screen = <<>>
    BY <1>5 DEF Owned, Types, WellTyped, HOLDING, Start
  <2>3. turn' = [turn EXCEPT ![t] = v] /\ v.screen = <<>> /\ v.pc = "gemini"
    BY <2>1, <2>2 DEF Turn
  <2>. QED BY <1>2, <1>5, <2>3 DEF Start
<1>6. ASSUME NEW t \in Turns, Answering(t)
      PROVE  ShownInv'
  <2>1. UNCHANGED messages /\ (GiveUp(t) \/ Going(t)) /\ turn[t].pc \in HOLDING
    BY <1>6, Outcome DEF Owned, untouched, HOLDING
  <2>2. CASE GiveUp(t)
    BY <1>2, <2>1, <2>2, EndedTyped DEF GiveUp
  <2>3. CASE Going(t)
    <3>1. PICK v, e : Advance(turn[t], v, e) /\ turn' = [turn EXCEPT ![t] = v]
      BY <2>3 DEF Going
    <3>2. turn[t] \in Turn /\ WellTyped(turn[t]) /\ turn \in [Turns -> Turn] /\ ScreenOf(turn[t])
      BY DEF Owned, Types, ShownInv
    <3>3. ScreenOf(v)
      BY <3>1, <3>2, AdvanceShows
    <3>4. \A u \in Turns : turn'[u] = turn[u] \/ ScreenOf(turn'[u])
      BY <3>1, <3>2, <3>3
    <3>. QED BY <2>1, <3>4, ShownWithoutSaving
  <2>. QED BY <2>1, <2>2, <2>3
<1>7. ASSUME NEW t \in Turns, Persist(t) \/ Disconnect(t)
      PROVE  ShownInv'
  <2>1. turn' = [turn EXCEPT ![t] = Ended]
    BY <1>7 DEF Persist, Disconnect
  <2>2. CASE turn[t].pc = "answered" /\ Save(t)
    BY <2>1, <2>2, ShownWhenSaved
  <2>3. CASE UNCHANGED messages
    BY <1>2, <2>1, <2>3, EndedTyped
  <2>. QED BY <1>7, <2>2, <2>3 DEF Persist, Disconnect
<1>8. CASE DeleteChats
  <2>1. UNCHANGED turn /\ \A c \in Chats : messages'[c] = messages[c] \/ messages'[c] = <<>>
    BY <1>8 DEF DeleteChats
  <2>. QED BY <2>1, ShownWithoutSaving
<1>9. CASE Restart
  BY <1>9, ShownWithoutSaving DEF Restart
<1>10. ASSUME NEW c \in Chats, Evict(c)
       PROVE  ShownInv'
  BY <1>10, ShownWithoutSaving DEF Evict
<1>11. CASE UNCHANGED vars
  BY <1>11, ShownWithoutSaving DEF vars
<1>. QED BY <1>1, <1>3, <1>4, <1>5, <1>6, <1>7, <1>8, <1>9, <1>10, <1>11 DEF Next, Step

LEMMA InitShown == Init => ShownInv
<1>. SUFFICES ASSUME Init PROVE ShownInv
  OBVIOUS
<1>1. \A t \in Turns : ScreenOf(turn[t])
  BY EndedTyped, EmptyScreen DEF Init
<1>. QED BY <1>1 DEF Init, ShownInv, StoredIsShown

\* A stored answer is what the client saw: the text of one provider, with no round of
\* it twice, for any number of rounds and retries (rag/agent_runner.py:189-198).
THEOREM ShownAsStored == Spec => []StoredIsShown
<1>1. Init => Owned /\ ShownInv
  BY InitOwned, InitShown
<1>2. Owned /\ ShownInv /\ [Next]_vars => (Owned /\ ShownInv)'
  BY NextOwned, NextShown
<1>3. ShownInv => StoredIsShown
  BY DEF ShownInv
<1>. QED BY <1>1, <1>2, <1>3, PTL DEF Spec

-----------------------------------------------------------------------------
(* Histories that a provider accepts.                                      *)

Chained(h) ==
    /\ h[1].kind = "question"
    /\ \A i \in 1..Len(h) - 1 : <<h[i].kind, h[i + 1].kind>> \in FOLLOWS

\* What a session holds between turns: whole exchanges, the last of which began
\* recently enough to survive the cut.
Complete(h) == h = <<>> \/ (Chained(h) /\ h[Len(h)].kind = "answer")
Recent(h) == h = <<>> \/ \E q \in 1..Len(h) : h[q].kind = "question" /\ Len(h) - q < 2 * MaxIterations

\* The last exchange of a thread is the last one of the history.
EndsIn(h, m) ==
    m = <<>> \/ (h # <<>> /\ h[Len(h)] = [kind |-> "answer", turn |-> m[Len(m)].turn])

\* One more entry that may follow the last.
LEMMA ChainedMore ==
    ASSUME NEW h \in Seq(Entries), NEW e \in Entries,
           \/ h = <<>> /\ e.kind = "question"
           \/ h # <<>> /\ Chained(h) /\ <<h[Len(h)].kind, e.kind>> \in FOLLOWS
    PROVE  LET more == Append(h, e)
           IN  /\ more \in Seq(Entries) /\ Len(more) = Len(h) + 1 /\ more[Len(h) + 1] = e
               /\ \A i \in 1..Len(h) : more[i] = h[i]
               /\ Chained(more)
<1>. DEFINE more == Append(h, e)
<1>1. /\ more \in Seq(Entries) /\ Len(more) = Len(h) + 1 /\ more[Len(h) + 1] = e
      /\ \A i \in 1..Len(h) : more[i] = h[i]
      /\ Len(h) \in Nat /\ (h = <<>> => Len(h) = 0) /\ (h # <<>> => Len(h) >= 1)
  OBVIOUS
<1>. HIDE DEF more
<1>2. ASSUME h = <<>> /\ e.kind = "question"
      PROVE  Chained(more)
  BY <1>1, <1>2 DEF Chained
<1>3. ASSUME h # <<>> /\ Chained(h) /\ <<h[Len(h)].kind, e.kind>> \in FOLLOWS
      PROVE  Chained(more)
  <2>1. more[1].kind = "question"
    BY <1>1, <1>3 DEF Chained
  <2>2. ASSUME NEW i \in 1..Len(more) - 1
        PROVE  <<more[i].kind, more[i + 1].kind>> \in FOLLOWS
    <3>1. CASE i = Len(h)
      BY <1>1, <1>3, <3>1
    <3>2. CASE i # Len(h)
      <4>1. i \in 1..Len(h) - 1 /\ i \in 1..Len(h) /\ i + 1 \in 1..Len(h)
        BY <1>1, <3>2
      <4>2. more[i] = h[i] /\ more[i + 1] = h[i + 1]
        BY <1>1, <4>1
      <4>. QED BY <1>3, <4>1, <4>2 DEF Chained
    <3>. QED BY <3>1, <3>2
  <2>. QED BY <2>1, <2>2 DEF Chained
<1>4. Chained(more)
  BY <1>2, <1>3
<1>. QED BY <1>1, <1>4 DEF more

\* What is below the mark stays when entries are added.
LEMMA BaseKept ==
    ASSUME NEW h \in Seq(Entries), NEW e \in Entries
    PROVE  /\ SubSeq(h, 1, Len(h)) = h /\ SubSeq(Append(h, e), 1, Len(h)) = h
           /\ \A n \in 0..Len(h) : SubSeq(Append(h, e), 1, n) = SubSeq(h, 1, n)
<1>. DEFINE more == Append(h, e)
<1>1. /\ more \in Seq(Entries) /\ Len(more) = Len(h) + 1 /\ Len(h) \in Nat
      /\ \A i \in 1..Len(h) : more[i] = h[i] /\ h[i] \in Entries
  OBVIOUS
<1>. HIDE DEF more
<1>2. ASSUME NEW n \in 0..Len(h)
      PROVE  SubSeq(more, 1, n) = SubSeq(h, 1, n)
  <2>1. n \in Int /\ 1 \in Int /\ \A i \in 1..n : more[i] \in Entries /\ h[i] \in Entries /\ more[i] = h[i]
    BY <1>1
  <2>2. /\ SubSeq(more, 1, n) \in Seq(Entries) /\ Len(SubSeq(more, 1, n)) = IF 1 <= n THEN n - 1 + 1 ELSE 0
        /\ \A i \in 1..n - 1 + 1 : SubSeq(more, 1, n)[i] = more[1 + i - 1]
    BY <2>1, SubSeqProperties
  <2>3. /\ SubSeq(h, 1, n) \in Seq(Entries) /\ Len(SubSeq(h, 1, n)) = IF 1 <= n THEN n - 1 + 1 ELSE 0
        /\ \A i \in 1..n - 1 + 1 : SubSeq(h, 1, n)[i] = h[1 + i - 1]
    BY <2>1, SubSeqProperties
  <2>4. Len(SubSeq(more, 1, n)) = n /\ Len(SubSeq(h, 1, n)) = n
    BY <2>2, <2>3
  <2>5. \A i \in 1..n : SubSeq(more, 1, n)[i] = SubSeq(h, 1, n)[i]
    <3>1. \A i \in 1..n : i \in 1..n - 1 + 1 /\ 1 + i - 1 = i
      OBVIOUS
    <3>2. \A i \in 1..n : SubSeq(more, 1, n)[i] = more[i] /\ SubSeq(h, 1, n)[i] = h[i]
      BY <2>2, <2>3, <3>1
    <3>. QED BY <2>1, <3>2
  <2>. QED BY <2>2, <2>3, <2>4, <2>5, SeqEqual
<1>3. SubSeq(h, 1, Len(h)) = h
  BY SubSeqFull
<1>4. Len(h) \in 0..Len(h)
  BY <1>1
<1>. QED BY <1>2, <1>3, <1>4 DEF more

\* What SubSeq leaves.
LEMMA BaseOf ==
    ASSUME NEW h \in Seq(Entries), NEW n \in 0..Len(h)
    PROVE  /\ SubSeq(h, 1, n) \in Seq(Entries) /\ Len(SubSeq(h, 1, n)) = n
           /\ \A i \in 1..n : SubSeq(h, 1, n)[i] = h[i]
<1>1. n \in Int /\ 1 \in Int /\ \A i \in 1..n : h[i] \in Entries
  OBVIOUS
<1>2. /\ SubSeq(h, 1, n) \in Seq(Entries) /\ Len(SubSeq(h, 1, n)) = IF 1 <= n THEN n - 1 + 1 ELSE 0
      /\ \A i \in 1..n - 1 + 1 : SubSeq(h, 1, n)[i] = h[1 + i - 1]
  BY <1>1, SubSeqProperties
<1>3. \A i \in 1..n : i \in 1..n - 1 + 1 /\ 1 + i - 1 = i
  OBVIOUS
<1>. QED BY <1>2, <1>3

\* The cut leaves whole exchanges, and the last of them.
LEMMA CutsAtQuestions ==
    ASSUME NEW h \in Seq(Entries), Complete(h), Recent(h)
    PROVE  /\ Truncate(h) \in Seq(Entries) /\ Complete(Truncate(h)) /\ Recent(Truncate(h))
           /\ \A m : EndsIn(h, m) => EndsIn(Truncate(h), m)
<1>. DEFINE r == Truncate(h)
<1>1. r \in Seq(Entries) /\ Len(h) \in Nat /\ Limit \in Nat /\ 2 * MaxIterations <= Limit /\ MaxIterations \in Nat
  BY TruncateFrom, ConversationsAssumption
<1>2. CASE r = h
  BY <1>2, <1>1
<1>3. CASE /\ r = <<>> /\ Len(h) > Limit
           /\ \A q \in 1..Len(h) : Len(h) - q < Limit => h[q].kind # "question"
  <2>1. h # <<>>
    BY <1>1, <1>3
  <2>2. PICK q \in 1..Len(h) : h[q].kind = "question" /\ Len(h) - q < 2 * MaxIterations
    BY <2>1 DEF Recent
  <2>. QED BY <1>1, <1>3, <2>2
<1>4. CASE \E p \in 1..Len(h) :
             /\ Len(h) - p < Limit /\ h[p].kind = "question"
             /\ \A q \in 1..Len(h) : Len(h) - q < Limit /\ h[q].kind = "question" => p <= q
             /\ Len(r) = Len(h) - p + 1
             /\ \A j \in 1..Len(h) - p + 1 : r[j] = h[p + j - 1]
  <2>1. PICK p \in 1..Len(h) :
             /\ Len(h) - p < Limit /\ h[p].kind = "question"
             /\ \A q \in 1..Len(h) : Len(h) - q < Limit /\ h[q].kind = "question" => p <= q
             /\ Len(r) = Len(h) - p + 1
             /\ \A j \in 1..Len(h) - p + 1 : r[j] = h[p + j - 1]
    BY <1>4
  <2>. HIDE DEF r
  <2>2. /\ h # <<>> /\ Len(h) \in Nat /\ Len(h) >= 1 /\ Len(r) \in Nat /\ Len(r) >= 1 /\ r # <<>>
        /\ p \in Nat /\ p + Len(r) - 1 = Len(h) /\ p + 1 - 1 = p
    BY <1>1, <2>1
  <2>3. \A j \in 1..Len(r) : r[j] = h[p + j - 1]
    BY <2>1, <2>2
  <2>4. r[1].kind = "question" /\ r[Len(r)] = h[Len(h)]
    <3>1. 1 \in 1..Len(r) /\ Len(r) \in 1..Len(r)
      BY <2>2
    <3>2. r[1] = h[p + 1 - 1] /\ r[Len(r)] = h[p + Len(r) - 1]
      BY <2>3, <3>1
    <3>. QED BY <2>1, <2>2, <3>2
  <2>5. ASSUME NEW i \in 1..Len(r) - 1
        PROVE  <<r[i].kind, r[i + 1].kind>> \in FOLLOWS
    <3>1. /\ i \in 1..Len(r) /\ i + 1 \in 1..Len(r) /\ p + i - 1 \in 1..Len(h) - 1
          /\ p + (i + 1) - 1 = (p + i - 1) + 1
      BY <2>2
    <3>2. r[i] = h[p + i - 1] /\ r[i + 1] = h[p + (i + 1) - 1]
      BY <2>3, <3>1
    <3>3. r[i + 1] = h[(p + i - 1) + 1]
      BY <3>1, <3>2
    <3>4. <<h[p + i - 1].kind, h[(p + i - 1) + 1].kind>> \in FOLLOWS
      BY <2>2, <3>1 DEF Complete, Chained
    <3>. QED BY <3>2, <3>3, <3>4
  <2>6. Complete(r)
    BY <2>2, <2>4, <2>5 DEF Complete, Chained
  <2>7. Recent(r)
    <3>1. PICK q \in 1..Len(h) : h[q].kind = "question" /\ Len(h) - q < 2 * MaxIterations
      BY <2>2 DEF Recent
    <3>2. p <= q
      BY <1>1, <2>1, <3>1
    <3>. DEFINE j == q - p + 1
    <3>3. j \in 1..Len(r) /\ p + j - 1 = q /\ Len(r) - j = Len(h) - q
      BY <2>1, <2>2, <3>1, <3>2
    <3>. HIDE DEF j
    <3>4. r[j].kind = "question" /\ Len(r) - j < 2 * MaxIterations
      BY <2>3, <3>1, <3>3
    <3>. QED BY <3>3, <3>4 DEF Recent
  <2>8. \A m : EndsIn(h, m) => EndsIn(r, m)
    BY <2>2, <2>4 DEF EndsIn
  <2>. QED BY <1>1, <2>6, <2>7, <2>8 DEF r
<1>5. \/ r = h
      \/ /\ r = <<>> /\ Len(h) > Limit
         /\ \A q \in 1..Len(h) : Len(h) - q < Limit => h[q].kind # "question"
      \/ \E p \in 1..Len(h) :
             /\ Len(h) - p < Limit /\ h[p].kind = "question"
             /\ \A q \in 1..Len(h) : Len(h) - q < Limit /\ h[q].kind = "question" => p <= q
             /\ Len(r) = Len(h) - p + 1
             /\ \A j \in 1..Len(h) - p + 1 : r[j] = h[p + j - 1]
  BY TruncateFrom
<1>. QED BY <1>2, <1>3, <1>4, <1>5

\* A thread that is loaded is whole exchanges, up to the last.
LEMMA LoadsExchanges ==
    ASSUME NEW c \in Chats, messages[c] \in Seq(Exchange)
    PROVE  LET h == LoadThread(c)
           IN  h \in Seq(Entries) /\ Complete(h) /\ Recent(h) /\ EndsIn(h, messages[c])
<1>. DEFINE h == LoadThread(c)
            n == Len(h)
<1>1. h \in Seq(Entries) /\ (messages[c] = <<>> => h = <<>>)
  BY LoadedThread
<1>2. CASE messages[c] = <<>>
  BY <1>1, <1>2 DEF Complete, Recent, EndsIn
<1>3. CASE messages[c] # <<>>
  <2>1. /\ n >= 2 /\ \A i \in 1..n : h[i].kind \in {"question", "answer"}
        /\ h[1].kind = "question" /\ h[n - 1].kind = "question"
        /\ \A i \in 1..n - 1 : h[i].kind # h[i + 1].kind
        /\ h[n] = [kind |-> "answer", turn |-> messages[c][Len(messages[c])].turn]
    BY <1>3, LoadedThread
  <2>2. h \in Seq(Entries) /\ n \in Nat /\ h # <<>>
    BY <1>1, <2>1
  <2>. HIDE DEF h, n
  <2>3. ASSUME NEW i \in 1..n - 1
        PROVE  <<h[i].kind, h[i + 1].kind>> \in FOLLOWS
    <3>1. i \in 1..n /\ i + 1 \in 1..n
      BY <2>2
    <3>2. h[i].kind \in {"question", "answer"} /\ h[i + 1].kind \in {"question", "answer"} /\ h[i].kind # h[i + 1].kind
      BY <2>1, <3>1
    <3>. QED BY <3>2 DEF FOLLOWS
  <2>4. n = Len(h)
    BY DEF n
  <2>5. Complete(h) /\ EndsIn(h, messages[c])
    BY <2>1, <2>2, <2>3, <2>4 DEF Complete, Chained, EndsIn
  <2>6. MaxIterations \in Nat \ {0}
    BY ConversationsAssumption
  <2>7. n - 1 \in 1..n /\ n - (n - 1) < 2 * MaxIterations
    BY <2>1, <2>2, <2>6
  <2>8. Recent(h)
    BY <2>1, <2>4, <2>7 DEF Recent
  <2>. QED BY <2>2, <2>5, <2>8 DEF h
<1>. QED BY <1>2, <1>3

\* What a session holds while turn t, in state k, is answered: what it held before,
\* the question, and what the rounds so far have said.
Asked(k, h, t) ==
    LET last == h[Len(h)]
        said == Len(h) - k.mark
    IN  /\ Complete(SubSeq(h, 1, k.mark)) /\ Recent(SubSeq(h, 1, k.mark)) /\ Chained(h)
        /\ h[k.mark + 1] = [kind |-> "question", turn |-> t]
        /\ k.pc = "gemini" => /\ last.kind \in {"question", "result"} /\ last.turn = t
                              /\ said <= 2 * k.round - 1
        /\ k.pc = "tools" => last.kind = "call" /\ said <= 2 * k.round
        /\ k.pc = "groq" => last.kind \in {"question", "result"} /\ said <= 2 * MaxIterations - 1
        /\ k.pc = "answered" => /\ last = [kind |-> "answer", turn |-> t]
                                /\ said <= 2 * MaxIterations

\* The question is appended to whole exchanges.
LEMMA AskedFirst ==
    ASSUME NEW h \in Seq(Entries), Complete(h), Recent(h), NEW t \in Turns,
           NEW v, v.pc = "gemini", v.mark = Len(h), v.round = 1
    PROVE  LET more == Append(h, [kind |-> "question", turn |-> t])
           IN  more \in Seq(Entries) /\ Asked(v, more, t) /\ SubSeq(more, 1, v.mark) = h
<1>. DEFINE e == [kind |-> "question", turn |-> t]
            more == Append(h, e)
<1>1. e \in Entries /\ e.kind = "question" /\ e.turn = t
  BY DEF Entries
<1>. HIDE DEF e
<1>2. h = <<>> \/ (h # <<>> /\ Chained(h) /\ <<h[Len(h)].kind, e.kind>> \in FOLLOWS)
  BY <1>1 DEF Complete, FOLLOWS
<1>3. /\ more \in Seq(Entries) /\ Len(more) = Len(h) + 1 /\ more[Len(h) + 1] = e /\ Chained(more)
      /\ SubSeq(more, 1, Len(h)) = h /\ Len(h) \in Nat
  BY <1>1, <1>2, ChainedMore, BaseKept
<1>. HIDE DEF more
<1>4. Len(more) - v.mark = 1 /\ 2 * v.round - 1 = 1 /\ v.mark + 1 = Len(more)
  BY <1>3
<1>5. SubSeq(more, 1, v.mark) = h
  BY <1>3
<1>6. more[v.mark + 1] = [kind |-> "question", turn |-> t]
  BY <1>3, <1>4 DEF e
<1>7. more[Len(more)].kind = "question" /\ more[Len(more)].turn = t
  BY <1>1, <1>3
<1>8. Asked(v, more, t)
  <2>1. Complete(SubSeq(more, 1, v.mark)) /\ Recent(SubSeq(more, 1, v.mark)) /\ Chained(more)
    BY <1>3, <1>5
  <2>2. Len(more) - v.mark <= 2 * v.round - 1
    BY <1>4
  <2>. QED BY <1>6, <1>7, <2>1, <2>2 DEF Asked
<1>. QED BY <1>3, <1>5, <1>8 DEF more, e

\* A round appends a call, its results or an answer, two entries at most.
LEMMA AskedOn ==
    ASSUME NEW k \in Turn, WellTyped(k), NEW h \in Seq(Entries), k.mark < Len(h), NEW t \in Turns, Asked(k, h, t),
           NEW v, NEW e, Advance(k, v, e)
    PROVE  /\ e = "nothing" => Asked(v, h, t)
           /\ e # "nothing" =>
                LET more == Append(h, [kind |-> e, turn |-> t])
                IN  Asked(v, more, t) /\ SubSeq(more, 1, k.mark) = SubSeq(h, 1, k.mark)
<1>1. /\ MaxIterations \in Nat /\ k.mark \in Nat /\ Len(h) \in Nat
      /\ v.mark = k.mark /\ k.pc \in HOLDING /\ k.round \in 1..MaxIterations
      /\ h # <<>> /\ k.mark \in 0..Len(h)
  <2>1. MaxIterations \in Nat /\ k.mark \in Nat /\ Len(h) \in Nat
    BY ConversationsAssumption DEF Turn
  <2>2. v.mark = k.mark /\ k.pc \in HOLDING
    BY DEF Advance, HOLDING
  <2>3. k.round \in 1..MaxIterations
    BY <2>2 DEF WellTyped
  <2>4. h # <<>> /\ k.mark \in 0..Len(h)
    BY <2>1
  <2>. QED BY <2>1, <2>2, <2>3, <2>4
<1>2. ASSUME e = "nothing"
      PROVE  Asked(v, h, t)
  <2>1. CASE k.pc = "gemini" /\ v.pc = "gemini" /\ v.round = k.round
    BY <1>1, <2>1 DEF Asked
  <2>2. CASE k.pc = "gemini" /\ v.pc = "groq"
    <3>1. 2 * k.round - 1 <= 2 * MaxIterations - 1 /\ Len(h) - k.mark <= 2 * k.round - 1
      BY <1>1, <2>2 DEF Asked
    <3>2. Len(h) - k.mark <= 2 * MaxIterations - 1
      BY <1>1, <3>1
    <3>. QED BY <1>1, <2>2, <3>2 DEF Asked
  <2>3. CASE k.pc = "groq" /\ v.pc = "groq"
    BY <1>1, <2>3 DEF Asked
  <2>. QED BY <1>2, <2>1, <2>2, <2>3 DEF Advance
<1>3. ASSUME e # "nothing"
      PROVE  LET more == Append(h, [kind |-> e, turn |-> t])
             IN  Asked(v, more, t) /\ SubSeq(more, 1, k.mark) = SubSeq(h, 1, k.mark)
  <2>. DEFINE x == [kind |-> e, turn |-> t]
              more == Append(h, x)
  <2>1. x \in Entries /\ x.kind = e /\ x.turn = t /\ e \in {"call", "result", "answer"}
    BY <1>3 DEF Entries, Advance
  <2>. HIDE DEF x
  <2>2. <<h[Len(h)].kind, e>> \in FOLLOWS /\ Chained(h)
    <3>1. \/ k.pc = "tools" /\ e = "result"
          \/ k.pc \in {"gemini", "groq"} /\ e = "answer"
          \/ k.pc = "gemini" /\ e = "call"
      BY <1>3 DEF Advance
    <3>. QED BY <3>1 DEF Asked, FOLLOWS
  <2>3. /\ more \in Seq(Entries) /\ Len(more) = Len(h) + 1 /\ more[Len(h) + 1] = x /\ Chained(more)
        /\ \A i \in 1..Len(h) : more[i] = h[i]
        /\ SubSeq(more, 1, k.mark) = SubSeq(h, 1, k.mark)
    BY <1>1, <2>1, <2>2, ChainedMore, BaseKept
  <2>. HIDE DEF more
  <2>4. k.mark + 1 \in 1..Len(h)
    BY <1>1
  <2>5. more[Len(more)] = x /\ more[v.mark + 1] = h[k.mark + 1]
    BY <1>1, <2>3, <2>4
  <2>6. Len(more) - v.mark = (Len(h) - k.mark) + 1
    BY <1>1, <2>3
  <2>7. /\ v.pc = "gemini" => e = "result" /\ Len(more) - v.mark <= 2 * v.round - 1
        /\ v.pc = "tools" => e = "call" /\ Len(more) - v.mark <= 2 * v.round
        /\ v.pc = "answered" => e = "answer" /\ Len(more) - v.mark <= 2 * MaxIterations
        /\ v.pc \in {"gemini", "tools", "answered"}
    <3>1. CASE k.pc = "gemini" /\ v.pc = "tools" /\ e = "call" /\ v.round = k.round
      <4>1. Len(h) - k.mark <= 2 * k.round - 1
        BY <3>1 DEF Asked
      <4>2. Len(more) - v.mark <= 2 * v.round
        BY <1>1, <2>6, <3>1, <4>1
      <4>. QED BY <3>1, <4>2
    <3>2. CASE k.pc = "tools" /\ v.pc = "gemini" /\ e = "result" /\ v.round = k.round + 1
      <4>1. Len(h) - k.mark <= 2 * k.round
        BY <3>2 DEF Asked
      <4>2. 2 * v.round - 1 = 2 * k.round + 1
        BY <1>1, <3>2
      <4>3. Len(more) - v.mark <= 2 * v.round - 1
        BY <1>1, <2>6, <4>1, <4>2
      <4>. QED BY <3>2, <4>3
    <3>3. CASE k.pc \in {"gemini", "groq"} /\ v.pc = "answered" /\ e = "answer"
      <4>1. Len(h) - k.mark <= 2 * k.round - 1 \/ Len(h) - k.mark <= 2 * MaxIterations - 1
        BY <3>3 DEF Asked
      <4>2. 2 * k.round - 1 <= 2 * MaxIterations - 1
        BY <1>1
      <4>3. Len(h) - k.mark <= 2 * MaxIterations - 1
        BY <1>1, <4>1, <4>2
      <4>4. Len(more) - v.mark <= 2 * MaxIterations
        BY <1>1, <2>6, <4>3
      <4>. QED BY <3>3, <4>4
    <3>. QED BY <1>3, <3>1, <3>2, <3>3 DEF Advance
  <2>8. v.pc = "answered" => more[Len(more)] = [kind |-> "answer", turn |-> t]
    BY <2>5, <2>7 DEF x
  <2>9. Asked(v, more, t)
    BY <1>1, <2>1, <2>3, <2>5, <2>7, <2>8 DEF Asked
  <2>. QED BY <2>3, <2>9 DEF more, x
<1>. QED BY <1>2, <1>3

\* With the answer, the exchange is whole, and short enough to survive the next cut.
LEMMA AskedAndAnswered ==
    ASSUME NEW k \in Turn, NEW h \in Seq(Entries), k.mark < Len(h), NEW t \in Turns, Asked(k, h, t), k.pc = "answered"
    PROVE  Complete(h) /\ Recent(h) /\ h # <<>> /\ h[Len(h)] = [kind |-> "answer", turn |-> t]
<1>1. k.mark \in Nat /\ Len(h) \in Nat /\ h # <<>> /\ MaxIterations \in Nat
  BY ConversationsAssumption DEF Turn
<1>2. /\ h[Len(h)] = [kind |-> "answer", turn |-> t] /\ h[k.mark + 1] = [kind |-> "question", turn |-> t]
      /\ Len(h) - k.mark <= 2 * MaxIterations /\ Chained(h)
  BY DEF Asked
<1>3. k.mark + 1 \in 1..Len(h) /\ Len(h) - (k.mark + 1) < 2 * MaxIterations
  BY <1>1, <1>2
<1>4. h[Len(h)].kind = "answer" /\ h[k.mark + 1].kind = "question"
  BY <1>2
<1>. QED BY <1>1, <1>2, <1>3, <1>4 DEF Complete, Recent

-----------------------------------------------------------------------------
(* Sessions in step with their threads.                                    *)

\* A chat that never had two sessions in use has one.
Single == \A c \in Chats \ split, s, r \in Turns : InUse(c, s) /\ InUse(c, r) => s = r

Between ==
    \A c \in Chats, s \in Turns : InUse(c, s) /\ Unlocked(s) /\ s \notin cut =>
      /\ Complete(hist[s]) /\ Recent(hist[s])
      /\ s \notin blind /\ c \notin split => hist[s] = <<>> \/ EndsIn(hist[s], messages[c])

During ==
    \A t \in Turns :
      LET c == turn[t].chat
          s == turn[t].session
      IN  turn[t].pc \in HOLDING /\ s \notin cut =>
            /\ Asked(turn[t], hist[s], t)
            /\ s \notin blind /\ c \notin split => EndsIn(SubSeq(hist[s], 1, turn[t].mark), messages[c])

ContextInv == Single /\ Between /\ During

\* Nothing is said, and what is idle was idle, or is empty, or was left.
LEMMA Aside ==
    ASSUME Owned, ContextInv, UNCHANGED hist, Single',
           \A d \in Chats, r \in Turns : InUse(d, r)' /\ Unlocked(r)' =>
             (InUse(d, r) /\ Unlocked(r)) \/ hist[r] = <<>> \/ r \in cut',
           \A u \in Turns : turn'[u].pc \in HOLDING => turn'[u] = turn[u],
           \A d \in Chats : messages'[d] = messages[d] \/ messages'[d] = <<>>,
           cut \subseteq cut', blind \subseteq blind', split \subseteq split'
    PROVE  ContextInv'
<1>1. Between'
  <2>. SUFFICES ASSUME NEW d \in Chats, NEW r \in Turns, InUse(d, r)', Unlocked(r)', r \notin cut'
                PROVE  /\ Complete(hist[r]) /\ Recent(hist[r])
                       /\ r \notin blind' /\ d \notin split' => hist[r] = <<>> \/ EndsIn(hist[r], messages'[d])
    BY DEF Between
  <2>1. CASE hist[r] = <<>>
    BY <2>1 DEF Complete, Recent
  <2>2. CASE hist[r] # <<>>
    <3>1. InUse(d, r) /\ Unlocked(r) /\ r \notin cut
      BY <2>2
    <3>2. /\ Complete(hist[r]) /\ Recent(hist[r])
          /\ r \notin blind /\ d \notin split => hist[r] = <<>> \/ EndsIn(hist[r], messages[d])
      BY <3>1 DEF ContextInv, Between
    <3>3. messages'[d] = <<>> => EndsIn(hist[r], messages'[d])
      BY DEF EndsIn
    <3>4. messages'[d] = messages[d] => (EndsIn(hist[r], messages[d]) => EndsIn(hist[r], messages'[d]))
      BY DEF EndsIn
    <3>. QED BY <3>2, <3>3, <3>4
  <2>. QED BY <2>1, <2>2
<1>2. During'
  <2>. SUFFICES ASSUME NEW u \in Turns, turn'[u].pc \in HOLDING, turn'[u].session \notin cut'
                PROVE  /\ Asked(turn'[u], hist'[turn'[u].session], u)
                       /\ turn'[u].session \notin blind' /\ turn'[u].chat \notin split' =>
                            EndsIn(SubSeq(hist'[turn'[u].session], 1, turn'[u].mark), messages'[turn'[u].chat])
    BY DEF During
  <2>. DEFINE c == turn[u].chat
              s == turn[u].session
              h == SubSeq(hist[s], 1, turn[u].mark)
  <2>1. turn'[u] = turn[u] /\ turn[u].pc \in HOLDING /\ s \notin cut /\ hist' = hist
    OBVIOUS
  <2>2. c \in Chats
    BY <2>1, Holding DEF Taken
  <2>3. Asked(turn[u], hist[s], u) /\ (s \notin blind /\ c \notin split => EndsIn(h, messages[c]))
    BY <2>1 DEF ContextInv, During
  <2>4. EndsIn(h, messages[c]) => EndsIn(h, messages'[c])
    <3>1. messages'[c] = messages[c] \/ messages'[c] = <<>>
      BY <2>2
    <3>. HIDE DEF h
    <3>. QED BY <3>1 DEF EndsIn
  <2>5. Asked(turn'[u], hist'[turn'[u].session], u)
    BY <2>1, <2>3
  <2>6. turn'[u].session \notin blind' /\ turn'[u].chat \notin split' => EndsIn(h, messages'[c])
    BY <2>1, <2>3, <2>4
  <2>7. messages'[turn'[u].chat] = messages'[c] /\ SubSeq(hist'[turn'[u].session], 1, turn'[u].mark) = h
    BY <2>1
  <2>. QED BY <2>5, <2>6, <2>7
<1>. QED BY <1>1, <1>2 DEF ContextInv

\* Who loses a session gives nobody a second one.
LEMMA StaysSingle ==
    ASSUME Single, \A d \in Chats, r \in Turns : InUse(d, r)' => InUse(d, r), split \subseteq split'
    PROVE  Single'
BY DEF Single

\* Turn t says something in its session, or leaves it.
LEMMA InSession ==
    ASSUME Owned, ContextInv, NEW t \in Turns, NEW c \in Chats, NEW s \in Turns, InUse(c, s),
           \A u \in Turns \ {t} : turn'[u] = turn[u] /\ (turn[u].pc \in HOLDING => turn[u].session # s),
           turn[t].session = s,
           turn'[t].pc \in HOLDING => turn'[t].chat = c /\ turn'[t].session = s,
           \A r \in Turns \ {s} : hist'[r] = hist[r],
           \A d \in Chats \ {c} : messages'[d] = messages[d],
           \A d \in Chats, r \in Turns : InUse(d, r)' => InUse(d, r),
           UNCHANGED <<cut, split>>, blind \subseteq blind',
           s \notin cut /\ turn'[t].pc \in HOLDING =>
             /\ Asked(turn'[t], hist'[s], t)
             /\ s \notin blind' /\ c \notin split => EndsIn(SubSeq(hist'[s], 1, turn'[t].mark), messages'[c]),
           s \notin cut /\ turn'[t].pc \notin HOLDING =>
             /\ Complete(hist'[s]) /\ Recent(hist'[s])
             /\ s \notin blind' /\ c \notin split => hist'[s] = <<>> \/ EndsIn(hist'[s], messages'[c])
    PROVE  ContextInv'
<1>1. Single'
  BY StaysSingle DEF ContextInv
<1>2. ASSUME NEW d \in Chats, NEW r \in Turns, r # s, InUse(d, r), d \notin split
      PROVE  messages'[d] = messages[d]
  BY <1>2 DEF ContextInv, Single
<1>3. Between'
  <2>. SUFFICES ASSUME NEW d \in Chats, NEW r \in Turns, InUse(d, r)', Unlocked(r)', r \notin cut
                PROVE  /\ Complete(hist'[r]) /\ Recent(hist'[r])
                       /\ r \notin blind' /\ d \notin split => hist'[r] = <<>> \/ EndsIn(hist'[r], messages'[d])
    BY DEF Between
  <2>1. CASE r = s
    <3>1. d = c
      BY <2>1 DEF Owned, Sessioned
    <3>2. turn'[t].pc \notin HOLDING
      BY <2>1 DEF Unlocked
    <3>. QED BY <2>1, <3>1, <3>2
  <2>2. CASE r # s
    <3>1. Unlocked(r)
      <4>. SUFFICES ASSUME NEW u \in Turns, turn[u].session = r PROVE turn[u].pc \notin HOLDING
        BY DEF Unlocked
      <4>1. u # t
        BY <2>2
      <4>. QED BY <4>1 DEF Unlocked
    <3>2. /\ Complete(hist[r]) /\ Recent(hist[r])
          /\ r \notin blind /\ d \notin split => hist[r] = <<>> \/ EndsIn(hist[r], messages[d])
      BY <3>1 DEF ContextInv, Between
    <3>3. hist'[r] = hist[r] /\ (d \notin split => messages'[d] = messages[d])
      BY <1>2, <2>2
    <3>. QED BY <3>2, <3>3
  <2>. QED BY <2>1, <2>2
<1>4. During'
  <2>. SUFFICES ASSUME NEW u \in Turns, turn'[u].pc \in HOLDING, turn'[u].session \notin cut
                PROVE  /\ Asked(turn'[u], hist'[turn'[u].session], u)
                       /\ turn'[u].session \notin blind' /\ turn'[u].chat \notin split =>
                            EndsIn(SubSeq(hist'[turn'[u].session], 1, turn'[u].mark), messages'[turn'[u].chat])
    BY DEF During
  <2>1. CASE u = t
    BY <2>1
  <2>2. CASE u # t
    <3>. DEFINE d == turn[u].chat
                r == turn[u].session
    <3>1. turn'[u] = turn[u] /\ turn[u].pc \in HOLDING /\ r # s /\ r \notin cut
      BY <2>2
    <3>2. d \in Chats /\ r \in Turns /\ InUse(d, r)
      BY <3>1, Holding DEF Taken
    <3>3. Asked(turn[u], hist[r], u) /\ (r \notin blind /\ d \notin split => EndsIn(SubSeq(hist[r], 1, turn[u].mark), messages[d]))
      BY <3>1 DEF ContextInv, During
    <3>4. hist'[r] = hist[r] /\ (d \notin split => messages'[d] = messages[d])
      BY <1>2, <3>1, <3>2
    <3>5. Asked(turn'[u], hist'[turn'[u].session], u)
      BY <3>1, <3>3, <3>4
    <3>6. r \notin blind' /\ d \notin split => EndsIn(SubSeq(hist'[r], 1, turn[u].mark), messages'[d])
      BY <3>3, <3>4
    <3>. QED BY <3>1, <3>5, <3>6
  <2>. QED BY <2>1, <2>2
<1>. QED BY <1>1, <1>3, <1>4 DEF ContextInv

\* Nobody takes a session.
LEMMA UsesEnd ==
    ASSUME \A d \in Chats, r \in Turns : Cached(d, r)' => Cached(d, r),
           \A u \in Turns : turn'[u].pc \in Taken =>
             turn[u].pc \in Taken /\ turn'[u].chat = turn[u].chat /\ turn'[u].session = turn[u].session
    PROVE  \A d \in Chats, r \in Turns : InUse(d, r)' => InUse(d, r)
<1>1. \A d \in Chats, r \in Turns : TakenBy(d, r)' => TakenBy(d, r)
  BY DEF TakenBy
<1>. QED BY <1>1 DEF InUse

\* The lock of a session is held once.
LEMMA HoldsAlone ==
    ASSUME Owned, NEW t \in Turns,
           turn[t].pc \in HOLDING \/ (turn[t].pc = "waiting" /\ Unlocked(turn[t].session))
    PROVE  \A u \in Turns \ {t} : turn[u].pc \in HOLDING => turn[u].session # turn[t].session
BY DEF Owned, Sessioned, Unlocked

\* A warm session ends in the thread's last exchange; a cold one is loaded up to it.
LEMMA StartInContext ==
    ASSUME Owned, ContextInv, NEW t \in Turns, Start(t)
    PROVE  ContextInv'
<1>. DEFINE s == turn[t].session
            c == turn[t].chat
            x == [kind |-> "question", turn |-> t]
            loaded == LoadThread(c)
<1>1. turn[t].pc = "waiting" /\ Unlocked(s) /\ UNCHANGED <<tables, cache, cut, split>> /\ turn[t].pc \in Taken
  BY DEF Start, Taken
<1>2. PICK h \in {hist[s], loaded} :
        /\ IF Cold(t) THEN IF h = loaded THEN UNCHANGED blind ELSE blind' = blind \cup {s}
           ELSE h = hist[s] /\ UNCHANGED blind
        /\ hist' = [hist EXCEPT ![s] = Append(Truncate(h), x)]
        /\ turn' = [turn EXCEPT ![t].pc = "gemini", ![t].mark = Len(Truncate(h)), ![t].round = 1, ![t].attempt = 1]
  BY DEF Start
<1>3. /\ s \in Turns /\ c \in Chats /\ hist \in [Turns -> Seq(Entries)] /\ turn \in [Turns -> Turn]
      /\ hist[s] \in Seq(Entries) /\ messages[c] \in Seq(Exchange) /\ turn[t] \in Turn /\ InUse(c, s)
  BY <1>1, Holding
<1>. DEFINE v == [turn[t] EXCEPT !.pc = "gemini", !.mark = Len(Truncate(h)), !.round = 1, !.attempt = 1]
<1>4. turn' = [turn EXCEPT ![t] = v]
  BY <1>2, <1>3
<1>5. v.pc = "gemini" /\ v.chat = c /\ v.session = s /\ v.mark = Len(Truncate(h)) /\ v.round = 1
  BY <1>3 DEF Turn
<1>. HIDE DEF v
<1>6. turn'[t] = v /\ \A u \in Turns \ {t} : turn'[u] = turn[u]
  BY <1>3, <1>4
<1>7. \A u \in Turns \ {t} : turn[u].pc \in HOLDING => turn[u].session # s
  BY <1>1, HoldsAlone
<1>8. \A d \in Chats, r \in Turns : InUse(d, r)' => InUse(d, r)
  <2>1. \A d \in Chats, r \in Turns : Cached(d, r)' => Cached(d, r)
    BY <1>1 DEF Cached
  <2>. QED BY <1>1, <1>5, <1>6, <2>1, UsesEnd
<1>9. ASSUME s \notin cut
      PROVE  /\ h \in Seq(Entries) /\ Complete(h) /\ Recent(h)
             /\ s \notin blind' /\ c \notin split => EndsIn(h, messages[c])
  <2>1. /\ Complete(hist[s]) /\ Recent(hist[s])
        /\ s \notin blind /\ c \notin split => hist[s] = <<>> \/ EndsIn(hist[s], messages[c])
    BY <1>1, <1>3, <1>9 DEF ContextInv, Between
  <2>2. loaded \in Seq(Entries) /\ Complete(loaded) /\ Recent(loaded) /\ EndsIn(loaded, messages[c])
    BY <1>3, LoadsExchanges
  <2>. HIDE DEF loaded
  <2>3. CASE h = loaded /\ Cold(t)
    BY <2>2, <2>3
  <2>4. CASE h # loaded /\ Cold(t)
    <3>1. h = hist[s] /\ s \in blind'
      BY <1>2, <2>4
    <3>. QED BY <1>3, <2>1, <3>1
  <2>5. CASE ~Cold(t)
    <3>1. h = hist[s] /\ blind' = blind /\ hist[s] # <<>>
      BY <1>2, <2>5 DEF Cold
    <3>. QED BY <1>3, <2>1, <3>1
  <2>. QED BY <2>3, <2>4, <2>5
<1>10. blind \subseteq blind'
  BY <1>2
<1>11. \A r \in Turns \ {s} : hist'[r] = hist[r]
  BY <1>2, <1>3
<1>12. hist'[s] = Append(Truncate(h), x)
  BY <1>2, <1>3
<1>13. ASSUME s \notin cut
       PROVE  /\ Asked(turn'[t], hist'[s], t)
              /\ s \notin blind' /\ c \notin split => EndsIn(SubSeq(hist'[s], 1, turn'[t].mark), messages'[c])
  <2>1. /\ Truncate(h) \in Seq(Entries) /\ Complete(Truncate(h)) /\ Recent(Truncate(h))
        /\ s \notin blind' /\ c \notin split => EndsIn(Truncate(h), messages[c])
    BY <1>9, <1>13, CutsAtQuestions
  <2>2. Asked(v, hist'[s], t) /\ SubSeq(hist'[s], 1, v.mark) = Truncate(h)
    BY <1>5, <1>12, <2>1, AskedFirst
  <2>3. messages' = messages
    BY <1>1 DEF tables
  <2>. QED BY <1>6, <2>1, <2>2, <2>3
<1>14. turn'[t].pc \in HOLDING /\ turn'[t].chat = c /\ turn'[t].session = s
  BY <1>5, <1>6 DEF HOLDING
<1>15. \A d \in Chats \ {c} : messages'[d] = messages[d]
  BY <1>1 DEF tables
<1>16. \A u \in Turns \ {t} : turn'[u] = turn[u] /\ (turn[u].pc \in HOLDING => turn[u].session # s)
  BY <1>6, <1>7
<1>17. turn[t].session = s /\ UNCHANGED <<cut, split>> /\ c \in Chats /\ s \in Turns /\ InUse(c, s)
  BY <1>1, <1>3
<1>. HIDE DEF s, c
<1>. QED BY <1>8, <1>10, <1>11, <1>13, <1>14, <1>15, <1>16, <1>17, InSession

\* Rolled back, the session is what it was when the lock was taken.
LEMMA GiveUpInContext ==
    ASSUME Owned, ContextInv, NEW t \in Turns, turn[t].pc \in HOLDING, GiveUp(t),
           UNCHANGED <<tables, cache, cut, blind, split>>
    PROVE  ContextInv'
<1>. DEFINE s == turn[t].session
            c == turn[t].chat
            base == SubSeq(hist[s], 1, turn[t].mark)
<1>1. /\ s \in Turns /\ c \in Chats /\ hist \in [Turns -> Seq(Entries)] /\ turn \in [Turns -> Turn] /\ InUse(c, s)
  BY Holding DEF Taken
<1>2. hist'[s] = base /\ \A r \in Turns \ {s} : hist'[r] = hist[r]
  BY <1>1 DEF GiveUp
<1>3. turn'[t] = Ended /\ \A u \in Turns \ {t} : turn'[u] = turn[u]
  BY <1>1 DEF GiveUp
<1>4. turn'[t].pc \notin HOLDING /\ turn'[t].pc \notin Taken
  BY <1>3, EndedTyped DEF HOLDING, Taken
<1>5. \A u \in Turns \ {t} : turn[u].pc \in HOLDING => turn[u].session # s
  BY HoldsAlone
<1>6. \A d \in Chats, r \in Turns : InUse(d, r)' => InUse(d, r)
  <2>1. \A d \in Chats, r \in Turns : Cached(d, r)' => Cached(d, r)
    BY DEF Cached
  <2>. QED BY <1>3, <1>4, <2>1, UsesEnd
<1>7. ASSUME s \notin cut
      PROVE  /\ Complete(base) /\ Recent(base)
             /\ s \notin blind /\ c \notin split => EndsIn(base, messages[c])
  BY <1>7 DEF ContextInv, During, Asked
<1>8. messages' = messages
  BY DEF tables
<1>9. s \notin cut /\ turn'[t].pc \notin HOLDING =>
             /\ Complete(hist'[s]) /\ Recent(hist'[s])
             /\ s \notin blind' /\ c \notin split => hist'[s] = <<>> \/ EndsIn(hist'[s], messages'[c])
  <2>. HIDE DEF base
  <2>. QED BY <1>2, <1>7, <1>8
<1>10. \A u \in Turns \ {t} : turn'[u] = turn[u] /\ (turn[u].pc \in HOLDING => turn[u].session # s)
  BY <1>3, <1>5
<1>11. turn[t].session = s /\ UNCHANGED <<cut, split>> /\ blind \subseteq blind'
  OBVIOUS
<1>12. \A r \in Turns \ {s} : hist'[r] = hist[r]
  BY <1>2
<1>. HIDE DEF s, c, base
<1>. QED BY <1>1, <1>4, <1>6, <1>8, <1>9, <1>10, <1>11, <1>12, InSession

\* What is below the mark is not touched by a round.
LEMMA GoingInContext ==
    ASSUME Owned, ContextInv, NEW t \in Turns, turn[t].pc \in HOLDING, Going(t),
           UNCHANGED <<tables, cache, cut, blind, split>>
    PROVE  ContextInv'
<1>. DEFINE s == turn[t].session
            c == turn[t].chat
            k == turn[t]
<1>1. PICK v, e : /\ Advance(k, v, e) /\ turn' = [turn EXCEPT ![t] = v]
                  /\ IF e = "nothing" THEN UNCHANGED hist ELSE Says(t, e)
  BY DEF Going
<1>2. /\ s \in Turns /\ c \in Chats /\ hist \in [Turns -> Seq(Entries)] /\ turn \in [Turns -> Turn] /\ InUse(c, s)
      /\ k \in Turn /\ WellTyped(k) /\ hist[s] \in Seq(Entries) /\ k.mark < Len(hist[s]) /\ k.pc \in Taken
  BY Holding DEF Taken
<1>3. turn'[t] = v /\ \A u \in Turns \ {t} : turn'[u] = turn[u]
  BY <1>1, <1>2
<1>4. v.chat = c /\ v.session = s /\ v.mark = k.mark /\ v.pc \in HOLDING
  BY <1>1 DEF Advance, HOLDING
<1>5. \A u \in Turns \ {t} : turn[u].pc \in HOLDING => turn[u].session # s
  BY HoldsAlone
<1>6. \A d \in Chats, r \in Turns : InUse(d, r)' => InUse(d, r)
  <2>1. \A d \in Chats, r \in Turns : Cached(d, r)' => Cached(d, r)
    BY DEF Cached
  <2>. QED BY <1>2, <1>3, <1>4, <2>1, UsesEnd
<1>7. messages' = messages
  BY DEF tables
<1>8. ASSUME s \notin cut
      PROVE  /\ Asked(turn'[t], hist'[s], t)
             /\ s \notin blind' /\ c \notin split => EndsIn(SubSeq(hist'[s], 1, turn'[t].mark), messages'[c])
  <2>1. Asked(k, hist[s], t) /\ (s \notin blind /\ c \notin split => EndsIn(SubSeq(hist[s], 1, k.mark), messages[c]))
    BY <1>8 DEF ContextInv, During
  <2>2. CASE e = "nothing"
    <3>1. Asked(v, hist[s], t) /\ hist' = hist
      BY <1>1, <1>2, <2>1, <2>2, AskedOn
    <3>. QED BY <1>3, <1>4, <1>7, <2>1, <3>1
  <2>3. CASE e # "nothing"
    <3>. DEFINE more == Append(hist[s], [kind |-> e, turn |-> t])
    <3>1. Asked(v, more, t) /\ SubSeq(more, 1, k.mark) = SubSeq(hist[s], 1, k.mark)
      BY <1>1, <1>2, <2>1, <2>3, AskedOn
    <3>2. hist'[s] = more
      BY <1>1, <1>2, <2>3 DEF Says
    <3>. HIDE DEF more
    <3>. QED BY <1>3, <1>4, <1>7, <2>1, <3>1, <3>2
  <2>. QED BY <2>2, <2>3
<1>9. \A r \in Turns \ {s} : hist'[r] = hist[r]
  BY <1>1, <1>2 DEF Says
<1>10. \A u \in Turns \ {t} : turn'[u] = turn[u] /\ (turn[u].pc \in HOLDING => turn[u].session # s)
  BY <1>3, <1>5
<1>11. turn[t].session = s /\ UNCHANGED <<cut, split>> /\ blind \subseteq blind'
  OBVIOUS
<1>12. turn'[t].pc \in HOLDING /\ turn'[t].chat = c /\ turn'[t].session = s
  BY <1>3, <1>4
<1>. HIDE DEF s, c, k
<1>. QED BY <1>2, <1>6, <1>7, <1>8, <1>9, <1>10, <1>11, <1>12, InSession

\* What was answered is stored, or the session is known to have missed it.
LEMMA SavedInContext ==
    ASSUME Owned, ContextInv, NEW t \in Turns, turn[t].pc = "answered", turn' = [turn EXCEPT ![t] = Ended],
           UNCHANGED <<cache, hist, cut, split>>,
           \/ Save(t) /\ UNCHANGED blind
           \/ blind' = blind \cup {turn[t].session} /\ UNCHANGED tables
    PROVE  ContextInv'
<1>. DEFINE s == turn[t].session
            c == turn[t].chat
            k == turn[t]
            x == [turn |-> t, text |-> turn[t].screen]
<1>1. k.pc \in Taken /\ k.pc \in HOLDING
  BY DEF Taken, HOLDING
<1>2. /\ s \in Turns /\ c \in Chats /\ turn \in [Turns -> Turn] /\ InUse(c, s)
      /\ k \in Turn /\ hist[s] \in Seq(Entries) /\ k.mark < Len(hist[s]) /\ messages[c] \in Seq(Exchange)
  BY <1>1, Holding
<1>3. turn'[t] = Ended /\ \A u \in Turns \ {t} : turn'[u] = turn[u]
  BY <1>2
<1>4. turn'[t].pc \notin HOLDING /\ turn'[t].pc \notin Taken
  BY <1>3, EndedTyped DEF HOLDING, Taken
<1>5. \A u \in Turns \ {t} : turn[u].pc \in HOLDING => turn[u].session # s
  BY <1>1, HoldsAlone
<1>6. \A d \in Chats, r \in Turns : InUse(d, r)' => InUse(d, r)
  <2>1. \A d \in Chats, r \in Turns : Cached(d, r)' => Cached(d, r)
    BY DEF Cached
  <2>. QED BY <1>3, <1>4, <2>1, UsesEnd
<1>7. CASE Save(t) /\ chat[c] # "deleted" /\ UNCHANGED blind
  <2>1. messages' = [messages EXCEPT ![c] = Append(@, x)] /\ x.turn = t
    BY <1>7 DEF Save
  <2>2. x \in Exchange
    BY <1>2 DEF Exchange, Turn
  <2>. HIDE DEF x
  <2>3. /\ \A d \in Chats \ {c} : messages'[d] = messages[d]
        /\ messages'[c] = Append(messages[c], x)
    BY <1>2, <2>1 DEF Owned, Types
  <2>4. messages'[c][Len(messages'[c])].turn = t
    BY <1>2, <2>1, <2>2, <2>3
  <2>5. ASSUME s \notin cut
        PROVE  Complete(hist[s]) /\ Recent(hist[s]) /\ EndsIn(hist[s], messages'[c])
    <3>1. Asked(k, hist[s], t)
      BY <1>1, <2>5 DEF ContextInv, During
    <3>2. /\ Complete(hist[s]) /\ Recent(hist[s]) /\ hist[s] # <<>>
          /\ hist[s][Len(hist[s])] = [kind |-> "answer", turn |-> t]
      BY <1>2, <3>1, AskedAndAnswered
    <3>. QED BY <2>4, <3>2 DEF EndsIn
  <2>6. hist'[s] = hist[s] /\ turn[t].session = s /\ \A r \in Turns \ {s} : hist'[r] = hist[r]
    OBVIOUS
  <2>7. \A u \in Turns \ {t} : turn'[u] = turn[u] /\ (turn[u].pc \in HOLDING => turn[u].session # s)
    BY <1>3, <1>5
  <2>8. UNCHANGED <<cut, split>> /\ blind \subseteq blind' /\ c \in Chats /\ s \in Turns /\ InUse(c, s)
    BY <1>2, <1>7
  <2>9. s \notin cut /\ turn'[t].pc \notin HOLDING =>
             /\ Complete(hist'[s]) /\ Recent(hist'[s])
             /\ s \notin blind' /\ c \notin split => hist'[s] = <<>> \/ EndsIn(hist'[s], messages'[c])
    BY <2>5, <2>6
  <2>10. \A d \in Chats \ {c} : messages'[d] = messages[d]
    BY <2>3
  <2>. HIDE DEF s, c, k
  <2>. QED BY <1>4, <1>6, <2>6, <2>7, <2>8, <2>9, <2>10, InSession
<1>8. CASE UNCHANGED tables /\ blind \subseteq blind' /\ (s \in blind' \/ chat[c] = "deleted")
  <2>1. messages' = messages
    BY <1>8 DEF tables
  <2>2. s \in blind' \/ EndsIn(hist[s], messages'[c])
    <3>1. chat[c] = "deleted" => messages[c] = <<>>
      BY <1>2 DEF Owned, Types
    <3>. QED BY <1>8, <2>1, <3>1 DEF EndsIn
  <2>3. ASSUME s \notin cut
        PROVE  Complete(hist[s]) /\ Recent(hist[s])
    <3>1. Asked(k, hist[s], t)
      BY <1>1, <2>3 DEF ContextInv, During
    <3>. QED BY <1>2, <3>1, AskedAndAnswered
  <2>4. hist'[s] = hist[s] /\ turn[t].session = s /\ \A r \in Turns \ {s} : hist'[r] = hist[r]
    OBVIOUS
  <2>5. \A u \in Turns \ {t} : turn'[u] = turn[u] /\ (turn[u].pc \in HOLDING => turn[u].session # s)
    BY <1>3, <1>5
  <2>6. UNCHANGED <<cut, split>> /\ blind \subseteq blind' /\ c \in Chats /\ s \in Turns /\ InUse(c, s)
    BY <1>2, <1>8
  <2>7. s \notin cut /\ turn'[t].pc \notin HOLDING =>
             /\ Complete(hist'[s]) /\ Recent(hist'[s])
             /\ s \notin blind' /\ c \notin split => hist'[s] = <<>> \/ EndsIn(hist'[s], messages'[c])
    BY <2>2, <2>3, <2>4
  <2>. HIDE DEF s, c, k
  <2>. QED BY <1>4, <1>6, <2>1, <2>4, <2>5, <2>6, <2>7, InSession
<1>9. Save(t) /\ chat[c] = "deleted" => UNCHANGED tables
  BY DEF Save
<1>. QED BY <1>7, <1>8, <1>9

\* No session is taken, and a lock that is let go was held by a turn that was left.
LEMMA NobodySpeaks ==
    ASSUME Owned, ContextInv, UNCHANGED hist,
           \A d \in Chats, r \in Turns : InUse(d, r)' => InUse(d, r),
           \A r \in Turns : Unlocked(r)' => Unlocked(r) \/ r \in cut' \/ \A d \in Chats : ~InUse(d, r)',
           \A u \in Turns : turn'[u].pc \in HOLDING => turn'[u] = turn[u],
           \A d \in Chats : messages'[d] = messages[d] \/ messages'[d] = <<>>,
           cut \subseteq cut', blind \subseteq blind', split \subseteq split'
    PROVE  ContextInv'
<1>1. Single'
  BY StaysSingle DEF ContextInv
<1>2. \A d \in Chats, r \in Turns : InUse(d, r)' /\ Unlocked(r)' =>
        (InUse(d, r) /\ Unlocked(r)) \/ hist[r] = <<>> \/ r \in cut'
  OBVIOUS
<1>. QED BY <1>1, <1>2, Aside

\* No lock is taken or let go.
LEMMA QuietSteps ==
    ASSUME Owned, ContextInv, UNCHANGED <<hist, cut, blind, split>>,
           \A d \in Chats : messages'[d] = messages[d] \/ messages'[d] = <<>>,
           \A d \in Chats, r \in Turns : Cached(d, r)' => Cached(d, r),
           \A u \in Turns : \/ turn'[u] = turn[u]
                            \/ turn'[u].pc \notin Taken /\ turn[u].pc \notin HOLDING
    PROVE  ContextInv'
<1>1. \A u \in Turns : turn'[u].pc \in Taken => turn'[u] = turn[u]
  OBVIOUS
<1>2. \A d \in Chats, r \in Turns : InUse(d, r)' => InUse(d, r)
  BY <1>1, UsesEnd
<1>3. \A r \in Turns : Unlocked(r)' => Unlocked(r)
  BY DEF Unlocked
<1>4. \A u \in Turns : turn'[u].pc \in HOLDING => turn'[u] = turn[u]
  BY <1>1 DEF Taken
<1>. QED BY <1>2, <1>3, <1>4, NobodySpeaks

\* A new session is empty, and a second one of its chat is noted in split.
LEMMA GettingInContext ==
    ASSUME Owned, ContextInv, NEW t \in Turns, GetSession(t), NEW c, c = turn[t].chat
    PROVE  ContextInv'
<1>1. turn[t].pc = "owned" /\ c \in Chats /\ hist[t] = <<>>
  BY GetsOne
<1>2. PICK s \in Turns : Gets(t, c, s)
  BY GetsOne
<1>3. PICK late \in BOOLEAN : turn' = [turn EXCEPT ![t].pc = "waiting", ![t].session = s, ![t].late = late]
  BY <1>2 DEF Gets
<1>4. turn[t] \in Turn /\ turn \in [Turns -> Turn]
  BY DEF Owned, Types
<1>5. /\ turn'[t].pc = "waiting" /\ turn'[t].session = s /\ turn'[t].chat = c
      /\ \A u \in Turns \ {t} : turn'[u] = turn[u]
  <2>. DEFINE v == [turn[t] EXCEPT !.pc = "waiting", !.session = s, !.late = late]
  <2>1. turn' = [turn EXCEPT ![t] = v]
    BY <1>3, <1>4
  <2>2. v.pc = "waiting" /\ v.session = s /\ v.chat = c
    BY <1>4 DEF Turn
  <2>. HIDE DEF v
  <2>. QED BY <1>4, <2>1, <2>2
<1>6. /\ s = t \/ Cached(c, s)
      /\ \A d \in Chats, r \in Turns : Cached(d, r)' => (d = c /\ r = s) \/ (Cached(d, r) /\ d # c)
      /\ split' = IF Sessions(c) \subseteq {s} THEN split ELSE split \cup {c}
  BY <1>2 DEF Gets
<1>7. UNCHANGED <<tables, hist, cut, blind>>
  BY DEF GetSession
<1>8. /\ \A d \in Chats, r \in Turns : InUse(d, r)' => (d = c /\ r = s) \/ InUse(d, r)
      /\ \A d \in Chats : InUse(d, s) => d = c
  BY <1>5, <1>6, GettingUses
<1>9. Single'
  <2>. SUFFICES ASSUME NEW d \in Chats \ split', NEW p \in Turns, NEW q \in Turns, InUse(d, p)', InUse(d, q)'
                PROVE  p = q
    BY DEF Single
  <2>1. d \notin split
    BY <1>6
  <2>2. CASE d # c
    <3>1. InUse(d, p) /\ InUse(d, q)
      BY <1>8, <2>2
    <3>. QED BY <2>1, <3>1 DEF ContextInv, Single
  <2>3. CASE d = c
    <3>1. Sessions(c) \subseteq {s}
      BY <1>1, <1>6, <2>3
    <3>2. ASSUME NEW r \in Turns, InUse(c, r)' PROVE r = s
      <4>1. CASE Cached(c, r)'
        BY <1>1, <1>6, <4>1
      <4>2. CASE TakenBy(c, r)'
        <5>1. PICK u \in Turns : turn'[u].pc \in Taken /\ turn'[u].chat = c /\ turn'[u].session = r
          BY <4>2 DEF TakenBy
        <5>2. CASE u = t
          BY <1>5, <5>1, <5>2
        <5>3. CASE u # t
          <6>1. turn[u].pc \in Taken /\ turn[u].chat = c /\ turn[u].session = r
            BY <1>5, <5>1, <5>3
          <6>2. u \in Running
            BY <6>1 DEF Running, Taken
          <6>3. r \in {turn[w].session: w \in {w \in Running: turn[w].chat = c}}
            BY <6>1, <6>2
          <6>4. r # NoTurn
            BY ConversationsAssumption
          <6>. QED BY <3>1, <6>3, <6>4 DEF Sessions
        <5>. QED BY <5>2, <5>3
      <4>. QED BY <3>2, <4>1, <4>2 DEF InUse
    <3>. QED BY <2>3, <3>2
  <2>. QED BY <2>2, <2>3
<1>10. \A r \in Turns : Unlocked(r)' => Unlocked(r)
  BY <1>1, <1>5 DEF Unlocked, HOLDING
<1>11. ASSUME NEW d \in Chats, NEW r \in Turns, InUse(d, r)', Unlocked(r)'
       PROVE  (InUse(d, r) /\ Unlocked(r)) \/ hist[r] = <<>> \/ r \in cut'
  <2>1. CASE InUse(d, r)
    BY <1>10, <1>11, <2>1
  <2>2. CASE d = c /\ r = s
    <3>1. CASE s = t
      BY <1>1, <2>2, <3>1
    <3>2. CASE Cached(c, s)
      BY <1>10, <1>11, <2>2, <3>2 DEF InUse
    <3>. QED BY <1>6, <3>1, <3>2
  <2>. QED BY <1>8, <1>11, <2>1, <2>2
<1>12. \A u \in Turns : turn'[u].pc \in HOLDING => turn'[u] = turn[u]
  BY <1>5 DEF HOLDING
<1>13. /\ \A d \in Chats : messages'[d] = messages[d]
       /\ cut \subseteq cut' /\ blind \subseteq blind' /\ split \subseteq split'
  BY <1>6, <1>7 DEF tables
<1>14. UNCHANGED hist
  BY <1>7
<1>. QED BY <1>9, <1>11, <1>12, <1>13, <1>14, Aside

\* A session that is left in the middle of a turn is noted in cut.
LEMMA LeavingInContext ==
    ASSUME Owned, ContextInv, NEW t \in Turns, Disconnect(t)
    PROVE  ContextInv'
<1>1. /\ turn' = [turn EXCEPT ![t] = Ended] /\ UNCHANGED <<cache, hist, split>>
      /\ \/ turn[t].pc \notin HOLDING /\ UNCHANGED <<tables, cut, blind>>
         \/ /\ turn[t].pc \in HOLDING \ {"answered"}
            /\ cut' = cut \cup {turn[t].session} /\ UNCHANGED <<tables, blind>>
         \/ /\ turn[t].pc = "answered" /\ UNCHANGED cut
            /\ \/ Save(t) /\ UNCHANGED blind
               \/ blind' = blind \cup {turn[t].session} /\ UNCHANGED tables
  BY DEF Disconnect
<1>2. turn'[t] = Ended /\ \A u \in Turns \ {t} : turn'[u] = turn[u]
  BY <1>1 DEF Owned, Types
<1>3. turn'[t].pc \notin Taken /\ turn'[t].pc \notin HOLDING
  BY <1>2, EndedTyped DEF Taken, HOLDING
<1>4. \A d \in Chats, r \in Turns : Cached(d, r)' => Cached(d, r)
  BY <1>1 DEF Cached
<1>5. CASE turn[t].pc \notin HOLDING /\ UNCHANGED <<tables, cut, blind>>
  <2>1. \A d \in Chats : messages'[d] = messages[d]
    BY <1>5 DEF tables
  <2>. QED BY <1>1, <1>2, <1>3, <1>4, <1>5, <2>1, QuietSteps
<1>6. CASE cut' = cut \cup {turn[t].session} /\ UNCHANGED <<tables, blind>>
  <2>1. \A d \in Chats : messages'[d] = messages[d]
    BY <1>6 DEF tables
  <2>2. \A d \in Chats, r \in Turns : InUse(d, r)' => InUse(d, r)
    BY <1>2, <1>3, <1>4, UsesEnd
  <2>3. ASSUME NEW r \in Turns, Unlocked(r)'
        PROVE  Unlocked(r) \/ r \in cut'
    <3>1. CASE turn[t].session = r
      BY <1>6, <3>1
    <3>2. CASE turn[t].session # r
      BY <1>2, <2>3, <3>2 DEF Unlocked
    <3>. QED BY <3>1, <3>2
  <2>4. \A u \in Turns : turn'[u].pc \in HOLDING => turn'[u] = turn[u]
    BY <1>2, <1>3
  <2>. QED BY <1>1, <1>6, <2>1, <2>2, <2>3, <2>4, NobodySpeaks
<1>7. CASE /\ turn[t].pc = "answered" /\ UNCHANGED cut
           /\ \/ Save(t) /\ UNCHANGED blind
              \/ blind' = blind \cup {turn[t].session} /\ UNCHANGED tables
  BY <1>1, <1>7, SavedInContext
<1>. QED BY <1>1, <1>5, <1>6, <1>7

LEMMA NextContext == Owned /\ ContextInv /\ [Next]_vars => ContextInv'
<1>. SUFFICES ASSUME Owned, ContextInv, [Next]_vars PROVE ContextInv'
  OBVIOUS
<1>1. ASSUME NEW n \in Clicks, InsertEmpty(n) \/ SelectEmpty(n)
      PROVE  ContextInv'
  BY <1>1, QuietSteps DEF InsertEmpty, SelectEmpty, tables, ghosts, Cached
<1>2. ASSUME NEW t \in Turns, NEW c \in Chats, Begin(t, c)
      PROVE  ContextInv'
  <2>. DEFINE v == [turn[t] EXCEPT !.pc = "owned", !.chat = c]
  <2>1. turn[t] \in Turn /\ turn \in [Turns -> Turn] /\ turn[t].pc = "new"
    BY <1>2 DEF Owned, Types, Begin
  <2>2. turn' = [turn EXCEPT ![t] = v] /\ v.pc = "owned"
    BY <1>2, <2>1 DEF Begin, Turn
  <2>. HIDE DEF v
  <2>3. turn[t].pc \notin HOLDING /\ v.pc \notin Taken
    BY <2>1, <2>2 DEF Taken, HOLDING
  <2>4. \A u \in Turns : turn'[u] = turn[u] \/ (turn'[u].pc \notin Taken /\ turn[u].pc \notin HOLDING)
    BY <2>1, <2>2, <2>3
  <2>. QED BY <1>2, <2>4, QuietSteps DEF Begin, tables, ghosts, Cached
<1>3. ASSUME NEW t \in Turns, GetSession(t)
      PROVE  ContextInv'
  BY <1>3, GettingInContext
<1>4. ASSUME NEW t \in Turns, Start(t)
      PROVE  ContextInv'
  BY <1>4, StartInContext
<1>5. ASSUME NEW t \in Turns, Answering(t)
      PROVE  ContextInv'
  <2>1. /\ turn[t].pc \in HOLDING /\ UNCHANGED <<tables, cache, cut, blind, split>>
        /\ GiveUp(t) \/ Going(t)
    BY <1>5, Outcome DEF Owned, HOLDING, untouched, ghosts
  <2>. QED BY <2>1, GiveUpInContext, GoingInContext
<1>6. ASSUME NEW t \in Turns, Persist(t)
      PROVE  ContextInv'
  BY <1>6, SavedInContext DEF Persist
<1>7. ASSUME NEW t \in Turns, Disconnect(t)
      PROVE  ContextInv'
  BY <1>7, LeavingInContext
<1>8. CASE DeleteChats
  <2>1. UNCHANGED <<turn, cache, hist, cut, blind, split>> /\ \A d \in Chats : messages'[d] = messages[d] \/ messages'[d] = <<>>
    BY <1>8 DEF DeleteChats
  <2>. QED BY <2>1, QuietSteps DEF Cached
<1>9. CASE Restart
  <2>1. /\ cache' = <<>> /\ UNCHANGED <<tables, hist, cut, blind, split>>
        /\ turn' = [t \in Turns |-> IF t \in Running THEN Ended ELSE turn[t]]
    BY <1>9 DEF Restart, ghosts
  <2>2. \A u \in Turns : turn'[u].pc \notin Taken
    BY <2>1, EndedTyped DEF Running, Taken, HOLDING
  <2>3. \A d \in Chats, r \in Turns : ~InUse(d, r)'
    BY <2>1, <2>2 DEF InUse, Cached, TakenBy
  <2>4. \A u \in Turns : turn'[u].pc \notin HOLDING
    BY <2>2 DEF Taken
  <2>5. \A d \in Chats : messages'[d] = messages[d]
    BY <2>1 DEF tables
  <2>. QED BY <2>1, <2>3, <2>4, <2>5, NobodySpeaks
<1>10. ASSUME NEW c \in Chats, Evict(c)
       PROVE  ContextInv'
  <2>1. cache' = Without(c) /\ UNCHANGED <<tables, hist, turn, cut, blind, split>>
    BY <1>10 DEF Evict, ghosts
  <2>2. Thinner(Without(c), c)
    BY WithoutOf DEF Owned, Types, Slot
  <2>3. \A d \in Chats, r \in Turns : Cached(d, r)' => Cached(d, r)
    BY <2>1, <2>2 DEF Thinner, Cached
  <2>. QED BY <2>1, <2>3, QuietSteps DEF tables
<1>11. CASE UNCHANGED vars
  BY <1>11, QuietSteps DEF vars, tables, ghosts, Cached
<1>. QED BY <1>1, <1>2, <1>3, <1>4, <1>5, <1>6, <1>7, <1>8, <1>9, <1>10, <1>11 DEF Next, Step

LEMMA InitContext == Init => ContextInv
<1>. SUFFICES ASSUME Init PROVE ContextInv
  OBVIOUS
<1>1. /\ \A t \in Turns : turn[t].pc \notin Taken /\ turn[t].pc \notin HOLDING
      /\ cache = <<>>
  BY EndedTyped DEF Init, Taken, HOLDING
<1>2. \A c \in Chats, s \in Turns : ~InUse(c, s)
  BY <1>1 DEF InUse, Cached, TakenBy
<1>. QED BY <1>1, <1>2 DEF ContextInv, Single, Between, During

LEMMA AcceptedIfAsked == Owned /\ ContextInv => WellFormed
<1>. SUFFICES ASSUME Owned, ContextInv, NEW t \in Turns, turn[t].pc = "gemini", turn[t].session \notin cut
              PROVE  LET h == hist[turn[t].session]
                     IN  /\ h[1].kind = "question"
                         /\ \A i \in 1..Len(h) - 1 : <<h[i].kind, h[i + 1].kind>> \in FOLLOWS
                         /\ h[Len(h)].turn = t /\ h[Len(h)].kind \in {"question", "result"}
  BY DEF WellFormed
<1>1. Asked(turn[t], hist[turn[t].session], t)
  BY DEF ContextInv, During, HOLDING
<1>. QED BY <1>1 DEF Asked, Chained

LEMMA InStep == Owned /\ ContextInv => KeepsContext
<1>. SUFFICES ASSUME Owned, ContextInv, NEW t \in Turns, turn[t].pc = "gemini",
                     turn[t].session \notin cut \cup blind, turn[t].chat \notin split,
                     messages[turn[t].chat] # <<>>
              PROVE  LET m == messages[turn[t].chat]
                         h == hist[turn[t].session]
                     IN  \E i \in DOMAIN h : h[i] = [kind |-> "answer", turn |-> m[Len(m)].turn]
  BY DEF KeepsContext
<1>. DEFINE m == messages[turn[t].chat]
            h == hist[turn[t].session]
            n == turn[t].mark
            base == SubSeq(h, 1, n)
<1>1. h \in Seq(Entries) /\ n \in Nat /\ n < Len(h) /\ Len(h) \in Nat
  BY Holding DEF Taken, HOLDING
<1>2. EndsIn(base, m)
  BY DEF ContextInv, During, HOLDING
<1>3. n \in 0..Len(h)
  BY <1>1
<1>4. Len(base) = n /\ base \in Seq(Entries) /\ \A i \in 1..n : base[i] = h[i]
  BY <1>1, <1>3, BaseOf
<1>. HIDE DEF h, base, n
<1>5. base # <<>> /\ base[Len(base)] = [kind |-> "answer", turn |-> m[Len(m)].turn]
  BY <1>2 DEF EndsIn
<1>6. n \in 1..n /\ n \in DOMAIN h
  BY <1>1, <1>4, <1>5
<1>. QED BY <1>4, <1>5, <1>6 DEF h

\* A session that nobody answers in holds whole exchanges of its chat, up to the last
\* one stored; one that is being answered in holds that below its history_mark
\* (rag/agent_runner.py:121-158).
THEOREM SessionsInStep == Spec => []ContextInv
<1>1. Init => Owned /\ ContextInv
  BY InitOwned, InitContext
<1>2. Owned /\ ContextInv /\ [Next]_vars => (Owned /\ ContextInv)'
  BY NextOwned, NextContext
<1>. QED BY <1>1, <1>2, PTL DEF Spec

\* What Gemini is sent opens with a question, answers every call and every question
\* but the last, and ends in this turn's question or its results, whatever was cut
\* off, rolled back or answered by Groq (rag/agent_runner.py:138-158).
THEOREM HistoriesWellFormed == Spec => []WellFormed
BY AcceptedIfAsked, SessionsOwned, SessionsInStep, PTL

\* A question is sent behind the last exchange stored in its chat, whether its session
\* was kept, evicted, truncated or loaded again (rag/agent_runner.py:121-125).
THEOREM ContextKept == Spec => []KeepsContext
BY InStep, SessionsOwned, SessionsInStep, PTL
=============================================================================
