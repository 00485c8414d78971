--------------------------- MODULE Conversations ---------------------------
(***************************************************************************)
(* Asking questions (rag/agent_runner.py, rag/session_cache.py,            *)
(* rag/chat_fallback_groq.py, ask_ai/agent/history.py and service.py): a   *)
(* turn checks that the chat is the user's, takes the chat's session out   *)
(* of an LRU cache, waits for its lock, and sends the history with the     *)
(* question to Gemini, runs the tools it calls and asks again, hands over  *)
(* to Groq when Gemini stays down, and stores the exchange.  Chats are     *)
(* created empty, deleted, and evicted from the cache meanwhile, and       *)
(* clients leave in mid-answer.                                            *)
(*                                                                         *)
(* One user, one backend process.  An entry of a history is a question, a  *)
(* turn of the model that calls tools, their results, or an answer; a      *)
(* piece of text on the screen is known by the provider that streamed it   *)
(* and the round it did so in.  A session is named by the turn that made   *)
(* it.                                                                     *)
(***************************************************************************)
EXTENDS Naturals, FiniteSets, SequencesExt

CONSTANTS
    Chats,          \* ids, none of them ever used twice
    Turns,          \* questions; bound
    Clicks,         \* "New chat" requests; bound
    NoTurn, NoChat,
    Capacity,       \* LRUSessionCache(capacity)
    Limit,          \* *_history_turn_limit
    MaxIterations,  \* *_max_tool_iterations
    MaxRetries,     \* chat_max_retries
    GroqRetries,
    MaxFaults       \* bound: clients that leave, loads and saves that fail, restarts

ASSUME ConversationsAssumption ==
    /\ NoTurn \notin Turns /\ NoChat \notin Chats
    /\ {Capacity, MaxIterations, MaxRetries, GroqRetries} \subseteq Nat \ {0}
    /\ MaxFaults \in Nat
    \* 8 and 6 rounds, two entries each, and 20: a turn is never longer than the limit.
    /\ Limit \in Nat /\ Limit % 2 = 0 /\ 2 * MaxIterations <= Limit

VARIABLES
    chat,      \* ask_ai_conversations
    messages,  \* ask_ai_messages of each chat, an exchange at a time
    cache,     \* LRUSessionCache.cache, least recently used first
    hist,      \* the history of each session
    turn,      \* questions being answered
    click,     \* get_or_create_empty_conversation
    evicting,  \* chats deleted whose sessions are still to be dropped
    faults,
    cut,       \* history: sessions whose turn was left by its client
    blind,     \* history: sessions that could not be loaded, or a turn of which was not stored
    split,     \* history: chats that had two sessions in use at once
    erased     \* history: turns whose stored exchange was deleted

tables == <<chat, messages>>
ghosts == <<cut, blind, split, erased>>
vars == <<tables, cache, hist, turn, click, evicting, faults, ghosts>>

Entries == [kind: {"question", "call", "result", "answer"}, turn: Turns]
Pieces == {"gemini", "groq"} \X (1..MaxIterations)

Chat == {"none", "empty", "used", "deleted"}
Exchange == [turn: Turns, text: Seq(Pieces)]

\* session: whose history and lock; mark: history_mark; screen: what the client
\* shows, which is answer_parts too: they change together; late: whether
\* the chat had been deleted and evicted when the session was taken.
NewTurn == [pc |-> "new", chat |-> NoChat, session |-> NoTurn, mark |-> 0, round |-> 0,
            attempt |-> 0, screen |-> <<>>, late |-> FALSE]
Ended == [NewTurn EXCEPT !.pc = "ended"]

HOLDING == {"gemini", "tools", "groq", "answered"}
Running == {t \in Turns: turn[t].pc \in HOLDING \cup {"owned", "waiting"}}

NewClick == [pc |-> "new", tries |-> 0, lost |-> 0, chat |-> NoChat]

TypeOK ==
    /\ chat \in [Chats -> Chat]
    /\ messages \in [Chats -> Seq(Exchange)]
    /\ \A c \in Chats : IsInjective([i \in DOMAIN messages[c] |-> messages[c][i].turn])
    /\ \A i \in DOMAIN cache : cache[i].chat \in Chats /\ cache[i].session \in Turns
    /\ \A t \in Turns : \A i \in DOMAIN hist[t] : hist[t][i] \in Entries
    /\ \A t \in Turns : turn[t].pc \in HOLDING \cup {"new", "owned", "waiting", "ended"}
    /\ \A t \in Running : turn[t].chat \in Chats /\ Range(turn[t].screen) \subseteq Pieces
    /\ \A n \in Clicks : click[n].pc \in {"new", "insert", "select", "got", "failed"}
    /\ evicting \subseteq Chats /\ faults \in 0..MaxFaults

Init ==
    /\ chat = [c \in Chats |-> "none"]
    /\ messages = [c \in Chats |-> <<>>]
    /\ cache = <<>>
    /\ hist = [t \in Turns |-> <<>>]
    /\ turn = [t \in Turns |-> NewTurn]
    /\ click = [n \in Clicks |-> NewClick]
    /\ evicting = {}
    /\ faults = 0
    /\ cut = {} /\ blind = {} /\ split = {} /\ erased = {}

Fault == faults < MaxFaults /\ faults' = faults + 1

-----------------------------------------------------------------------------
(* get_or_create_empty_conversation: "New chat". *)

\* INSERT .. ON CONFLICT DO NOTHING, on the unique index over a user's empty chats.
InsertEmpty(n) ==
    /\ click[n].pc # "select"
    /\ click' = [click EXCEPT ![n] =
                   IF @.pc = "insert" THEN [click[n] EXCEPT !.pc = "select", !.tries = @ + 1]
                   ELSE [NewClick EXCEPT !.pc = "select", !.tries = 1]]
    /\ IF \E c \in Chats : chat[c] = "empty"
       THEN UNCHANGED chat
       ELSE /\ \E c \in Chats : chat[c] = "none"
            /\ chat' = [chat EXCEPT ![CHOOSE c \in Chats : chat[c] = "none"] = "empty"]
    /\ UNCHANGED <<messages, cache, hist, turn, evicting, faults, ghosts>>

TRIES == 3

\* NewChatServed: the insert is made once, and only the select repeated.
SelectEmptyBug(n) ==
    /\ click[n].pc = "select"
    /\ click' = [click EXCEPT ![n] =
                   IF \E c \in Chats : chat[c] = "empty"
                   THEN [@ EXCEPT !.pc = "got", !.chat = CHOOSE c \in Chats : chat[c] = "empty"]
                   ELSE IF @.tries = TRIES THEN [@ EXCEPT !.pc = "failed"]
                   ELSE [@ EXCEPT !.tries = @ + 1]]
    /\ UNCHANGED <<tables, cache, hist, turn, evicting, faults, ghosts>>

SelectEmpty(n) ==
    /\ click[n].pc = "select"
    /\ click' = [click EXCEPT ![n] =
                   IF \E c \in Chats : chat[c] = "empty"
                   THEN [@ EXCEPT !.pc = "got", !.chat = CHOOSE c \in Chats : chat[c] = "empty"]
                   ELSE IF @.tries = TRIES THEN [@ EXCEPT !.pc = "failed"]
                   ELSE [@ EXCEPT !.pc = "insert"]]
    /\ UNCHANGED <<tables, cache, hist, turn, evicting, faults, ghosts>>

\* Counts, for every click under way, that its user has one empty chat less.
Overtaken(gone) ==
    click' = [n \in Clicks |->
                IF click[n].pc \in {"insert", "select"} /\ \E c \in gone : chat[c] = "empty"
                THEN [click[n] EXCEPT !.lost = @ + 1] ELSE click[n]]

-----------------------------------------------------------------------------
(* A turn, up to its first call of a model. *)

\* The route's check, and _load_turn_context, which makes it again.
Begin(t, c) ==
    /\ turn[t].pc = "new"
    /\ chat[c] \in {"empty", "used"}
    /\ turn' = [turn EXCEPT ![t].pc = "owned", ![t].chat = c]
    /\ UNCHANGED <<tables, cache, hist, click, evicting, faults, ghosts>>

Sessions(c) == {turn[u].session: u \in {u \in Running: turn[u].chat = c}} \ {NoTurn}

\* Where the cache has the session of c: nowhere, or in one place.
Places(c) == {i \in DOMAIN cache: cache[i].chat = c}
Without(c) == IF Places(c) = {} THEN cache ELSE RemoveAt(cache, CHOOSE i \in Places(c) : TRUE)

\* get_session: the oldest goes, whoever is using it.
GetSession(t) ==
    LET c == turn[t].chat
        found == {cache[i].session: i \in Places(c)}
        mine == IF found = {} THEN t ELSE CHOOSE s \in found : TRUE
        kept == IF found = {} /\ Len(cache) >= Capacity THEN Tail(cache) ELSE Without(c)
    IN  /\ turn[t].pc = "owned"
        /\ cache' = Append(kept, [chat |-> c, session |-> mine])
        /\ turn' = [turn EXCEPT ![t].pc = "waiting", ![t].session = mine,
                                ![t].late = chat[c] = "deleted" /\ c \notin evicting]
        /\ split' = IF Sessions(c) \subseteq {mine} THEN split ELSE split \cup {c}
        /\ UNCHANGED <<tables, hist, click, evicting, faults, cut, blind, erased>>

\* TurnsEnd: generators are left to the garbage collector, with the lock they hold.
UnlockedBug(session) ==
    /\ session \notin cut
    /\ \A u \in Turns : turn[u].session = session => turn[u].pc \notin HOLDING

Unlocked(session) == \A u \in Turns : turn[u].session = session => turn[u].pc \notin HOLDING

\* load_thread: the last Limit messages.
LoadThread(c) ==
    LET m == messages[c]
        older == IF 2 * Len(m) > Limit THEN Len(m) - Limit \div 2 ELSE 0
    IN  [i \in 1..2 * (Len(m) - older) |->
           [kind |-> IF i % 2 = 1 THEN "question" ELSE "answer", turn |-> m[older + (i + 1) \div 2].turn]]

LastOf(h) == SubSeq(h, Len(h) - Limit + 1, Len(h))

\* WellFormed: the cut is made where it falls.
TruncateBug(h) == IF Len(h) <= Limit THEN h ELSE LastOf(h)

\* The cut counts entries; what precedes the first question left is dropped.
Truncate(h) ==
    IF Len(h) <= Limit THEN h
    ELSE LET questions == {i \in 1..Limit: LastOf(h)[i].kind = "question"}
         IN  IF questions = {} THEN <<>>
             ELSE SubSeq(LastOf(h), CHOOSE i \in questions : \A j \in questions : i <= j, Limit)

\* KeepsContext: a session is cold only when the process has just started.
ColdBug(t) == cache = <<>>
Cold(t) == hist[turn[t].session] = <<>>

\* The lock is taken; a cold session is loaded, or not; the question is appended.  The
\* load is awaited under the lock: what a delete or a save of the chat's other session
\* does meanwhile is taken to come before it or after the step.
Start(t) ==
    LET s == turn[t].session
    IN  /\ turn[t].pc = "waiting"
        /\ Unlocked(s)
        /\ \E h \in {hist[s], LoadThread(turn[t].chat)} :
             /\ IF Cold(t)
                THEN IF h = LoadThread(turn[t].chat) THEN UNCHANGED <<faults, blind>>
                     ELSE Fault /\ blind' = blind \cup {s}
                ELSE h = hist[s] /\ UNCHANGED <<faults, blind>>
             /\ hist' = [hist EXCEPT ![s] = Append(Truncate(h), [kind |-> "question", turn |-> t])]
             /\ turn' = [turn EXCEPT ![t].pc = "gemini", ![t].mark = Len(Truncate(h)),
                                     ![t].round = 1, ![t].attempt = 1]
        /\ UNCHANGED <<tables, cache, click, evicting, cut, split, erased>>

-----------------------------------------------------------------------------
(* run_agent_stream: rounds of Gemini and tools. *)

untouched == <<tables, cache, click, evicting, faults, ghosts>>

Says(t, entry) ==
    hist' = [hist EXCEPT ![turn[t].session] = Append(@, [kind |-> entry, turn |-> t])]

\* What is shown after this round's stream, whether it had text or only calls.
Shown(t, provider) == {turn[t].screen, Append(turn[t].screen, <<provider, turn[t].round>>)}

\* _rollback_history, and a canned message or an error event.
GiveUp(t) ==
    /\ hist' = [hist EXCEPT ![turn[t].session] = SubSeq(@, 1, turn[t].mark)]
    /\ turn' = [turn EXCEPT ![t] = Ended]

\* StoredIsShown: only the text of the stream that died counts as shown.
ResetBug(t, shown) == IF shown = turn[t].screen THEN shown ELSE <<>>

\* The whole reply is taken back, a preamble of an earlier round with it.
Reset(t, shown) == <<>>

\* The stream dies.  It is not worth a retry, or is tried again, or was tried
\* often enough and is Groq's, or nobody's.
StreamFails(t) ==
    /\ turn[t].pc = "gemini"
    /\ \E shown \in Shown(t, "gemini") :
         \/ GiveUp(t)
         \/ /\ turn[t].attempt < MaxRetries
            /\ turn' = [turn EXCEPT ![t].screen = Reset(t, shown), ![t].attempt = @ + 1]
            /\ UNCHANGED hist
         \/ /\ turn[t].attempt = MaxRetries
            /\ turn' = [turn EXCEPT ![t].screen = Reset(t, shown), ![t].pc = "groq",
                                    ![t].round = 1, ![t].attempt = 1]
            /\ UNCHANGED hist
    /\ UNCHANGED untouched

\* Neither text nor calls came.
StreamEmpty(t) ==
    /\ turn[t].pc = "gemini"
    /\ GiveUp(t)
    /\ UNCHANGED untouched

StreamCalls(t) ==
    /\ turn[t].pc = "gemini"
    /\ \E shown \in Shown(t, "gemini") :
         turn' = [turn EXCEPT ![t].pc = "tools", ![t].screen = shown]
    /\ Says(t, "call")
    /\ UNCHANGED untouched

\* gather returns with a result or an error for each call; then the loop goes
\* round, or its budget is spent.
RunTools(t) ==
    /\ turn[t].pc = "tools"
    /\ IF turn[t].round = MaxIterations
       THEN GiveUp(t)
       ELSE /\ Says(t, "result")
            /\ turn' = [turn EXCEPT ![t].pc = "gemini", ![t].round = @ + 1, ![t].attempt = 1]
    /\ UNCHANGED untouched

StreamAnswers(t) ==
    /\ turn[t].pc = "gemini"
    /\ turn' = [turn EXCEPT ![t].pc = "answered", ![t].screen = Append(@, <<"gemini", turn[t].round>>)]
    /\ Says(t, "answer")
    /\ UNCHANGED untouched

-----------------------------------------------------------------------------
(* run_groq_chat_stream, on the text of the history, in Groq's own format. *)

\* It is retried only before any text has gone out.
GroqFails(t) ==
    /\ turn[t].pc = "groq"
    /\ \/ GiveUp(t)
       \/ /\ turn[t].attempt < GroqRetries
          /\ turn' = [turn EXCEPT ![t].attempt = @ + 1]
          /\ UNCHANGED hist
    /\ UNCHANGED untouched

\* Text without a call ends it, and so do calls in the last round, where there
\* should be none; the answer is whatever was said in all rounds, if anything was.
GroqEnds(t) ==
    /\ turn[t].pc = "groq"
    /\ \E shown \in Shown(t, "groq") :
         IF shown = <<>> THEN GiveUp(t)
         ELSE /\ turn' = [turn EXCEPT ![t].pc = "answered", ![t].screen = shown]
              /\ Says(t, "answer")
    /\ UNCHANGED untouched

GroqCalls(t) ==
    /\ turn[t].pc = "groq" /\ turn[t].round < MaxIterations
    /\ \E shown \in Shown(t, "groq") :
         turn' = [turn EXCEPT ![t].screen = shown, ![t].round = @ + 1, ![t].attempt = 1]
    /\ UNCHANGED <<hist, untouched>>

-----------------------------------------------------------------------------
(* The end of a turn. *)

\* save_exchange: both messages and last_message_at, or nothing if the chat is gone.
Save(t) ==
    LET c == turn[t].chat
    IN  IF chat[c] = "deleted" THEN UNCHANGED <<tables, click>>
        ELSE /\ chat' = [chat EXCEPT ![c] = "used"]
             /\ messages' = [messages EXCEPT ![c] = Append(@, [turn |-> t, text |-> turn[t].screen])]
             /\ Overtaken({c})

\* _persist_exchange; "a storage failure must not fail an answer".
Persist(t) ==
    /\ turn[t].pc = "answered"
    /\ turn' = [turn EXCEPT ![t] = Ended]
    /\ \/ Save(t) /\ UNCHANGED <<faults, blind>>
       \/ Fault /\ blind' = blind \cup {turn[t].session} /\ UNCHANGED <<tables, click>>
    /\ UNCHANGED <<cache, hist, evicting, cut, split, erased>>

\* The client goes away and the generators are closed: the lock is released and
\* nothing is rolled back.  A save that had begun is finished by its thread: here at
\* once, in the code perhaps after the session's next turn has begun.
Disconnect(t) ==
    /\ t \in Running
    /\ Fault
    /\ turn' = [turn EXCEPT ![t] = Ended]
    /\ \/ turn[t].pc \notin HOLDING /\ UNCHANGED <<tables, click, cut, blind>>
       \/ /\ turn[t].pc \in HOLDING \ {"answered"}
          /\ cut' = cut \cup {turn[t].session}
          /\ UNCHANGED <<tables, click, blind>>
       \/ /\ turn[t].pc = "answered"
          /\ \/ Save(t) /\ UNCHANGED blind
             \/ blind' = blind \cup {turn[t].session} /\ UNCHANGED <<tables, click>>
          /\ UNCHANGED cut
    /\ UNCHANGED <<cache, hist, evicting, split, erased>>

\* DELETE /conversations/{id}, or of all of them: the rows, then the sessions.
DeleteChats ==
    \E gone \in {{c} : c \in Chats} \cup {{c \in Chats: chat[c] \in {"empty", "used"}}} :
      /\ gone # {} /\ \A c \in gone : chat[c] \in {"empty", "used"}
      /\ chat' = [c \in Chats |-> IF c \in gone THEN "deleted" ELSE chat[c]]
      /\ messages' = [c \in Chats |-> IF c \in gone THEN <<>> ELSE messages[c]]
      /\ evicting' = evicting \cup gone
      /\ erased' = erased \cup UNION {{m.turn : m \in Range(messages[c])}: c \in gone}
      /\ Overtaken(gone)
      /\ UNCHANGED <<cache, hist, turn, faults, cut, blind, split>>

\* DeletedForgotten: a session that is in use is left alone.
EvictBug(c) ==
    /\ c \in evicting
    /\ evicting' = evicting \ {c}
    /\ cache' = SelectSeq(cache, LAMBDA e: e.chat # c \/ ~Unlocked(e.session))
    /\ UNCHANGED <<tables, hist, turn, click, faults, ghosts>>

Evict(c) ==
    /\ c \in evicting
    /\ evicting' = evicting \ {c}
    /\ cache' = Without(c)
    /\ UNCHANGED <<tables, hist, turn, click, faults, ghosts>>

Restart ==
    /\ Fault
    /\ cache' = <<>> /\ evicting' = {}
    /\ turn' = [t \in Turns |-> IF t \in Running THEN Ended ELSE turn[t]]
    /\ click' = [n \in Clicks |-> IF click[n].pc \in {"insert", "select"} THEN NewClick ELSE click[n]]
    /\ UNCHANGED <<tables, hist, ghosts>>

Answering(t) ==
    \/ StreamFails(t) \/ StreamEmpty(t) \/ StreamCalls(t) \/ StreamAnswers(t) \/ RunTools(t)
    \/ GroqFails(t) \/ GroqCalls(t) \/ GroqEnds(t)

Step(t) == GetSession(t) \/ Start(t) \/ Answering(t) \/ Persist(t)

Next ==
    \/ \E n \in Clicks : InsertEmpty(n) \/ SelectEmpty(n)
    \/ \E t \in Turns : (\E c \in Chats : Begin(t, c)) \/ Step(t) \/ Disconnect(t)
    \/ DeleteChats \/ Restart
    \/ \E c \in Chats : Evict(c)

\* Every call of a provider has a timeout, tools return, and a lock that is free
\* is given to somebody.
Fairness == \A t \in Turns : WF_vars(Step(t))

Spec == Init /\ [][Next]_vars /\ Fairness

-----------------------------------------------------------------------------
(* Properties. *)

FOLLOWS == {<<"question", "call">>, <<"question", "answer">>, <<"call", "result">>,
            <<"result", "call">>, <<"result", "answer">>, <<"answer", "question">>}

\* "Gemini rejects that with 400", and "a user retrying a failing turn" must not
\* pay for "their own unanswered questions" (agent_runner.py:138-158): what is sent
\* opens with a question, has a result after every call and an answer to every
\* question but the last, whatever was cut off, rolled back or answered by Groq.
\* Except where a client left in mid-answer: closing the generator rolls
\* nothing back, and the session keeps the question, or a call without its result.
WellFormed ==
    \A t \in Turns :
      LET h == hist[turn[t].session]
      IN  turn[t].pc = "gemini" /\ turn[t].session \notin cut =>
            /\ h[1].kind = "question"
            /\ \A i \in 1..Len(h) - 1 : <<h[i].kind, h[i + 1].kind>> \in FOLLOWS
            /\ h[Len(h)].turn = t /\ h[Len(h)].kind \in {"question", "result"}

\* "What keeps the model's context in step with the thread the UI shows"
\* (agent_runner.py:121-125): a question is sent behind the last exchange stored in
\* its chat, whether the session was kept, evicted, truncated or lost in a restart;
\* unless a load or a save failed, a client left what crowds it out of the limit, or
\* the session was evicted under a running turn and the chat had two
\* (session_cache.py:18).  A meeting's thread that is asked from two browser sessions
\* has two histories by its key, and is no chat of this model.
KeepsContext ==
    \A t \in Turns :
      LET m == messages[turn[t].chat]
          h == hist[turn[t].session]
      IN  /\ turn[t].pc = "gemini" /\ turn[t].session \notin cut \cup blind
          /\ turn[t].chat \notin split
          => m = <<>> \/ \E i \in DOMAIN h : h[i] = [kind |-> "answer", turn |-> m[Len(m)].turn]

\* "It always matches what is on screen, which is what makes it the right thing to
\* store" (agent_runner.py:189-198): a stored answer is the text of one provider, with
\* no round of it printed twice, however streams died, retried and failed over.
StoredIsShown ==
    \A c \in Chats : \A i \in DOMAIN messages[c] :
      LET text == messages[c][i].text
      IN  /\ text # <<>> /\ IsInjective(text)
          /\ \A p, q \in Range(text) : p[1] = q[1]

\* "Nothing of it can reach a later answer" (api/ask.py:112-116): a turn that had
\* been let in before its chat was deleted, and takes its session after the deletion
\* was answered, is not sent an exchange that was stored and deleted.
DeletedForgotten ==
    \A t \in Turns : turn[t].pc = "gemini" /\ turn[t].late =>
      \A i \in DOMAIN hist[turn[t].session] : hist[turn[t].session][i].turn \notin erased

\* "The empty chat can stop being empty between the insert and the select"
\* (history.py:32-34): "New chat" fails only for a user whose chats stopped being
\* empty three times while it tried.
NewChatServed == \A n \in Clicks : click[n].pc = "failed" => click[n].lost >= TRIES

\* Every question comes to an end, and the next one of its chat gets the lock: again
\* and again, nobody is waiting
\* ("a client disconnecting mid-stream releases the session lock", agent_runner.py:115).
TurnsEnd == []<>(Running = {})
=============================================================================
