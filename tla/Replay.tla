--------------------------------- MODULE Replay ---------------------------------
(***************************************************************************)
(* What reaches the prompt of a turn: the conversation service of one      *)
(* session (handle_user_message, app/service.py) under the settings of     *)
(* ContextModes, for its three clients.  The sidebar and the API chat live *)
(* while settings change; evaluation/modes.py replays a benchmark's        *)
(* conversation message by message through a fresh service, or a fresh one *)
(* at each session boundary, and then asks the task's question.            *)
(*                                                                         *)
(* A message is its place in the conversation; what it says matters only   *)
(* as far as the memory policy and the chunk retriever tell texts apart.   *)
(* A message, a memory and a chunk cost one token each.  BrainOS may       *)
(* recall any of what it observed, the retriever may rank chunks in any    *)
(* order; the selection among memories is MemorySelection's.               *)
(***************************************************************************)
EXTENDS ContextModes, Sequences, FiniteSetsExt

CONSTANTS
    Clients,       \* who uses the service: "sidebar", "api", "replay"
    Conversations, \* the conversations of the benchmark's tasks
    Kinds,         \* the messages a visitor may send
    Slack,         \* REPLAY_CEILING_SLACK
    Overhead,      \* the system prompt and the question
    RecallLimit,   \* recall's limit
    TopK,          \* rag_top_k
    MaxMessages    \* bound: messages of a live conversation

\* says: "statement" for what the memory policy accepts, "chatter" for words it does not
\* (questions, greetings, requests), "blank" for a message without text.
Message == [says : {"statement", "chatter", "blank"}, role : {"user", "assistant"},
            session : Nat]
ASSUME ConversationsTyped ==
    /\ \A c \in Conversations : c \in Seq(Message)
    /\ Kinds \subseteq Message

\* The ceiling of a replay leaves room for the system prompt and the question.
ASSUME RoomLeft == {Slack, Overhead, RecallLimit, TopK} \subseteq Nat /\ Overhead <= Slack + 1

VARIABLES
    client,
    isolated, \* replay: session_isolation
    script,   \* the conversation: all of it in a replay, what was said so far live
    next,     \* replay: the next message
    current,  \* replay: current_session
    said,     \* the transcript of the service's session: messages of the script
    observed, \* what its BrainOS runtime has observed
    pc,       \* where the turn in flight stands
    turn      \* its locals

runVars == <<client, isolated, script, next, current, said, observed, pc, turn>>
vars == <<modeVars, runVars>>

NoTurn == [recalled |-> {}, chunks |-> {}, under |-> NewSettings, tuned |-> FALSE, window |-> {},
           memory |-> {}, chunk |-> {}, label |-> ""]

\* default_service_factory: the mode's settings from scratch.
Factory(m) == WithModeDefaults(NewSettings, Resolve(m))

ReplayCeiling(c) == Max({DefaultCeiling, Len(c) + 1 + Slack})

\* Mutant: only the wall is moved, not the window.
Raised_WallOnly(s, ceiling) ==
    IF ceiling <= s.max THEN s ELSE [s EXCEPT !.max = ceiling]

\* _raise_session_ceiling: the mode's budgets follow the ceiling.
Raised(s, ceiling) ==
    IF ceiling <= s.max THEN s
    ELSE WithModeDefaults([s EXCEPT !.max = ceiling], s.mode)

Init ==
    /\ client \in Clients
    /\ isolated \in IF client = "replay" THEN BOOLEAN ELSE {FALSE}
    /\ script \in IF client = "replay" THEN Conversations ELSE {<<>>}
    /\ IF client = "replay"
       THEN \E m \in Modes : ModesInit(Raised(Factory(m), ReplayCeiling(script)))
       ELSE ModesInit(NewSettings)
    /\ current = IF script = <<>> THEN 0 ELSE script[1].session
    /\ next = 1
    /\ said = {} /\ observed = {}
    /\ pc = "idle" /\ turn = NoTurn

-----------------------------------------------------------------------------
\* Mutant: questions are stored as well.
Memorable_Chatter(m) == m.says # "blank"
\* extract_candidates and MemoryPolicy.select: only statements are observed.
Memorable(m) == m.says = "statement"

\* chunk_history: a message without content makes no chunk.
Chunkable == {i \in said : script[i].says # "blank"}

\* A message enters the transcript and BrainOS.  record_assistant_message returns early
\* for a blank one.
Hear(i, before, known) ==
    /\ said' = IF script[i].says = "blank" /\ script[i].role = "assistant"
               THEN before ELSE before \cup {i}
    /\ observed' = IF Memorable(script[i]) THEN known \cup {i} ELSE known

\* Mutant: the new service attaches to the runtime of the one before.
ReplayBoundary_SameRuntime ==
    /\ client = "replay" /\ next <= Len(script)
    /\ isolated /\ script[next].session # current
    /\ settings' = Factory(settings.mode)
    /\ current' = script[next].session
    /\ Hear(next, {}, observed)
    /\ next' = next + 1
    /\ UNCHANGED <<form, edited, requests, tuned, changed, events,
                   client, isolated, script, pc, turn>>

\* replay_task, at a session boundary of an isolated replay: a fresh service, whose
\* ceiling is not raised, hears the message.
ReplayBoundary ==
    /\ client = "replay" /\ next <= Len(script)
    /\ isolated /\ script[next].session # current
    /\ settings' = Factory(settings.mode)
    /\ current' = script[next].session
    /\ Hear(next, {}, {})
    /\ next' = next + 1
    /\ UNCHANGED <<form, edited, requests, tuned, changed, events,
                   client, isolated, script, pc, turn>>

\* Otherwise the service at hand hears it.  A user's message is a whole turn, of which
\* only the transcript and the observations remain.
ReplayMessage ==
    /\ client = "replay" /\ next <= Len(script)
    /\ ~isolated \/ script[next].session = current
    /\ Hear(next, said, observed)
    /\ next' = next + 1
    /\ UNCHANGED <<modeVars, client, isolated, script, current, pc, turn>>

\* The task's question: the last turn.  The question is chatter to the memory policy.
Ask ==
    /\ client = "replay" /\ next > Len(script) /\ pc = "idle"
    /\ pc' = "recall"
    /\ UNCHANGED <<modeVars, client, isolated, script, next, current, said,
                   observed, turn>>

\* A visitor's message is appended and observed before anything is recalled, so that
\* recall may return it.
Say(k) ==
    /\ Len(script) < MaxMessages /\ pc \in {"idle", "done"}
    /\ script' = Append(script, k)
    /\ said' = said \cup {Len(script) + 1}
    /\ observed' = IF Memorable(k) THEN observed \cup {Len(script) + 1} ELSE observed
    /\ pc' = "recall" /\ turn' = NoTurn
    /\ UNCHANGED <<client, isolated, next, current>>

SidebarChat ==
    /\ client = "sidebar"
    /\ \E k \in Kinds : Say(k)
    /\ changed' = FALSE
    /\ UNCHANGED <<settings, form, edited, requests, tuned, events>>

\* /api/chat: the mode first, if the request names one.
ApiChat ==
    /\ client = "api" /\ \E k \in Kinds : Say(k)
    /\ changed' = FALSE
    /\ UNCHANGED <<settings, form, edited, requests, tuned, events>>
ApiSwitch ==
    /\ client = "api" /\ Clicked
    /\ \E m \in Offered : ApiMode(m)
    /\ UNCHANGED runVars

\* adapter.recall: any of what was observed, the runtime's ranking decides.
Recalls == {S \in SUBSET observed : Cardinality(S) <= RecallLimit}

\* _recall: the settings say whether there is memory at all.
Recall ==
    /\ pc = "recall" /\ pc' = "prepare"
    /\ \E S \in IF UsesMemory(settings.mode) THEN Recalls ELSE {{}} :
           turn' = [turn EXCEPT !.recalled = S]
    /\ UNCHANGED <<modeVars, client, isolated, script, next, current, said, observed>>

\* _build_context keeps the settings it finds ...
Prepare ==
    /\ pc = "prepare" /\ pc' = "chunks"
    /\ turn' = [turn EXCEPT !.under = settings, !.tuned = tuned]
    /\ UNCHANGED <<modeVars, client, isolated, script, next, current, said, observed>>

\* The live message itself is not part of its history; a replay's question never was.
History == IF client = "replay" THEN said ELSE said \ {Len(script)}

\* retrieve_chunks returns as many as there are, up to its limit: min_score is zero, and
\* messages differ enough not to be each other's duplicates.
TopChunks(from) == kSubset(Min({TopK, Cardinality(from)}), from)

\* ... while _retrieve_chunks reads them again.
RetrieveChunks ==
    /\ pc = "chunks" /\ pc' = "build"
    /\ \E S \in IF UsesRag(settings.mode) THEN TopChunks(Chunkable \cap History) ELSE {{}} :
           turn' = [turn EXCEPT !.chunks = S]
    /\ UNCHANGED <<modeVars, client, isolated, script, next, current, said, observed>>

\* The newest n members of S.
Newest(S, n) == {i \in S : Cardinality({j \in S : j >= i}) <= n}

\* build_context, its sections of unit cost: the window, what the evidence budgets admit
\* of the candidates but for chunks the window shows anyway, and evictions until the
\* prompt fits, oldest message first, then chunks, then memories.
Build ==
    /\ pc = "build" /\ pc' = "label"
    /\ LET s == turn.under
           budget == Max({1, s.window}) \* the newest message is always kept
           kept == Newest(History, IF s.turns = Unlimited THEN budget
                                   ELSE Min({s.turns, budget}))
           fresh == turn.chunks \ kept
       IN \E M \in kSubset(Min({s.memory, Cardinality(turn.recalled)}), turn.recalled),
             C \in kSubset(Min({s.chunk, Cardinality(fresh)}), fresh) :
            LET over == Overhead + Cardinality(kept) + Cardinality(C) + Cardinality(M) - s.max
                window == Newest(kept, Cardinality(kept) - Max({over, 0}))
                more == over - Cardinality(kept)
            IN \E D \in kSubset(Max({0, Min({more, Cardinality(C)})}), C),
                  N \in kSubset(Max({0, Min({more - Cardinality(C), Cardinality(M)})}), M) :
                 turn' = [turn EXCEPT !.window = window, !.memory = M \ N, !.chunk = C \ D]
    /\ UNCHANGED <<modeVars, client, isolated, script, next, current, said, observed>>

\* _diagnostics: the turn is labelled with the mode of the settings by then.
Label ==
    /\ pc = "label" /\ pc' = "done"
    /\ turn' = [turn EXCEPT !.label = settings.mode]
    /\ UNCHANGED <<modeVars, client, isolated, script, next, current, said, observed>>

Turn == Recall \/ Prepare \/ RetrieveChunks \/ Build \/ Label

SidebarStep == client = "sidebar" /\ Sidebar /\ UNCHANGED runVars

\* The visitor may leave, and a replay is over with its question.
Rest == pc \in {"idle", "done"} /\ UNCHANGED vars

Next ==
    \/ ReplayMessage \/ ReplayBoundary \/ Ask
    \/ SidebarStep \/ SidebarChat \/ ApiChat \/ ApiSwitch
    \/ Turn \/ Rest

Spec == Init /\ [][Next]_vars

-----------------------------------------------------------------------------
Built  == pc \in {"label", "done"}
Prompt == turn.window \cup turn.memory \cup turn.chunk

\* Types, and the parts of a prompt are what they are called.
TypeOK ==
    /\ settings \in SettingsType
    /\ \A r \in requests : r.kind \in {"mode", "form"}
    /\ tuned \in BOOLEAN /\ changed \in BOOLEAN /\ edited \in BOOLEAN
    /\ script \in Seq(Message) /\ said \cup observed \subseteq DOMAIN script
    /\ observed \subseteq {i \in DOMAIN script : script[i].says = "statement"}
    /\ turn.memory \subseteq turn.recalled /\ turn.chunk \subseteq turn.chunks
    /\ turn.window \subseteq History

\* When the server has answered every request and the visitor has left no edit
\* behind, the sidebar shows the budgets the next turn will run with (ui.py:875), in
\* whatever order modes were selected and forms submitted.  It holds when the sidebar's
\* requests are served one at a time.
SidebarTruthful ==
    client = "sidebar" /\ requests = {} /\ ~edited =>
        /\ form.mode = settings.mode
        /\ \A f \in Sliders : form[f] = settings[f]

\* A message of an earlier session never reaches the prompt of an isolated replay, by any
\* of the three routes: what scoring.py declares unreachable (unavailable_required_facts)
\* is not there.
IsolationHolds ==
    client = "replay" /\ isolated /\ Built =>
        \A i \in Prompt : script[i].session = script[Len(script)].session

\* The reference of every comparison: the full-context prompt of a replay in one session
\* holds the whole conversation, however long, and no other mode's prompt costs more
\* (_raise_session_ceiling, replay_ceiling).
ReferenceIsWhole ==
    client = "replay" /\ ~isolated /\ Built =>
        /\ settings.mode = "full_context" => Prompt = said
        /\ Cardinality(turn.window) + Cardinality(turn.memory) + Cardinality(turn.chunk)
             + Overhead <= settings.max

\* A prompt carries evidence only of the kinds that the mode it was built under uses, and
\* the turn is labelled with that mode.  Evidence is kept out twice, where it is looked up
\* and by budgets of zero: the settings may change in the middle of a turn, or the
\* visitor may set the budgets by hand, but not both.
EvidenceFitsMode ==
    Built =>
        /\ ~(changed /\ turn.tuned) =>
             /\ turn.memory # {} => UsesMemory(turn.under.mode)
             /\ turn.chunk # {} => UsesRag(turn.under.mode)
        /\ pc = "done" /\ ~changed => turn.label = turn.under.mode
===============================================================================
