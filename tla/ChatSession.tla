------------------------------ MODULE ChatSession ------------------------------
(***************************************************************************)
(* One process of the chat application: app/controller.py's callbacks,     *)
(* app/service.py's conversation turn, app/session.py's registry and the   *)
(* two SQLite mirrors, with several handler threads at work.  A callback   *)
(* is a sequence of steps; between two steps of one handler, the others    *)
(* may take theirs.  Nothing but the session registry holds a lock.        *)
(*                                                                         *)
(* Texts are abstract: a message, a memory and a row are identified by the *)
(* call of chat they come from.  Cost ceilings are in ChatBudget.          *)
(***************************************************************************)
EXTENDS Naturals, Sequences

CONSTANTS
    Handlers,      \* handler threads
    Sids,          \* identifiers new_id() can return
    Keys,          \* provider keys a visitor can type
    NoSid, NoKey, NoClient,
    Operations,    \* the callbacks visitors use, among AllOperations
    StoreOutcomes, \* subset of BOOLEAN: {TRUE} when the stores never fail
    Opened,        \* the sessions page loads opened before the first callback
    MaxCalls       \* bound: callbacks in a behaviour

AllOperations == {"chat", "clear_conversation", "clear_memory", "end_session",
                  "connect", "disconnect"}

ASSUME OperationsKnown == Operations \subseteq AllOperations
ASSUME OutcomesTyped   == StoreOutcomes \subseteq BOOLEAN /\ TRUE \in StoreOutcomes
ASSUME NothingIsNothing == NoSid \notin Sids /\ NoKey \notin Keys /\ NoKey # NoClient
                           /\ NoClient \notin Keys
ASSUME BoundsTyped     == Opened \subseteq Sids /\ MaxCalls \in Nat

None  == 0
Calls == 1..MaxCalls

VARIABLES
    live,       \* SessionManager._sessions
    used,       \* every identifier handed out so far
    key,        \* state.provider.api_key of each session
    messages,   \* state.messages: [turn, role] in order
    conv,       \* state.conversation_id, as the number of times it was renewed
    brain,      \* state.brain: an adapter or None
    services,   \* UIController._services: the cached service of each session
    svc,        \* the ConversationService objects: [sid, adapter, client]
    adapters,   \* the BrainOS adapters: [sid, holds], holds the turns observed
    convRows,   \* rows of the messages table
    memRows,    \* rows of the memories table
    lapsed,     \* history: a store call failed
    lastTurn,   \* UIController._last_turn
    pc,         \* where each handler stands
    job,        \* its locals
    calls,      \* callbacks so far; a call's number names its turn
    ranIn,      \* history: the session each turn ran in
    ended,      \* history: sessions whose end_session reported success
    wiped       \* history: turns that were in a transcript when it was cleared

registry == <<live, used>>
state    == <<key, messages, conv, brain>>
objects  == <<services, svc, adapters>>
rows     == <<convRows, memRows, lapsed>>
history  == <<ranIn, ended, wiped>>
vars     == <<registry, state, objects, rows, lastTurn, pc, job, calls, history>>

NoJob == [call |-> 0, sid |-> NoSid, at |-> NoSid, svc |-> None, adapter |-> None,
          client |-> NoClient, conv |-> 0, history |-> {}, recalled |-> {}]

Init ==
    /\ live = Opened
    /\ used = Opened
    /\ key = [s \in Sids |-> NoKey]
    /\ messages = [s \in Sids |-> <<>>]
    /\ conv = [s \in Sids |-> 0]
    /\ brain = [s \in Sids |-> None]
    /\ services = [s \in Sids |-> None]
    /\ svc = <<>> /\ adapters = <<>>
    /\ convRows = {} /\ memRows = {} /\ lapsed = FALSE
    /\ lastTurn = [s \in Sids |-> None]
    /\ pc = [h \in Handlers |-> "idle"]
    /\ job = [h \in Handlers |-> NoJob]
    /\ calls = 0
    /\ ranIn = [t \in Calls |-> NoSid]
    /\ ended = {}
    /\ wiped = {}

\* Bound: of a behaviour's store calls at most one fails.
Outcomes == IF lapsed THEN {TRUE} ELSE StoreOutcomes

\* A failed store call is logged and nothing else.
Attempt(ok) == lapsed' = (lapsed \/ ~ok)

Goto(h, from, to) ==
    /\ pc[h] = from
    /\ pc' = [pc EXCEPT ![h] = to]

\* The callback returns its view; its locals are gone.
Return(h, from) ==
    /\ Goto(h, from, "idle")
    /\ job' = [job EXCEPT ![h] = NoJob]

-------------------------------------------------------------------------------
(* Sessions and services.                                                  *)

\* new_id(): an identifier never handed out before; which one is immaterial.
NewSid == CHOOSE s \in Sids : used # Sids => s \notin used

\* Mutant: the generator does not remember what it handed out.
Start_Forgets(s) == s \notin used /\ UNCHANGED used

Start(s) ==
    /\ s \notin used
    /\ used' = used \cup {s}

\* ensure_session: an identifier the process does not hold gets a new session.
Resolved(asked) == IF asked \in live THEN asked ELSE NewSid

EnsureSession(asked) ==
    IF asked \in live THEN UNCHANGED registry
    ELSE Start(NewSid) /\ live' = live \cup {NewSid}

\* A callback arrives from a tab that holds some identifier it was given.
Begin(h, operation, asked, to, s) ==
    /\ operation \in Operations
    /\ calls < MaxCalls
    /\ asked \in used
    /\ Goto(h, "idle", to)
    /\ calls' = calls + 1
    /\ job' = [job EXCEPT ![h] = [NoJob EXCEPT !.call = calls', !.sid = s]]

Said(s) == {messages[s][i].turn : i \in DOMAIN messages[s]}

\* The in-memory part of SessionState.clear_conversation.
ClearState(s) ==
    /\ messages' = [messages EXCEPT ![s] = <<>>]
    /\ conv' = [conv EXCEPT ![s] = @ + 1]
    /\ brain' = [brain EXCEPT ![s] = None]
    /\ wiped' = wiped \cup Said(s)

NewAdapter(s) == adapters' = Append(adapters, [sid |-> s, holds |-> {}])

\* A ConversationService is built around an adapter and cached.
CacheService(h, s, adapter) ==
    /\ svc' = Append(svc, [sid |-> s, adapter |-> adapter, client |-> NoClient])
    /\ services' = [services EXCEPT ![s] = Len(svc')]
    /\ job' = [job EXCEPT ![h].svc = Len(svc')]

Home(h)    == svc[job[h].svc].sid
Runtime(h) == svc[job[h].svc].adapter

-------------------------------------------------------------------------------
(* chat: the session's service ...                                         *)

BeginChat(h, asked) ==
    /\ Begin(h, "chat", asked, "check", Resolved(asked))
    /\ EnsureSession(asked)
    /\ UNCHANGED <<state, objects, rows, lastTurn, history>>

\* An empty or overlong message, or a ceiling of the session's ChatBudget.
Refuse(h) ==
    /\ Return(h, "check")
    /\ UNCHANGED <<registry, state, objects, rows, lastTurn, calls, history>>

ServiceFound(h) ==
    /\ Goto(h, "check", "append")
    /\ job[h].sid \in live
    /\ services[job[h].sid] # None
    /\ job' = [job EXCEPT ![h].svc = services[job[h].sid]]
    /\ UNCHANGED <<registry, state, objects, rows, lastTurn, calls, history>>

\* service() calls ensure_session again: if the session was ended meanwhile,
\* the turn goes on in a new one.
ServiceMissing(h) ==
    /\ Goto(h, "check", "construct")
    /\ EnsureSession(job[h].sid)
    /\ services[Resolved(job[h].sid)] = None
    /\ job' = [job EXCEPT ![h].at = Resolved(job[h].sid)]
    /\ UNCHANGED <<state, objects, rows, lastTurn, calls, history>>

BindRuntime(h) ==
    /\ Goto(h, "construct", "append")
    /\ brain[job[h].at] # None
    /\ CacheService(h, job[h].at, brain[job[h].at])
    /\ UNCHANGED <<registry, state, adapters, rows, lastTurn, calls, history>>

NewRuntime(h) ==
    /\ Goto(h, "construct", "attach")
    /\ brain[job[h].at] = None
    /\ NewAdapter(job[h].at)
    /\ job' = [job EXCEPT ![h].adapter = Len(adapters')]
    /\ UNCHANGED <<registry, state, services, svc, rows, lastTurn, calls, history>>

\* BrainOS is not installed or cannot start.
RuntimeUnavailable(h) ==
    /\ Return(h, "construct")
    /\ brain[job[h].at] = None
    /\ UNCHANGED <<registry, state, objects, rows, lastTurn, calls, history>>

AttachRuntime(h) ==
    /\ Goto(h, "attach", "append")
    /\ brain' = [brain EXCEPT ![job[h].at] = job[h].adapter]
    /\ CacheService(h, job[h].at, job[h].adapter)
    /\ UNCHANGED <<registry, key, messages, conv, adapters, rows, lastTurn, calls,
                   history>>

-------------------------------------------------------------------------------
(* ... and ConversationService.handle_user_message.                        *)

Say(h, role) ==
    messages' = [messages EXCEPT ![Home(h)] =
                     Append(@, [turn |-> job[h].call, role |-> role])]

\* Mutant: rows are written under the session the tab named.
Persist_Asked(h, role, ok) ==
    convRows' = IF ok THEN convRows \cup {[sid |-> job[h].sid, conv |-> conv[Home(h)],
                                           turn |-> job[h].call, role |-> role]}
                ELSE convRows

Persist(h, role, ok) ==
    convRows' = IF ok THEN convRows \cup {[sid |-> Home(h), conv |-> conv[Home(h)],
                                           turn |-> job[h].call, role |-> role]}
                ELSE convRows

\* The policy may accept nothing from a text.
Observe(h, accepted) ==
    adapters' = IF accepted
                THEN [adapters EXCEPT ![Runtime(h)].holds = @ \cup {job[h].call}]
                ELSE adapters

AppendUser(h) ==
    /\ Goto(h, "append", "persist_user")
    /\ Say(h, "user")
    /\ ranIn' = [ranIn EXCEPT ![job[h].call] = Home(h)]
    /\ UNCHANGED <<registry, key, conv, brain, objects, rows, lastTurn, job, calls,
                   ended, wiped>>

PersistUser(h, ok) ==
    /\ Goto(h, "persist_user", "observe_user")
    /\ Attempt(ok)
    /\ Persist(h, "user", ok)
    /\ UNCHANGED <<registry, state, objects, memRows, lastTurn, job, calls, history>>

ObserveUser(h, accepted) ==
    /\ Goto(h, "observe_user", "build")
    /\ Observe(h, accepted)
    /\ UNCHANGED <<registry, state, services, svc, rows, lastTurn, job, calls, history>>

\* Mutant: the message just said counts as history.
BuildContext_All(h) ==
    /\ Goto(h, "build", "generate")
    /\ job' = [job EXCEPT ![h].history  = Said(Home(h)),
                          ![h].recalled = adapters[Runtime(h)].holds]
    /\ UNCHANGED <<registry, state, objects, rows, lastTurn, calls, history>>

\* The last message is taken to be this turn's, the rest to be its history.
BuildContext(h) ==
    LET said == messages[Home(h)] IN
    /\ Goto(h, "build", "generate")
    /\ job' = [job EXCEPT ![h].history  = {said[i].turn : i \in 1..(Len(said) - 1)},
                          ![h].recalled = adapters[Runtime(h)].holds]
    /\ UNCHANGED <<registry, state, objects, rows, lastTurn, calls, history>>

Client(h)      == svc[job[h].svc].client
CanGenerate(h) == Client(h) # NoClient \/ key[Home(h)] # NoKey

SkipProvider(h) ==
    /\ Goto(h, "generate", "mirror")
    /\ ~CanGenerate(h)
    /\ UNCHANGED <<registry, state, objects, rows, lastTurn, job, calls, history>>

Generate(h) ==
    /\ Goto(h, "generate", "provider")
    /\ CanGenerate(h)
    /\ UNCHANGED <<registry, state, objects, rows, lastTurn, job, calls, history>>

\* provider(): the cached client, or one built from the key as it is now ...
CachedClient(h) ==
    /\ Goto(h, "provider", "sent")
    /\ Client(h) # NoClient
    /\ job' = [job EXCEPT ![h].client = Client(h)]
    /\ UNCHANGED <<registry, state, objects, rows, lastTurn, calls, history>>

BuildClient(h) ==
    /\ Goto(h, "provider", "cache_client")
    /\ Client(h) = NoClient
    /\ job' = [job EXCEPT ![h].client = key[Home(h)]]
    /\ UNCHANGED <<registry, state, objects, rows, lastTurn, calls, history>>

\* ... which is cached a step later.
CacheClient(h) ==
    /\ Goto(h, "cache_client", "sent")
    /\ svc' = [svc EXCEPT ![job[h].svc].client = job[h].client]
    /\ UNCHANGED <<registry, state, services, adapters, rows, lastTurn, job, calls,
                   history>>

\* A reply; an empty one is not appended.  Without a key nothing is requested.
Reply(h, empty) ==
    /\ Goto(h, "sent", IF empty THEN "mirror" ELSE "append_reply")
    /\ job[h].client # NoKey
    /\ UNCHANGED <<registry, state, objects, rows, lastTurn, job, calls, history>>

\* Mutant: no timeout, so only a request that could not be sent fails.
ProviderFails_Unsent(h) ==
    /\ Goto(h, "sent", "mirror")
    /\ job[h].client = NoKey
    /\ UNCHANGED <<registry, state, objects, rows, lastTurn, job, calls, history>>

\* A ProviderError, or the wall-clock timeout, which abandons the request:
\* whatever the provider answers later is thrown away.
ProviderFails(h) ==
    /\ Goto(h, "sent", "mirror")
    /\ UNCHANGED <<registry, state, objects, rows, lastTurn, job, calls, history>>

\* Anything else that is raised ends the callback where it stands.
Raise(h) ==
    /\ \E at \in {"observe_user", "build", "sent", "observe_reply"} : Return(h, at)
    /\ UNCHANGED <<registry, state, objects, rows, lastTurn, calls, history>>

AppendReply(h) ==
    /\ Goto(h, "append_reply", "observe_reply")
    /\ Say(h, "assistant")
    /\ UNCHANGED <<registry, key, conv, brain, objects, rows, lastTurn, job, calls,
                   history>>

ObserveReply(h, accepted) ==
    /\ Goto(h, "observe_reply", "persist_reply")
    /\ Observe(h, accepted)
    /\ UNCHANGED <<registry, state, services, svc, rows, lastTurn, job, calls, history>>

PersistReply(h, ok) ==
    /\ Goto(h, "persist_reply", "mirror")
    /\ Attempt(ok)
    /\ Persist(h, "assistant", ok)
    /\ UNCHANGED <<registry, state, objects, memRows, lastTurn, job, calls, history>>

\* The whole memory set is upserted; rows of forgotten memories are not removed.
PersistMemories(h, ok) ==
    /\ Goto(h, "mirror", "finish")
    /\ Attempt(ok)
    /\ memRows' = IF ok THEN memRows \cup {[sid |-> Home(h), turn |-> t] :
                                               t \in adapters[Runtime(h)].holds}
                  ELSE memRows
    /\ UNCHANGED <<registry, state, objects, convRows, lastTurn, job, calls, history>>

FinishChat(h) ==
    /\ Return(h, "finish")
    /\ lastTurn' = [lastTurn EXCEPT ![job[h].sid] = job[h].call]
    /\ UNCHANGED <<registry, state, objects, rows, calls, history>>

Chat(h) ==
    \/ \E asked \in Sids : BeginChat(h, asked)
    \/ Refuse(h) \/ ServiceFound(h) \/ ServiceMissing(h)
    \/ BindRuntime(h) \/ NewRuntime(h) \/ RuntimeUnavailable(h) \/ AttachRuntime(h)
    \/ AppendUser(h)
    \/ \E ok \in Outcomes : PersistUser(h, ok)
    \/ \E accepted \in BOOLEAN : ObserveUser(h, accepted)
    \/ BuildContext(h)
    \/ SkipProvider(h) \/ Generate(h)
    \/ CachedClient(h) \/ BuildClient(h) \/ CacheClient(h)
    \/ \E empty \in BOOLEAN : Reply(h, empty)
    \/ ProviderFails(h) \/ Raise(h)
    \/ AppendReply(h)
    \/ \E accepted \in BOOLEAN : ObserveReply(h, accepted)
    \/ \E ok \in Outcomes : PersistReply(h, ok)
    \/ \E ok \in Outcomes : PersistMemories(h, ok)
    \/ FinishChat(h)

-------------------------------------------------------------------------------
(* Clearing: the conversation, or only what BrainOS remembers.             *)

BeginClear(h, asked) ==
    /\ Begin(h, "clear_conversation", asked, "clear", Resolved(asked))
    /\ EnsureSession(asked)
    /\ UNCHANGED <<state, objects, rows, lastTurn, history>>

BeginForget(h, asked) ==
    /\ Begin(h, "clear_memory", asked, "forget", Resolved(asked))
    /\ EnsureSession(asked)
    /\ UNCHANGED <<state, objects, rows, lastTurn, history>>

\* No service, no rows: only the session state is cleared.
ClearWithoutService(h) ==
    LET s == job[h].sid IN
    /\ Return(h, "clear")
    /\ services[s] = None
    /\ ClearState(s)
    /\ lastTurn' = [lastTurn EXCEPT ![s] = None]
    /\ UNCHANGED <<registry, key, objects, rows, calls, ranIn, ended>>

ClearTranscript(h) ==
    LET s == job[h].sid IN
    /\ Goto(h, "clear", "clear_rows")
    /\ services[s] # None
    /\ ClearState(s)
    /\ job' = [job EXCEPT ![h].svc = services[s], ![h].conv = conv[s]]
    /\ UNCHANGED <<registry, key, objects, rows, lastTurn, calls, ranIn, ended>>

\* Mutant: the identifier is read after it has been renewed.
DeleteConversation_Renewed(h, ok) ==
    /\ Goto(h, "clear_rows", "clear_mirror")
    /\ Attempt(ok)
    /\ convRows' = {r \in convRows : ~(r.sid = job[h].sid /\ r.conv = conv[r.sid])}
    /\ UNCHANGED <<registry, state, objects, memRows, lastTurn, job, calls, history>>

DeleteConversation(h, ok) ==
    /\ Goto(h, "clear_rows", "clear_mirror")
    /\ Attempt(ok)
    /\ convRows' = IF ok THEN {r \in convRows : ~(r.sid = job[h].sid /\ r.conv = job[h].conv)}
                   ELSE convRows
    /\ UNCHANGED <<registry, state, objects, memRows, lastTurn, job, calls, history>>

ForgetWithoutService(h) ==
    LET s == job[h].sid IN
    /\ Return(h, "forget")
    /\ services[s] = None
    /\ brain' = [brain EXCEPT ![s] = None]
    /\ lastTurn' = [lastTurn EXCEPT ![s] = None]
    /\ UNCHANGED <<registry, key, messages, conv, objects, rows, calls, history>>

ForgetWithService(h) ==
    /\ Goto(h, "forget", "clear_mirror")
    /\ services[job[h].sid] # None
    /\ job' = [job EXCEPT ![h].svc = services[job[h].sid]]
    /\ UNCHANGED <<registry, state, objects, rows, lastTurn, calls, history>>

\* Mutant: only the runtime forgets.
ClearMirror_Kept(h, ok) ==
    /\ Goto(h, "clear_mirror", "renew")
    /\ UNCHANGED <<registry, state, objects, rows, lastTurn, job, calls, history>>

\* reset_memory: first the durable copy, then the runtime.
ClearMirror(h, ok) ==
    /\ Goto(h, "clear_mirror", "renew")
    /\ Attempt(ok)
    /\ memRows' = IF ok THEN {r \in memRows : r.sid # job[h].sid} ELSE memRows
    /\ UNCHANGED <<registry, state, objects, convRows, lastTurn, job, calls, history>>

RenewRuntime(h) ==
    LET s == job[h].sid IN
    /\ Return(h, "renew")
    /\ NewAdapter(s)
    /\ svc' = [svc EXCEPT ![job[h].svc].adapter = Len(adapters')]
    /\ brain' = [brain EXCEPT ![s] = Len(adapters')]
    /\ lastTurn' = [lastTurn EXCEPT ![s] = None]
    /\ UNCHANGED <<registry, key, messages, conv, services, rows, calls, history>>

Clear(h) ==
    \/ \E asked \in Sids : BeginClear(h, asked) \/ BeginForget(h, asked)
    \/ ClearWithoutService(h) \/ ClearTranscript(h)
    \/ ForgetWithoutService(h) \/ ForgetWithService(h)
    \/ \E ok \in Outcomes : DeleteConversation(h, ok) \/ ClearMirror(h, ok)
    \/ RenewRuntime(h)

-------------------------------------------------------------------------------
(* end_session, whatever identifier the tab still holds.                   *)

BeginEnd(h, asked) ==
    /\ Begin(h, "end_session", asked, "end_rows", asked)
    /\ services' = [services EXCEPT ![asked] = None]
    /\ lastTurn' = [lastTurn EXCEPT ![asked] = None]
    /\ UNCHANGED <<registry, state, svc, adapters, rows, history>>

EndConversations(h, ok) ==
    /\ Goto(h, "end_rows", "end_mirror")
    /\ Attempt(ok)
    /\ convRows' = IF ok THEN {r \in convRows : r.sid # job[h].sid} ELSE convRows
    /\ UNCHANGED <<registry, state, objects, memRows, lastTurn, job, calls, history>>

EndMirror(h, ok) ==
    /\ Goto(h, "end_mirror", "end")
    /\ Attempt(ok)
    /\ memRows' = IF ok THEN {r \in memRows : r.sid # job[h].sid} ELSE memRows
    /\ UNCHANGED <<registry, state, objects, convRows, lastTurn, job, calls, history>>

\* Mutant: the session is closed, its state object left as it was.
EndSession_Uncleared(h) ==
    /\ Return(h, "end")
    /\ Start(NewSid)
    /\ live' = (live \ {job[h].sid}) \cup {NewSid}
    /\ ended' = ended \cup ({job[h].sid} \cap live)
    /\ UNCHANGED <<state, objects, rows, lastTurn, calls, ranIn, wiped>>

\* SessionManager.end, then start for the tab's next session.
EndSession(h) ==
    LET old == job[h].sid IN
    /\ Return(h, "end")
    /\ Start(NewSid)
    /\ live' = (live \ {old}) \cup {NewSid}
    /\ IF old \in live
       THEN /\ key' = [key EXCEPT ![old] = NoKey]
            /\ ClearState(old)
            /\ ended' = ended \cup {old}
       ELSE UNCHANGED <<state, ended, wiped>>
    /\ UNCHANGED <<objects, rows, lastTurn, calls, ranIn>>

End(h) ==
    \/ \E asked \in Sids : BeginEnd(h, asked)
    \/ \E ok \in Outcomes : EndConversations(h, ok) \/ EndMirror(h, ok)
    \/ EndSession(h)

-------------------------------------------------------------------------------
(* The provider key.                                                       *)

\* Mutant: the cached client survives.
ResetClient_Kept(s) == svc' = svc

\* reset_provider on the session's service, if there is one.
ResetClient(s) ==
    svc' = IF services[s] # None THEN [svc EXCEPT ![services[s]].client = NoClient]
           ELSE svc

\* connect stores the new configuration; a blank key keeps the one in use.
BeginConnect(h, asked, k) ==
    /\ Begin(h, "connect", asked, "connect", Resolved(asked))
    /\ EnsureSession(asked)
    /\ key' = [key EXCEPT ![Resolved(asked)] = k]
    /\ UNCHANGED <<messages, conv, brain, objects, rows, lastTurn, history>>

\* Validating the key uses a client of its own, which is not kept.
FinishConnect(h) ==
    /\ Return(h, "connect")
    /\ ResetClient(job[h].sid)
    /\ UNCHANGED <<registry, state, services, adapters, rows, lastTurn, calls, history>>

BeginDisconnect(h, asked) ==
    /\ Begin(h, "disconnect", asked, "disconnect", Resolved(asked))
    /\ EnsureSession(asked)
    /\ ResetClient(Resolved(asked))
    /\ UNCHANGED <<state, services, adapters, rows, lastTurn, history>>

FinishDisconnect(h) ==
    /\ Return(h, "disconnect")
    /\ key' = [key EXCEPT ![job[h].sid] = NoKey]
    /\ UNCHANGED <<registry, messages, conv, brain, objects, rows, lastTurn, calls,
                   history>>

Provider(h) ==
    \/ \E asked \in Sids : BeginDisconnect(h, asked)
    \/ \E asked \in Sids : \E k \in Keys \cup {key[Resolved(asked)]} : BeginConnect(h, asked, k)
    \/ FinishConnect(h) \/ FinishDisconnect(h)

-------------------------------------------------------------------------------

Quiet == \A h \in Handlers : pc[h] = "idle"

\* The visitors have gone.
Rest == Quiet /\ calls = MaxCalls /\ UNCHANGED vars

Next == \/ \E h \in Handlers : Chat(h) \/ Clear(h) \/ End(h) \/ Provider(h)
        \/ Rest

Spec == Init /\ [][Next]_vars

\* The steps a handler takes by itself.  A provider need not answer, but the
\* request timeout is always set, so waiting for it ends.
Proceed(h) ==
    \/ ServiceFound(h) \/ ServiceMissing(h)
    \/ BindRuntime(h) \/ NewRuntime(h) \/ AttachRuntime(h)
    \/ AppendUser(h) \/ BuildContext(h) \/ AppendReply(h) \/ FinishChat(h)
    \/ SkipProvider(h) \/ Generate(h)
    \/ CachedClient(h) \/ BuildClient(h) \/ CacheClient(h) \/ ProviderFails(h)
    \/ \E b \in BOOLEAN : ObserveUser(h, b) \/ ObserveReply(h, b)
    \/ \E ok \in Outcomes : \/ PersistUser(h, ok) \/ PersistReply(h, ok)
                                 \/ PersistMemories(h, ok)
                                 \/ DeleteConversation(h, ok) \/ ClearMirror(h, ok)
                                 \/ EndConversations(h, ok) \/ EndMirror(h, ok)
    \/ ClearWithoutService(h) \/ ClearTranscript(h)
    \/ ForgetWithoutService(h) \/ ForgetWithService(h) \/ RenewRuntime(h)
    \/ EndSession(h)
    \/ FinishConnect(h) \/ FinishDisconnect(h)

FairSpec == Spec /\ \A h \in Handlers : WF_vars(Proceed(h))

-------------------------------------------------------------------------------

Steps == {"idle", "check", "construct", "attach", "append", "persist_user",
          "observe_user", "build", "generate", "provider", "cache_client", "sent",
          "append_reply", "observe_reply", "persist_reply", "mirror", "finish",
          "clear", "clear_rows", "forget", "clear_mirror", "renew", "end_rows",
          "end_mirror", "end", "connect", "disconnect"}
Roles == {"user", "assistant"}

TypeOK ==
    /\ live \subseteq used /\ used \subseteq Sids
    /\ key \in [Sids -> Keys \cup {NoKey}]
    /\ \A s \in Sids : \A i \in DOMAIN messages[s] :
           messages[s][i] \in [turn : Calls, role : Roles]
    /\ conv \in [Sids -> 0..MaxCalls]
    /\ brain \in [Sids -> 0..Len(adapters)]
    /\ services \in [Sids -> 0..Len(svc)]
    /\ \A i \in DOMAIN svc : svc[i] \in [sid : Sids, adapter : 1..Len(adapters),
                                         client : Keys \cup {NoKey, NoClient}]
    /\ \A i \in DOMAIN adapters : adapters[i] \in [sid : Sids, holds : SUBSET Calls]
    /\ convRows \subseteq [sid : Sids, conv : 0..MaxCalls, turn : Calls, role : Roles]
    /\ memRows \subseteq [sid : Sids, turn : Calls]
    /\ lastTurn \in [Sids -> {None} \cup Calls]
    /\ pc \in [Handlers -> Steps]
    /\ calls \in 0..MaxCalls
    /\ ranIn \in [Calls -> Sids \cup {NoSid}]
    /\ ended \subseteq used
    /\ wiped \subseteq Calls

-------------------------------------------------------------------------------
(* What holds however the callbacks interleave.                            *)

\* A turn leaves its traces (messages, memories, rows, the prompt it was
\* answered from) only in the session it ran in, whichever sessions are ended,
\* cleared or replaced meanwhile.
NoSessionMixing ==
    /\ \A s \in Sids : \A i \in DOMAIN messages[s] : ranIn[messages[s][i].turn] = s
    /\ \A r \in convRows \cup memRows : ranIn[r.turn] = r.sid
    /\ \A i \in DOMAIN adapters : \A t \in adapters[i].holds : ranIn[t] = adapters[i].sid
    /\ \A h \in Handlers : \A t \in job[h].history \cup job[h].recalled :
           ranIn[t] = ranIn[job[h].call]

\* A service talks to the runtime of its own session, and the registry's
\* clear and end reach the service that holds that session's data.
ServicesBound ==
    /\ \A i \in DOMAIN svc : adapters[svc[i].adapter].sid = svc[i].sid
    /\ \A s \in Sids : services[s] # None => svc[services[s]].sid = s

\* A turn runs in another session than the one its tab named only if that
\* one was ended before the turn reached it.
DivertedOnlyIfEnded ==
    \A h \in Handlers :
        job[h].sid # NoSid /\ ranIn[job[h].call] \notin {NoSid, job[h].sid} =>
            job[h].sid \notin live

\* Nothing of one session is found in another, and no service serves two: the
\* product promises isolated sessions whatever handlers interleave.
SessionsIsolated == NoSessionMixing /\ ServicesBound /\ DivertedOnlyIfEnded

\* A reply stands after its own question in the transcript, unless the
\* question was cleared away while the provider was still answering it.
ReplyFollowsQuestion ==
    \A s \in Sids : \A i \in DOMAIN messages[s] :
        LET m == messages[s][i] IN
        m.role = "assistant" =>
            \/ m.turn \in wiped
            \/ \E j \in 1..(i - 1) : messages[s][j] = [turn |-> m.turn, role |-> "user"]

\* Of the turns that were never cleared away, the messages table holds, when no
\* callback runs, exactly what the transcripts of the open sessions say, unless a
\* store call failed: every question, and no message that is not there.  (A reply is
\* missing when observing it raised.)
Transcripts ==
    UNION {{[sid |-> s, turn |-> messages[s][i].turn, role |-> messages[s][i].role] :
               i \in DOMAIN messages[s]} : s \in live}

TranscriptMirrored ==
    LET persisted == {[sid |-> r.sid, turn |-> r.turn, role |-> r.role] : r \in convRows}
    IN  Quiet /\ ~lapsed =>
          /\ \A m \in persisted : m.sid \in live /\ m.turn \notin wiped => m \in Transcripts
          /\ \A m \in Transcripts : m.role = "user" => m \in persisted

\* What a transcript says is in order and is what the table holds.
TranscriptSound == ReplyFollowsQuestion /\ TranscriptMirrored

\* Every callback returns, even if the provider never answers.
CallbacksReturn == \A h \in Handlers : pc[h] # "idle" ~> pc[h] = "idle"

-------------------------------------------------------------------------------
(* What holds while callbacks run one at a time.                            *)

Remembered(s) == IF brain[s] = None THEN {} ELSE adapters[brain[s]].holds

\* reset_memory: "the durable copy must forget too": when no callback runs,
\* every memory row is a memory the session's runtime still has.
MirrorForgets == Quiet => \A r \in memRows : r.turn \in Remembered(r.sid)

\* The history of a prompt holds earlier turns, never the turn itself, whose
\* message the prompt states once, at its end.
HistoryIsEarlier == \A h \in Handlers : \A t \in job[h].history : t < job[h].call

\* "a client built from an old key must not keep serving after the key is
\* replaced or cleared": the cached client of a session has its current key.
ClientHasCurrentKey ==
    Quiet => \A s \in Sids : services[s] # None =>
                 svc[services[s]].client \in {NoClient, key[s]}

\* "construct one runtime per isolated application session": the services that
\* were built for one session share its runtime.
OneRuntimePerSession ==
    \A i, j \in DOMAIN svc : svc[i].sid = svc[j].sid => svc[i].adapter = svc[j].adapter

\* "Conversation and memory cleared - persisted rows deleted too": when no
\* callback runs, nothing is left of a turn that was in a cleared transcript.
ClearedStaysCleared ==
    Quiet => \A t \in wiped : /\ \A s \in Sids : t \notin Said(s)
                              /\ \A r \in convRows \cup memRows : r.turn # t

\* "Session ended - key, transcript, memory, and all persisted session rows
\* dropped".
EndedLeavesNothing ==
    \A s \in ended : /\ key[s] = NoKey /\ messages[s] = <<>>
                     /\ \A r \in convRows \cup memRows : r.sid # s

\* No service stays cached for a session that is gone.
ServicesOfOpenSessions == \A s \in Sids : services[s] # None => s \in live

\* A session has one runtime, and none of its services outlives it.
OneLiveRuntime == OneRuntimePerSession /\ ServicesOfOpenSessions

\* What is cached for a session (service, runtime, client) is the session's present one.
CachesCurrent == OneLiveRuntime /\ ClientHasCurrentKey

\* What was cleared, forgotten or ended with its session is in no transcript, no row and
\* no mirror.
ForgottenStaysForgotten == MirrorForgets /\ ClearedStaysCleared /\ EndedLeavesNothing

\* The data controls, seen as a whole: SessionData's promise.
Held(s) == Said(s) \cup Remembered(s)
               \cup {r.turn : r \in {q \in convRows \cup memRows : q.sid = s}}

Promise == INSTANCE SessionData WITH
               Turns <- Calls,
               phase <- [s \in Sids |-> IF s \in live THEN "open"
                                        ELSE IF s \in used THEN "ended" ELSE "unborn"],
               held  <- [s \in Sids |-> Held(s)]

KeepsPromise == Promise!Spec
===============================================================================
