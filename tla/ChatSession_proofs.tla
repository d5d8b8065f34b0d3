------------------------- MODULE ChatSession_proofs ---------------------------
(***************************************************************************)
(* What holds of ChatSession, for every set of handlers, sessions and      *)
(* keys, every number of callbacks and every interleaving of their steps:  *)
(* its types (TypeCorrect), sessions stay apart (SessionsStayIsolated),    *)
(* and their transcripts are in order and agree with the messages table    *)
(* (TranscriptsSound).  And what holds while the callbacks run one at a    *)
(* time: a prompt's history is of earlier turns (HistoriesAreEarlier),     *)
(* what is cached is current (CachesStayCurrent), what was forgotten stays *)
(* so (ForgottenStays), and SessionData is implemented (PromiseKept).      *)
(***************************************************************************)
EXTENDS ChatSession, FiniteSetTheorems, TLAPS

-------------------------------------------------------------------------------
(* Types.  The type invariant is not inductive as it stands: that an index *)
(* points into svc or adapters depends on where its handler stands         *)
(* (LocalsBound) and on the objects keeping their sessions (ObjectsBound), *)
(* and that a conversation's number stays below MaxCalls on counting the   *)
(* handlers that have yet to renew one (RenewalsBounded).                  *)

Clients  == Keys \cup {NoKey, NoClient}
Messages == [turn : Calls, role : Roles]
Services == [sid : Sids, adapter : Nat, client : Clients]
Adapters == [sid : Sids, holds : SUBSET Calls]
Jobs     == [call : 0..MaxCalls, sid : Sids \cup {NoSid}, at : Sids \cup {NoSid},
             svc : Nat, adapter : Nat, client : Clients, conv : Nat,
             history : SUBSET Calls, recalled : SUBSET Calls]

\* Where a turn has been said, where a handler holds a service, and where it
\* clears the data of the session it named.
Running  == {"persist_user", "observe_user", "build", "generate", "provider",
             "cache_client", "sent", "append_reply", "observe_reply",
             "persist_reply", "mirror", "finish"}
Clearing == {"clear_rows", "clear_mirror", "renew"}
Serving  == Running \cup Clearing \cup {"append"}

RegistryTyped ==
    /\ live \subseteq used /\ used \subseteq Sids
    /\ ended \subseteq used

HandlersTyped ==
    /\ pc \in [Handlers -> Steps]
    /\ job \in [Handlers -> Jobs]
    /\ calls \in 0..MaxCalls
    /\ \A h \in Handlers : pc[h] = "idle" => job[h] = NoJob
    /\ \A h \in Handlers : pc[h] # "idle" => job[h].call \in 1..calls /\ job[h].sid \in used
    /\ \A g, h \in Handlers :
           pc[g] # "idle" /\ pc[h] # "idle" /\ job[g].call = job[h].call => g = h

\* Every adapter, service and cached reference belongs to one session.
ObjectsBound ==
    /\ svc \in Seq(Services)
    /\ adapters \in Seq(Adapters)
    /\ services \in [Sids -> Nat]
    /\ brain \in [Sids -> Nat]
    /\ \A i \in DOMAIN svc : svc[i].adapter \in DOMAIN adapters
                             /\ adapters[svc[i].adapter].sid = svc[i].sid
    /\ \A s \in Sids : services[s] # None =>
           services[s] \in DOMAIN svc /\ svc[services[s]].sid = s
    /\ \A s \in Sids : brain[s] # None =>
           brain[s] \in DOMAIN adapters /\ adapters[brain[s]].sid = s

\* What a handler's locals refer to, between two of its steps.
LocalsOf(h) ==
    /\ pc[h] \in Serving  => job[h].svc \in DOMAIN svc
    /\ pc[h] \in Clearing => svc[job[h].svc].sid = job[h].sid
    /\ pc[h] \in {"construct", "attach"} => job[h].at \in Sids
    /\ pc[h] = "attach" => job[h].adapter \in DOMAIN adapters
                           /\ adapters[job[h].adapter].sid = job[h].at

LocalsBound == \A h \in Handlers : LocalsOf(h)

DataTyped ==
    /\ key \in [Sids -> Keys \cup {NoKey}]
    /\ messages \in [Sids -> Seq(Messages)]
    /\ conv \in [Sids -> Nat]
    /\ convRows \subseteq [sid : Sids, conv : Nat, turn : Calls, role : Roles]
    /\ memRows \subseteq [sid : Sids, turn : Calls]
    /\ lastTurn \in [Sids -> {None} \cup Calls]
    /\ ranIn \in [Calls -> Sids \cup {NoSid}]
    /\ wiped \subseteq Calls

\* The handlers whose callback will still renew a conversation, and the bound
\* they put on the number of renewals.
Renewals == {"clear", "end_rows", "end_mirror", "end"}
Renewing == {h \in Handlers : pc[h] \in Renewals}

RenewalsBounded ==
    /\ IsFiniteSet(Renewing)
    /\ \A s \in Sids : conv[s] + Cardinality(Renewing) <= calls
    /\ \A r \in convRows : r.conv <= calls

TypeInv == RegistryTyped /\ HandlersTyped /\ ObjectsBound /\ LocalsBound /\ DataTyped

-------------------------------------------------------------------------------
(* The registry: identifiers are never reused.                             *)

\* While an identifier is left, the generator returns a fresh one.
LEMMA NewSidTyped ==
    ASSUME RegistryTyped, NEW s \in Sids
    PROVE  NewSid \in Sids
<1>1. \E t \in Sids : used # Sids => t \notin used
  BY DEF RegistryTyped
<1> QED BY <1>1 DEF NewSid

\* A callback that names a session resolves it to one the process holds, and
\* opens none that was ever closed.
LEMMA ResolvedIsHeld ==
    ASSUME RegistryTyped, NEW asked \in Sids, EnsureSession(asked)
    PROVE  /\ Resolved(asked) \in live' /\ Resolved(asked) \in Sids
           /\ live' \subseteq used' /\ used' \subseteq Sids /\ used \subseteq used'
           /\ live' \cap used \subseteq live
           /\ asked \in live => Resolved(asked) = asked
BY NewSidTyped DEF RegistryTyped, EnsureSession, Resolved, Start, registry

\* A step closes sessions and opens fresh ones.
RegistryGrows ==
    /\ used \subseteq used'
    /\ live' \cap used \subseteq live

\* A step opens only sessions whose identifier was never handed out, and reopens none.
LEMMA RegistryStep ==
    ASSUME RegistryTyped, HandlersTyped, [Next]_vars
    PROVE  RegistryTyped' /\ RegistryGrows
<1> DEFINE Goal == RegistryTyped' /\ RegistryGrows
<1> USE DEF RegistryTyped, RegistryGrows
<1>1. ASSUME NEW asked \in Sids, EnsureSession(asked), UNCHANGED ended PROVE Goal
  BY <1>1, ResolvedIsHeld
<1>2. ASSUME UNCHANGED <<registry, ended>> PROVE Goal
  BY <1>2 DEF registry
<1>3. ASSUME NEW h \in Handlers, EndSession(h) PROVE Goal
  <2>1. job[h].sid \in used /\ pc[h] # "idle"
    BY <1>3 DEF EndSession, Return, Goto, HandlersTyped
  <2>2. NewSid \in Sids
    BY <2>1, NewSidTyped
  <2>3. ended' \subseteq ended \cup (live \cap {job[h].sid})
    BY <1>3 DEF EndSession
  <2> QED BY <1>3, <2>2, <2>3 DEF EndSession, Start
<1>4. ASSUME NEW h \in Handlers, Chat(h) PROVE Goal
  <2> USE DEF history
  <2>1. ASSUME NEW asked \in Sids, BeginChat(h, asked) PROVE Goal
    BY <1>1, <2>1 DEF BeginChat
  <2>2. ASSUME ServiceMissing(h) PROVE Goal
    <3>1. job[h].sid \in Sids
      BY <2>2 DEF ServiceMissing, Goto, HandlersTyped
    <3> QED BY <1>1, <2>2, <3>1 DEF ServiceMissing
  <2>3. CASE \/ Refuse(h) \/ ServiceFound(h) \/ BindRuntime(h) \/ NewRuntime(h)
             \/ RuntimeUnavailable(h) \/ AttachRuntime(h) \/ AppendUser(h)
    BY <1>2, <2>3 DEF Refuse, ServiceFound, BindRuntime, NewRuntime,
       RuntimeUnavailable, AttachRuntime, AppendUser
  <2>4. CASE \/ BuildContext(h) \/ SkipProvider(h) \/ Generate(h) \/ CachedClient(h)
             \/ BuildClient(h) \/ CacheClient(h) \/ ProviderFails(h) \/ Raise(h)
             \/ AppendReply(h) \/ FinishChat(h)
    BY <1>2, <2>4 DEF BuildContext, SkipProvider, Generate, CachedClient, BuildClient,
       CacheClient, ProviderFails, Raise, AppendReply, FinishChat
  <2>5. CASE \/ \E ok \in Outcomes : PersistUser(h, ok) \/ PersistReply(h, ok)
                                    \/ PersistMemories(h, ok)
             \/ \E b \in BOOLEAN : ObserveUser(h, b) \/ ObserveReply(h, b) \/ Reply(h, b)
    BY <1>2, <2>5 DEF PersistUser, PersistReply, PersistMemories, ObserveUser,
       ObserveReply, Reply
  <2> QED BY <1>4, <2>1, <2>2, <2>3, <2>4, <2>5 DEF Chat
<1>5. ASSUME NEW h \in Handlers, Clear(h) PROVE Goal
  <2> USE DEF history
  <2>1. ASSUME NEW asked \in Sids, BeginClear(h, asked) \/ BeginForget(h, asked) PROVE Goal
    BY <1>1, <2>1 DEF BeginClear, BeginForget
  <2>2. CASE ~\E asked \in Sids : BeginClear(h, asked) \/ BeginForget(h, asked)
    BY <1>2, <1>5, <2>2 DEF Clear, ClearWithoutService, ClearTranscript,
       ForgetWithoutService, ForgetWithService, DeleteConversation, ClearMirror,
       RenewRuntime
  <2> QED BY <2>1, <2>2
<1>6. ASSUME NEW h \in Handlers, End(h) PROVE Goal
  BY <1>2, <1>3, <1>6 DEF End, BeginEnd, EndConversations, EndMirror, history
<1>7. ASSUME NEW h \in Handlers, Provider(h) PROVE Goal
  <2> USE DEF history
  <2>1. ASSUME NEW asked \in Sids, NEW k, BeginDisconnect(h, asked) \/ BeginConnect(h, asked, k)
        PROVE Goal
    BY <1>1, <2>1 DEF BeginDisconnect, BeginConnect
  <2>2. CASE FinishConnect(h) \/ FinishDisconnect(h)
    BY <1>2, <2>2 DEF FinishConnect, FinishDisconnect
  <2> QED BY <1>7, <2>1, <2>2 DEF Provider
<1>8. CASE UNCHANGED vars
  BY <1>2, <1>8 DEF vars, history
<1> QED BY <1>4, <1>5, <1>6, <1>7, <1>8 DEF Next, Rest

-------------------------------------------------------------------------------
(* The handlers.                                                           *)

\* What a callback's first step does to the handlers.
LEMMA BeginTyped ==
    ASSUME HandlersTyped, NEW h \in Handlers, NEW operation, NEW asked,
           NEW to \in Steps \ {"idle"}, NEW s \in Sids,
           Begin(h, operation, asked, to, s), s \in used', used \subseteq used'
    PROVE  HandlersTyped'
<1> DEFINE j == [NoJob EXCEPT !.call = calls + 1, !.sid = s]
<1>1. calls \in Nat /\ calls + 1 \in 1..MaxCalls /\ calls' = calls + 1 /\ calls < MaxCalls
      /\ 0 \in 0..MaxCalls
  BY BoundsTyped DEF Begin, HandlersTyped
<1>2. NoJob \in Jobs
  BY <1>1 DEF Jobs, NoJob, Clients, None
<1>4. j \in Jobs /\ j.call = calls + 1 /\ j.sid = s
  <2>1. ASSUME NEW n \in Jobs, NEW c \in 0..MaxCalls
        PROVE  LET k == [n EXCEPT !.call = c, !.sid = s] IN
               k \in Jobs /\ k.call = c /\ k.sid = s
    BY DEF Jobs
  <2>2. calls + 1 \in 0..MaxCalls
    BY <1>1, BoundsTyped
  <2> QED BY <1>2, <2>1, <2>2
<1>3. job' = [job EXCEPT ![h] = j] /\ pc' = [pc EXCEPT ![h] = to] /\ pc[h] = "idle"
  BY <1>1 DEF Begin, Goto
<1> HIDE DEF j
<1> QED BY <1>1, <1>3, <1>4 DEF HandlersTyped

\* What any later step does to them: the turn and the named session stay.
SameCallback(h) ==
    /\ job' \in [Handlers -> Jobs]
    /\ job'[h].call = job[h].call /\ job'[h].sid = job[h].sid
    /\ \A g \in Handlers \ {h} : job'[g] = job[g]

\* A step in the middle of a callback: its handler moves on, the others stay.
LEMMA StepTyped ==
    ASSUME HandlersTyped, NEW h \in Handlers, NEW from, NEW to \in Steps \ {"idle"},
           Goto(h, from, to), from # "idle", SameCallback(h),
           calls' = calls, used \subseteq used'
    PROVE  HandlersTyped'
BY DEF HandlersTyped, Goto, SameCallback

\* What the last step of a callback does to them.
LEMMA ReturnTyped ==
    ASSUME HandlersTyped, NEW h \in Handlers, NEW from,
           Return(h, from), calls' = calls, used \subseteq used'
    PROVE  HandlersTyped'
<1>1. NoJob \in Jobs
  BY BoundsTyped DEF Jobs, NoJob, Clients, None
<1> QED BY <1>1 DEF HandlersTyped, Return, Goto, Steps

\* The steps of a turn, up to the one that says its message.
LEMMA HandlersBeforeTurn ==
    ASSUME TypeInv, RegistryGrows, RegistryTyped', NEW h \in Handlers,
           \/ \E asked \in Sids : BeginChat(h, asked)
           \/ Refuse(h) \/ ServiceFound(h) \/ ServiceMissing(h) \/ BindRuntime(h)
           \/ NewRuntime(h) \/ RuntimeUnavailable(h) \/ AttachRuntime(h)
    PROVE  HandlersTyped'
<1> USE DEF TypeInv, RegistryGrows
<1>1. ASSUME NEW asked \in Sids, BeginChat(h, asked) PROVE HandlersTyped'
  <2>1. Resolved(asked) \in live' /\ Resolved(asked) \in Sids
    BY <1>1, ResolvedIsHeld DEF BeginChat
  <2> QED BY <1>1, <2>1, BeginTyped DEF BeginChat, RegistryTyped, Steps
<1>2. CASE Refuse(h) \/ RuntimeUnavailable(h)
  BY <1>2, ReturnTyped DEF Refuse, RuntimeUnavailable
<1>3. CASE ServiceFound(h)
  <2>1. services[job[h].sid] \in Nat
    BY <1>3 DEF ServiceFound, RegistryTyped, ObjectsBound
  <2>2. SameCallback(h)
    BY <1>3, <2>1 DEF ServiceFound, SameCallback, HandlersTyped, Jobs
  <2> QED BY <1>3, <2>2, StepTyped DEF ServiceFound, Steps
<1>4. CASE ServiceMissing(h)
  <2>1. job[h].sid \in Sids
    BY <1>4 DEF ServiceMissing, Goto, HandlersTyped, RegistryTyped
  <2>2. Resolved(job[h].sid) \in Sids
    BY <1>4, <2>1, ResolvedIsHeld DEF ServiceMissing
  <2>3. SameCallback(h)
    BY <1>4, <2>2 DEF ServiceMissing, SameCallback, HandlersTyped, Jobs
  <2> QED BY <1>4, <2>3, StepTyped DEF ServiceMissing, Steps
<1>5. CASE BindRuntime(h) \/ AttachRuntime(h)
  <2>1. Len(svc') \in Nat /\ job' = [job EXCEPT ![h].svc = Len(svc')]
    BY <1>5 DEF BindRuntime, AttachRuntime, CacheService, ObjectsBound
  <2>2. SameCallback(h)
    BY <2>1 DEF SameCallback, HandlersTyped, Jobs
  <2> QED BY <1>5, <2>2, StepTyped DEF BindRuntime, AttachRuntime, Steps
<1>6. CASE NewRuntime(h)
  <2>1. Len(adapters') \in Nat
    BY <1>6 DEF NewRuntime, NewAdapter, ObjectsBound
  <2>2. SameCallback(h)
    BY <1>6, <2>1 DEF NewRuntime, SameCallback, HandlersTyped, Jobs
  <2> QED BY <1>6, <2>2, StepTyped DEF NewRuntime, Steps
<1> QED BY <1>1, <1>2, <1>3, <1>4, <1>5, <1>6

\* The steps of a turn from its message on.
LEMMA HandlersInTurn ==
    ASSUME TypeInv, RegistryGrows, NEW h \in Handlers,
           \/ AppendUser(h) \/ BuildContext(h) \/ SkipProvider(h) \/ Generate(h)
           \/ CachedClient(h) \/ BuildClient(h) \/ CacheClient(h) \/ ProviderFails(h)
           \/ Raise(h) \/ AppendReply(h) \/ FinishChat(h)
           \/ \E ok \in Outcomes : PersistUser(h, ok) \/ PersistReply(h, ok)
                                  \/ PersistMemories(h, ok)
           \/ \E b \in BOOLEAN : ObserveUser(h, b) \/ ObserveReply(h, b) \/ Reply(h, b)
    PROVE  HandlersTyped'
<1> USE DEF TypeInv, RegistryGrows
<1>1. ASSUME NEW from, NEW to \in Steps \ {"idle"}, from # "idle",
             Goto(h, from, to), UNCHANGED <<job, calls>>
      PROVE  HandlersTyped'
  BY <1>1, StepTyped DEF SameCallback, HandlersTyped
<1>2. CASE \/ AppendUser(h) \/ SkipProvider(h) \/ Generate(h) \/ CacheClient(h)
           \/ ProviderFails(h) \/ AppendReply(h)
  BY <1>1, <1>2 DEF AppendUser, SkipProvider, Generate, CacheClient, ProviderFails,
     AppendReply, Steps
<1>3. CASE \/ \E ok \in Outcomes : PersistUser(h, ok) \/ PersistReply(h, ok)
                                  \/ PersistMemories(h, ok)
           \/ \E b \in BOOLEAN : ObserveUser(h, b) \/ ObserveReply(h, b) \/ Reply(h, b)
  BY <1>1, <1>3 DEF PersistUser, PersistReply, PersistMemories, ObserveUser,
     ObserveReply, Reply, Steps
<1>4. CASE FinishChat(h) \/ Raise(h)
  BY <1>4, ReturnTyped DEF FinishChat, Raise
<1>5. ASSUME pc[h] \in Running
      PROVE  /\ job[h].svc \in DOMAIN svc
             /\ Home(h) \in Sids /\ Client(h) \in Clients
             /\ Runtime(h) \in DOMAIN adapters /\ adapters[Runtime(h)] \in Adapters
  <2>1. job[h].svc \in DOMAIN svc
    BY <1>5 DEF LocalsBound, LocalsOf, Serving
  <2>2. svc[job[h].svc] \in Services /\ svc[job[h].svc].adapter \in DOMAIN adapters
    BY <2>1 DEF ObjectsBound
  <2>3. adapters[svc[job[h].svc].adapter] \in Adapters
    BY <2>2 DEF ObjectsBound
  <2> QED BY <2>1, <2>2, <2>3 DEF Services, Home, Client, Runtime
<1>6. CASE BuildContext(h)
  <2> DEFINE said    == messages[Home(h)]
             earlier == {said[i].turn : i \in 1..(Len(said) - 1)}
             holds   == adapters[Runtime(h)].holds
  <2>1. said \in Seq(Messages) /\ holds \in SUBSET Calls
    BY <1>5, <1>6 DEF BuildContext, Goto, Running, DataTyped, Adapters
  <2>2. \A i \in 1..(Len(said) - 1) : said[i].turn \in Calls
    <3>1. ASSUME NEW q \in Seq(Messages), NEW i \in 1..(Len(q) - 1)
          PROVE  q[i].turn \in Calls
      <4>1. i \in 1..Len(q)
        OBVIOUS
      <4>2. q[i] \in Messages
        BY <4>1
      <4> QED BY <4>2 DEF Messages
    <3> HIDE DEF said
    <3> QED BY <2>1, <3>1
  <2>3. earlier \in SUBSET Calls
    <3> HIDE DEF said
    <3> QED BY <2>2
  <2>4. job' = [job EXCEPT ![h].history = earlier, ![h].recalled = holds]
    BY <1>6 DEF BuildContext
  <2>5. SameCallback(h)
    <3>1. ASSUME NEW e \in SUBSET Calls, NEW r \in SUBSET Calls,
                 job' = [job EXCEPT ![h].history = e, ![h].recalled = r]
          PROVE  SameCallback(h)
      <4>1. job \in [Handlers -> Jobs]
        BY DEF HandlersTyped
      <4> QED BY <3>1, <4>1 DEF SameCallback, Jobs
    <3> HIDE DEF earlier, holds
    <3> QED BY <2>1, <2>3, <2>4, <3>1
  <2> QED BY <1>6, <2>5, StepTyped DEF BuildContext, Steps
<1>7. CASE CachedClient(h) \/ BuildClient(h)
  <2>1. PICK client \in Clients : job' = [job EXCEPT ![h].client = client]
    BY <1>5, <1>7 DEF CachedClient, BuildClient, Goto, Running, Clients, DataTyped
  <2>2. SameCallback(h)
    BY <2>1 DEF SameCallback, HandlersTyped, Jobs
  <2> QED BY <1>7, <2>2, StepTyped DEF CachedClient, BuildClient, Steps
<1> QED BY <1>2, <1>3, <1>4, <1>6, <1>7

\* The other callbacks.
LEMMA HandlersOutsideTurn ==
    ASSUME TypeInv, RegistryGrows, RegistryTyped', NEW h \in Handlers,
           Clear(h) \/ End(h) \/ Provider(h)
    PROVE  HandlersTyped'
<1> USE DEF TypeInv, RegistryGrows
<1>1. ASSUME NEW asked \in Sids, EnsureSession(asked)
      PROVE  Resolved(asked) \in used' /\ Resolved(asked) \in Sids
  BY <1>1, ResolvedIsHeld
<1>2. ASSUME NEW asked \in Sids, NEW k,
             \/ BeginClear(h, asked) \/ BeginForget(h, asked)
             \/ BeginConnect(h, asked, k) \/ BeginDisconnect(h, asked)
      PROVE  HandlersTyped'
  BY <1>1, <1>2, BeginTyped DEF BeginClear, BeginForget, BeginConnect, BeginDisconnect,
     Steps
<1>3. ASSUME NEW asked \in Sids, BeginEnd(h, asked) PROVE HandlersTyped'
  <2>1. asked \in used
    BY <1>3 DEF BeginEnd, Begin
  <2> QED BY <1>3, <2>1, BeginTyped DEF BeginEnd, Steps
<1>4. CASE \/ ClearWithoutService(h) \/ ForgetWithoutService(h) \/ RenewRuntime(h)
           \/ EndSession(h) \/ FinishConnect(h) \/ FinishDisconnect(h)
  BY <1>4, ReturnTyped DEF ClearWithoutService, ForgetWithoutService, RenewRuntime,
     EndSession, FinishConnect, FinishDisconnect
<1>5. CASE \E ok \in Outcomes : \/ DeleteConversation(h, ok) \/ ClearMirror(h, ok)
                                \/ EndConversations(h, ok) \/ EndMirror(h, ok)
  <2>1. ASSUME NEW from, NEW to \in Steps \ {"idle"}, from # "idle",
               Goto(h, from, to), UNCHANGED <<job, calls>>
        PROVE  HandlersTyped'
    BY <2>1, StepTyped DEF SameCallback, HandlersTyped
  <2> QED BY <1>5, <2>1 DEF DeleteConversation, ClearMirror, EndConversations, EndMirror,
          Steps
<1>6. CASE ClearTranscript(h) \/ ForgetWithService(h)
  <2>1. job[h].sid \in Sids
    BY <1>6 DEF ClearTranscript, ForgetWithService, Goto, HandlersTyped, RegistryTyped
  <2>2. services[job[h].sid] \in Nat /\ conv[job[h].sid] \in Nat
    BY <2>1 DEF ObjectsBound, DataTyped
  <2>3. SameCallback(h)
    BY <1>6, <2>2 DEF ClearTranscript, ForgetWithService, SameCallback, HandlersTyped, Jobs
  <2> QED BY <1>6, <2>3, StepTyped DEF ClearTranscript, ForgetWithService, Steps
<1> QED BY <1>2, <1>3, <1>4, <1>5, <1>6 DEF Clear, End, Provider

-------------------------------------------------------------------------------
(* The shared objects: no service and no adapter ever changes its session. *)

ObjectsKept ==
    /\ \A i \in DOMAIN svc : i \in DOMAIN svc' /\ svc'[i].sid = svc[i].sid
    /\ \A i \in DOMAIN adapters : i \in DOMAIN adapters' /\ adapters'[i].sid = adapters[i].sid

ObjectsStep == ObjectsBound' /\ ObjectsKept

\* Appending to a sequence.
LEMMA AppendTyped ==
    ASSUME NEW S, NEW q \in Seq(S), NEW e \in S
    PROVE  /\ Append(q, e) \in Seq(S)
           /\ DOMAIN q = 1..Len(q) /\ Len(q) \in Nat
           /\ DOMAIN Append(q, e) = 1..(Len(q) + 1)
           /\ Len(Append(q, e)) = Len(q) + 1
           /\ \A i \in DOMAIN q : i \in DOMAIN Append(q, e) /\ Append(q, e)[i] = q[i]
           /\ Append(q, e)[Len(q) + 1] = e
OBVIOUS

\* A new adapter belongs to the session it is built for.
LEMMA NewAdapterBound ==
    ASSUME ObjectsBound, NEW s \in Sids, NewAdapter(s)
    PROVE  /\ adapters' \in Seq(Adapters)
           /\ Len(adapters') = Len(adapters) + 1 /\ Len(adapters) \in Nat
           /\ Len(adapters') \in DOMAIN adapters' /\ adapters'[Len(adapters')].sid = s
           /\ \A i \in DOMAIN adapters : i \in DOMAIN adapters' /\ adapters'[i] = adapters[i]
<1>1. adapters \in Seq(Adapters) /\ adapters' = Append(adapters, [sid |-> s, holds |-> {}])
  BY DEF ObjectsBound, NewAdapter
<1>2. [sid |-> s, holds |-> {}] \in Adapters
  BY DEF Adapters
<1> QED BY <1>1, <1>2, AppendTyped

\* A service that is built around an adapter of its session.
LEMMA ServiceCached ==
    ASSUME ObjectsBound, NEW h, NEW s \in Sids,
           NEW a \in DOMAIN adapters, adapters[a].sid = s,
           CacheService(h, s, a), adapters' = adapters, brain' = [brain EXCEPT ![s] = a]
    PROVE  ObjectsStep /\ Len(svc') \in DOMAIN svc' /\ svc'[Len(svc')].sid = s
<1> DEFINE e == [sid |-> s, adapter |-> a, client |-> NoClient]
<1>1. svc \in Seq(Services) /\ svc' = Append(svc, e)
  BY DEF ObjectsBound, CacheService
<1>2. e \in Services
  <2>1. a \in Nat
    BY DEF ObjectsBound
  <2> QED BY <2>1 DEF Services, Clients
<1>3. /\ svc' \in Seq(Services) /\ Len(svc') = Len(svc) + 1 /\ Len(svc) \in Nat
      /\ DOMAIN svc' = 1..(Len(svc) + 1) /\ DOMAIN svc = 1..Len(svc)
      /\ \A i \in DOMAIN svc : i \in DOMAIN svc' /\ svc'[i] = svc[i]
      /\ svc'[Len(svc')] = e
  <2> HIDE DEF e
  <2> QED BY <1>1, <1>2, AppendTyped
<1>4. services' = [services EXCEPT ![s] = Len(svc')]
  BY DEF CacheService
<1>5. e.sid = s /\ e.adapter = a
  OBVIOUS
<1>6. ObjectsKept
  BY <1>3 DEF ObjectsKept
<1>7. \A i \in DOMAIN svc' : i \in DOMAIN svc \/ i = Len(svc')
  BY <1>3
<1> HIDE DEF e
<1>8. \A i \in DOMAIN svc' : svc'[i].adapter \in DOMAIN adapters'
                            /\ adapters'[svc'[i].adapter].sid = svc'[i].sid
  BY <1>3, <1>5, <1>7 DEF ObjectsBound
<1>9. \A t \in Sids : services'[t] # None =>
          services'[t] \in DOMAIN svc' /\ svc'[services'[t]].sid = t
  BY <1>3, <1>4, <1>5 DEF ObjectsBound
<1>10. \A t \in Sids : brain'[t] # None =>
          brain'[t] \in DOMAIN adapters' /\ adapters'[brain'[t]].sid = t
  BY DEF ObjectsBound
<1>11. services' \in [Sids -> Nat] /\ brain' \in [Sids -> Nat]
  BY <1>3, <1>4 DEF ObjectsBound
<1>12. ObjectsBound'
  BY <1>3, <1>8, <1>9, <1>10, <1>11 DEF ObjectsBound
<1> QED BY <1>3, <1>5, <1>6, <1>12 DEF ObjectsStep

\* An update of one service that keeps its session, and points it, if anywhere
\* else, at an adapter of that session.
LEMMA ServiceUpdated ==
    ASSUME ObjectsBound, NEW i \in DOMAIN svc, NEW e \in Services,
           svc' = [svc EXCEPT ![i] = e], e.sid = svc[i].sid,
           e.adapter \in DOMAIN adapters, adapters[e.adapter].sid = e.sid,
           UNCHANGED <<adapters, services, brain>>
    PROVE  ObjectsStep
<1>1. svc \in Seq(Services)
  BY DEF ObjectsBound
<1>2. /\ svc' \in Seq(Services) /\ DOMAIN svc' = DOMAIN svc
      /\ svc'[i] = e /\ \A j \in DOMAIN svc \ {i} : svc'[j] = svc[j]
  BY <1>1
<1> QED BY <1>2 DEF ObjectsStep, ObjectsBound, ObjectsKept

\* What an adapter observes does not change whose it is.
LEMMA AdapterObserves ==
    ASSUME ObjectsBound, NEW a \in DOMAIN adapters, NEW holds \in SUBSET Calls,
           adapters' = [adapters EXCEPT ![a].holds = holds],
           UNCHANGED <<svc, services, brain>>
    PROVE  ObjectsStep
<1> DEFINE e == [adapters[a] EXCEPT !.holds = holds]
<1>1. adapters \in Seq(Adapters) /\ adapters[a] \in Adapters
  BY DEF ObjectsBound
<1>2. e \in Adapters /\ e.sid = adapters[a].sid /\ adapters' = [adapters EXCEPT ![a] = e]
  BY <1>1 DEF Adapters
<1> HIDE DEF e
<1>3. /\ adapters' \in Seq(Adapters) /\ DOMAIN adapters' = DOMAIN adapters
      /\ \A j \in DOMAIN adapters : adapters'[j].sid = adapters[j].sid
  BY <1>1, <1>2
<1> QED BY <1>3 DEF ObjectsStep, ObjectsBound, ObjectsKept

\* Dropping references.
LEMMA ReferencesDropped ==
    ASSUME ObjectsBound, NEW s, UNCHANGED <<svc, adapters>>,
           \/ brain' = [brain EXCEPT ![s] = None] /\ UNCHANGED services
           \/ services' = [services EXCEPT ![s] = None] /\ UNCHANGED brain
           \/ UNCHANGED <<services, brain>>
    PROVE  ObjectsStep
<1>1. ObjectsKept
  BY DEF ObjectsKept
<1>2. services' \in [Sids -> Nat] /\ \A t \in Sids : services'[t] \in {services[t], None}
  BY DEF ObjectsBound, None
<1>3. brain' \in [Sids -> Nat] /\ \A t \in Sids : brain'[t] \in {brain[t], None}
  <2>1. brain \in [Sids -> Nat]
    BY DEF ObjectsBound
  <2>2. CASE brain' = [brain EXCEPT ![s] = None]
    BY <2>1, <2>2 DEF None
  <2>3. CASE brain' = brain
    BY <2>1, <2>3
  <2> QED BY <2>2, <2>3
<1> QED BY <1>1, <1>2, <1>3 DEF ObjectsStep, ObjectsBound

\* What a serving handler holds.
LEMMA ServingTyped ==
    ASSUME TypeInv, NEW h \in Handlers, pc[h] \in Serving
    PROVE  /\ job[h].svc \in DOMAIN svc /\ svc[job[h].svc] \in Services
           /\ Home(h) \in Sids /\ Client(h) \in Clients
           /\ Runtime(h) \in DOMAIN adapters /\ adapters[Runtime(h)] \in Adapters
           /\ adapters[Runtime(h)].sid = Home(h)
           /\ job[h].call \in Calls /\ job[h].sid \in Sids
<1>1. job[h].svc \in DOMAIN svc
  BY DEF TypeInv, LocalsBound, LocalsOf
<1>2. /\ svc[job[h].svc] \in Services /\ svc[job[h].svc].adapter \in DOMAIN adapters
      /\ adapters[svc[job[h].svc].adapter].sid = svc[job[h].svc].sid
  BY <1>1 DEF TypeInv, ObjectsBound
<1>3. adapters[svc[job[h].svc].adapter] \in Adapters
  BY <1>2 DEF TypeInv, ObjectsBound
<1>4. pc[h] # "idle"
  BY DEF Serving, Running, Clearing
<1>5. job[h].call \in 1..calls /\ calls \in 0..MaxCalls /\ job[h].sid \in Sids
  BY <1>4 DEF TypeInv, HandlersTyped, RegistryTyped
<1>6. job[h].call \in Calls
  BY <1>5, BoundsTyped DEF Calls
<1> QED BY <1>1, <1>2, <1>3, <1>5, <1>6 DEF Services, Home, Client, Runtime

\* A handler's step on the shared objects.
LEMMA ObjectsInChat ==
    ASSUME TypeInv, NEW h \in Handlers, Chat(h)
    PROVE  ObjectsStep
<1> USE DEF TypeInv, objects, state
<1>1. ASSUME UNCHANGED <<svc, adapters, services, brain>> PROVE ObjectsStep
  BY <1>1, ReferencesDropped
<1>2. ASSUME NEW asked \in Sids, BeginChat(h, asked) PROVE ObjectsStep
  BY <1>1, <1>2 DEF BeginChat
<1>3. CASE \/ Refuse(h) \/ ServiceFound(h) \/ ServiceMissing(h) \/ RuntimeUnavailable(h)
           \/ AppendUser(h) \/ BuildContext(h) \/ SkipProvider(h) \/ Generate(h)
           \/ CachedClient(h) \/ BuildClient(h) \/ ProviderFails(h) \/ Raise(h)
           \/ AppendReply(h) \/ FinishChat(h)
  BY <1>1, <1>3 DEF Refuse, ServiceFound, ServiceMissing, RuntimeUnavailable, AppendUser,
     BuildContext, SkipProvider, Generate, CachedClient, BuildClient, ProviderFails, Raise,
     AppendReply, FinishChat
<1>4. CASE \/ \E ok \in Outcomes : PersistUser(h, ok) \/ PersistReply(h, ok)
                                  \/ PersistMemories(h, ok)
           \/ \E b \in BOOLEAN : Reply(h, b)
  BY <1>1, <1>4 DEF PersistUser, PersistReply, PersistMemories, Reply
<1>5. CASE BindRuntime(h)
  <2>1. job[h].at \in Sids
    BY <1>5 DEF BindRuntime, Goto, LocalsBound, LocalsOf
  <2>2. brain[job[h].at] \in DOMAIN adapters /\ adapters[brain[job[h].at]].sid = job[h].at
        /\ brain = [brain EXCEPT ![job[h].at] = brain[job[h].at]]
    BY <1>5, <2>1 DEF BindRuntime, ObjectsBound
  <2> QED BY <1>5, <2>1, <2>2, ServiceCached DEF BindRuntime
<1>6. CASE NewRuntime(h)
  <2>1. job[h].at \in Sids
    BY <1>6 DEF NewRuntime, Goto, LocalsBound, LocalsOf
  <2> QED BY <1>6, <2>1, NewAdapterBound DEF NewRuntime, ObjectsStep, ObjectsBound, ObjectsKept
<1>7. CASE AttachRuntime(h)
  <2>1. job[h].at \in Sids /\ job[h].adapter \in DOMAIN adapters
        /\ adapters[job[h].adapter].sid = job[h].at
    BY <1>7 DEF AttachRuntime, Goto, LocalsBound, LocalsOf
  <2> QED BY <1>7, <2>1, ServiceCached DEF AttachRuntime
<1>8. ASSUME NEW b \in BOOLEAN, ObserveUser(h, b) \/ ObserveReply(h, b) PROVE ObjectsStep
  <2>1. pc[h] \in Serving
    BY <1>8 DEF ObserveUser, ObserveReply, Goto, Serving, Running
  <2>2. adapters[Runtime(h)].holds \cup {job[h].call} \in SUBSET Calls
    BY <2>1, ServingTyped DEF Adapters
  <2>3. CASE b
    <3>1. adapters' = [adapters EXCEPT ![Runtime(h)].holds = adapters[Runtime(h)].holds
                                                                 \cup {job[h].call}]
      BY <1>8, <2>3 DEF ObserveUser, ObserveReply, Observe
    <3> QED BY <1>8, <2>1, <2>2, <3>1, ServingTyped, AdapterObserves
            DEF ObserveUser, ObserveReply
  <2>4. CASE ~b
    BY <1>1, <1>8, <2>4 DEF ObserveUser, ObserveReply, Observe
  <2> QED BY <2>3, <2>4
<1>9. CASE CacheClient(h)
  <2> DEFINE e == [svc[job[h].svc] EXCEPT !.client = job[h].client]
  <2>1. pc[h] \in Serving /\ job[h].client \in Clients
    BY <1>9 DEF CacheClient, Goto, Serving, Running, HandlersTyped, Jobs
  <2>2. e \in Services /\ e.sid = svc[job[h].svc].sid
        /\ e.adapter = svc[job[h].svc].adapter
    BY <2>1, ServingTyped DEF Services
  <2>3. svc' = [svc EXCEPT ![job[h].svc] = e]
    BY <1>9 DEF CacheClient
  <2>4. UNCHANGED <<adapters, services, brain>>
    BY <1>9 DEF CacheClient
  <2> HIDE DEF e
  <2> QED BY <2>1, <2>2, <2>3, <2>4, ServingTyped, ServiceUpdated DEF Home, Runtime
<1> QED BY <1>2, <1>3, <1>4, <1>5, <1>6, <1>7, <1>8, <1>9 DEF Chat

\* Clearing, ending and connecting keep every object's session too.
LEMMA ObjectsOutsideChat ==
    ASSUME TypeInv, RegistryTyped', NEW h \in Handlers, Clear(h) \/ End(h) \/ Provider(h)
    PROVE  ObjectsStep
<1> USE DEF TypeInv, objects, state, ClearState
<1>1. ASSUME UNCHANGED <<svc, adapters, services, brain>> PROVE ObjectsStep
  BY <1>1, ReferencesDropped
<1>2. CASE \/ ForgetWithService(h) \/ FinishDisconnect(h)
           \/ \E asked \in Sids : BeginClear(h, asked) \/ BeginForget(h, asked)
           \/ \E ok \in Outcomes : \/ DeleteConversation(h, ok) \/ ClearMirror(h, ok)
                                   \/ EndConversations(h, ok) \/ EndMirror(h, ok)
           \/ \E asked \in Sids : \E k \in Keys \cup {key[Resolved(asked)]} :
                  BeginConnect(h, asked, k)
  BY <1>1, <1>2 DEF ForgetWithService, FinishDisconnect, BeginClear, BeginForget,
     DeleteConversation, ClearMirror, EndConversations, EndMirror, BeginConnect
<1>3. CASE ClearWithoutService(h) \/ ClearTranscript(h) \/ ForgetWithoutService(h)
  BY <1>3, ReferencesDropped DEF ClearWithoutService, ClearTranscript, ForgetWithoutService
<1>4. CASE EndSession(h)
  BY <1>1, <1>4, ReferencesDropped DEF EndSession
<1>5. CASE \E asked \in Sids : BeginEnd(h, asked)
  BY <1>5, ReferencesDropped DEF BeginEnd
<1>6. CASE RenewRuntime(h)
  <2> DEFINE s == job[h].sid
             i == job[h].svc
             n == Len(adapters')
             e == [svc[i] EXCEPT !.adapter = n]
  <2>1. pc[h] \in Serving /\ pc[h] \in Clearing
    BY <1>6 DEF RenewRuntime, Return, Goto, Serving, Clearing
  <2>2. /\ s \in Sids /\ i \in DOMAIN svc /\ svc[i].sid = s /\ svc[i] \in Services
        /\ svc \in Seq(Services)
    BY <2>1, ServingTyped DEF LocalsBound, LocalsOf, ObjectsBound
  <2>3. /\ adapters' \in Seq(Adapters) /\ n \in Nat
        /\ n \in DOMAIN adapters' /\ adapters'[n].sid = s
        /\ \A a \in DOMAIN adapters : a \in DOMAIN adapters' /\ adapters'[a] = adapters[a]
    BY <1>6, <2>2, NewAdapterBound DEF RenewRuntime
  <2>4. svc' = [svc EXCEPT ![i] = e] /\ brain' = [brain EXCEPT ![s] = n]
        /\ services' = services
    BY <1>6 DEF RenewRuntime
  <2> HIDE DEF s, i, n
  <2>5. e \in Services /\ e.sid = s /\ e.adapter = n
    BY <2>2, <2>3 DEF Services
  <2> HIDE DEF e
  <2>6. /\ svc' \in Seq(Services) /\ DOMAIN svc' = DOMAIN svc
        /\ svc'[i] = e /\ \A j \in DOMAIN svc \ {i} : svc'[j] = svc[j]
    BY <2>2, <2>4, <2>5
  <2>7. \A j \in DOMAIN svc : svc'[j].sid = svc[j].sid
    BY <2>2, <2>5, <2>6
  <2>8. ObjectsKept
    BY <2>3, <2>6, <2>7 DEF ObjectsKept
  <2>9. \A j \in DOMAIN svc' : svc'[j].adapter \in DOMAIN adapters'
                              /\ adapters'[svc'[j].adapter].sid = svc'[j].sid
    <3>1. ASSUME NEW j \in DOMAIN svc, j # i
          PROVE  svc'[j].adapter \in DOMAIN adapters'
                 /\ adapters'[svc'[j].adapter].sid = svc'[j].sid
      <4>1. svc[j].adapter \in DOMAIN adapters /\ adapters[svc[j].adapter].sid = svc[j].sid
        BY DEF ObjectsBound
      <4> QED BY <2>3, <2>6, <3>1, <4>1
    <3> QED BY <2>3, <2>5, <2>6, <3>1
  <2>10. \A t \in Sids : services'[t] # None =>
             services'[t] \in DOMAIN svc' /\ svc'[services'[t]].sid = t
    BY <2>4, <2>6, <2>7 DEF ObjectsBound
  <2>11. brain' \in [Sids -> Nat] /\ \A t \in Sids : brain'[t] # None =>
             brain'[t] \in DOMAIN adapters' /\ adapters'[brain'[t]].sid = t
    BY <2>2, <2>3, <2>4 DEF ObjectsBound
  <2>12. ObjectsBound'
    BY <2>3, <2>4, <2>6, <2>9, <2>10, <2>11 DEF ObjectsBound
  <2> QED BY <2>8, <2>12 DEF ObjectsStep
<1>7. ASSUME NEW s \in Sids, ResetClient(s), UNCHANGED <<adapters, services, brain>>
      PROVE  ObjectsStep
  <2>1. CASE services[s] = None
    BY <1>1, <1>7, <2>1 DEF ResetClient
  <2>2. CASE services[s] # None
    <3> DEFINE i == services[s]
               e == [svc[i] EXCEPT !.client = NoClient]
    <3>1. /\ i \in DOMAIN svc /\ svc[i] \in Services /\ svc[i].adapter \in DOMAIN adapters
          /\ adapters[svc[i].adapter].sid = svc[i].sid
      BY <2>2 DEF ObjectsBound
    <3>2. svc' = [svc EXCEPT ![i] = e]
      BY <1>7, <2>2 DEF ResetClient
    <3>3. e \in Services /\ e.sid = svc[i].sid /\ e.adapter = svc[i].adapter
      BY <3>1 DEF Services, Clients
    <3> HIDE DEF i, e
    <3> QED BY <1>7, <3>1, <3>2, <3>3, ServiceUpdated
  <2> QED BY <2>1, <2>2
<1>8. CASE FinishConnect(h)
  <2>1. job[h].sid \in Sids
    BY <1>8 DEF FinishConnect, Return, Goto, HandlersTyped, RegistryTyped
  <2> QED BY <1>7, <1>8, <2>1 DEF FinishConnect
<1>9. ASSUME NEW asked \in Sids, BeginDisconnect(h, asked) PROVE ObjectsStep
  <2>1. Resolved(asked) \in Sids
    BY <1>9, ResolvedIsHeld DEF BeginDisconnect
  <2> QED BY <1>7, <1>9, <2>1 DEF BeginDisconnect
<1> QED BY <1>2, <1>3, <1>4, <1>5, <1>6, <1>8, <1>9 DEF Clear, End, Provider

-------------------------------------------------------------------------------
(* What the locals refer to.                                               *)

\* A step of h is the only one that touches h's locals.
OthersStay(h) ==
    /\ pc \in [Handlers -> Steps] /\ job \in [Handlers -> Jobs]
    /\ \A g \in Handlers \ {h} : pc'[g] = pc[g] /\ job'[g] = job[g]

\* The locals of the other handlers refer to what they did, as no object loses its
\* session.
LEMMA LocalsStay ==
    ASSUME LocalsBound, ObjectsKept, NEW h \in Handlers, OthersStay(h), LocalsOf(h)'
    PROVE  LocalsBound'
<1>1. ASSUME NEW g \in Handlers, g # h PROVE LocalsOf(g)'
  <2>1. LocalsOf(g) /\ pc'[g] = pc[g] /\ job'[g] = job[g]
    BY <1>1 DEF LocalsBound, OthersStay
  <2>2. pc[g] \in Clearing => pc[g] \in Serving
    BY DEF Serving
  <2> QED BY <2>1, <2>2 DEF LocalsOf, ObjectsKept
<1> QED BY <1>1 DEF LocalsBound

\* A step to a place where nothing is held.
LEMMA LocalsGone ==
    ASSUME TypeInv, ObjectsKept, NEW h \in Handlers, OthersStay(h),
           pc'[h] \notin Serving \cup {"construct", "attach"}
    PROVE  LocalsBound'
<1>1. pc'[h] \notin Clearing
  BY DEF Serving
<1>2. LocalsOf(h)'
  BY <1>1 DEF LocalsOf
<1> QED BY <1>2, LocalsStay DEF TypeInv

\* A step from serving to serving carries the service along.
LEMMA LocalsCarried ==
    ASSUME TypeInv, ObjectsKept, NEW h \in Handlers, OthersStay(h),
           pc[h] \in Serving, pc'[h] \in Serving,
           pc'[h] \in Clearing => pc[h] \in Clearing,
           job'[h].svc = job[h].svc, job'[h].sid = job[h].sid
    PROVE  LocalsBound'
<1>1. job[h].svc \in DOMAIN svc
  BY ServingTyped
<1>2. job'[h].svc \in DOMAIN svc' /\ svc'[job'[h].svc].sid = svc[job[h].svc].sid
  BY <1>1 DEF ObjectsKept
<1>3. pc'[h] \notin {"construct", "attach"}
  BY DEF Serving, Running, Clearing
<1>4. pc[h] \in Clearing => svc[job[h].svc].sid = job[h].sid
  BY DEF TypeInv, LocalsBound, LocalsOf
<1>5. LocalsOf(h)'
  BY <1>2, <1>3, <1>4 DEF LocalsOf
<1> QED BY <1>5, LocalsStay DEF TypeInv

\* The steps of a chat leave no handler with a dangling reference ...
LEMMA LocalsInChat ==
    ASSUME TypeInv, ObjectsStep, NEW h \in Handlers, Chat(h)
    PROVE  LocalsBound'
<1> USE DEF TypeInv, ObjectsStep
<1>1. pc \in [Handlers -> Steps] /\ job \in [Handlers -> Jobs]
  BY DEF HandlersTyped
<1>2. ASSUME NEW from, NEW to, Goto(h, from, to) PROVE pc[h] = from /\ pc'[h] = to
  BY <1>1, <1>2 DEF Goto
<1>3. CASE \/ \E asked \in Sids : BeginChat(h, asked)
           \/ Refuse(h) \/ RuntimeUnavailable(h) \/ Raise(h) \/ FinishChat(h)
  <2>1. OthersStay(h) /\ pc'[h] \in {"check", "idle"}
    BY <1>1, <1>3 DEF BeginChat, Begin, Refuse, RuntimeUnavailable, Raise, FinishChat,
       Return, Goto, OthersStay
  <2> QED BY <2>1, LocalsGone DEF Serving, Running, Clearing
<1>4. ASSUME NEW from \in Serving, NEW to \in Serving \ Clearing, Goto(h, from, to),
             OthersStay(h), job'[h].svc = job[h].svc, job'[h].sid = job[h].sid
      PROVE  LocalsBound'
  BY <1>2, <1>4, LocalsCarried
<1>5. ASSUME NEW from \in Serving, NEW to \in Serving \ Clearing, Goto(h, from, to),
             UNCHANGED job
      PROVE  LocalsBound'
  BY <1>1, <1>4, <1>5 DEF OthersStay, Goto
<1>6. CASE \/ AppendUser(h) \/ SkipProvider(h) \/ Generate(h) \/ CacheClient(h)
           \/ ProviderFails(h) \/ AppendReply(h)
           \/ \E ok \in Outcomes : PersistUser(h, ok) \/ PersistReply(h, ok)
                                  \/ PersistMemories(h, ok)
           \/ \E b \in BOOLEAN : ObserveUser(h, b) \/ ObserveReply(h, b) \/ Reply(h, b)
  BY <1>5, <1>6 DEF AppendUser, SkipProvider, Generate, CacheClient, ProviderFails,
     AppendReply, PersistUser, PersistReply, PersistMemories, ObserveUser, ObserveReply,
     Reply, Serving, Running, Clearing
<1>7. CASE BuildContext(h) \/ CachedClient(h) \/ BuildClient(h)
  <2>1. OthersStay(h) /\ job'[h].svc = job[h].svc /\ job'[h].sid = job[h].sid
    BY <1>1, <1>7 DEF BuildContext, CachedClient, BuildClient, Goto, OthersStay, Jobs
  <2> QED BY <1>4, <1>7, <2>1 DEF BuildContext, CachedClient, BuildClient,
          Serving, Running, Clearing
<1>8. CASE ServiceFound(h)
  <2>1. OthersStay(h) /\ pc[h] = "check" /\ pc'[h] = "append"
        /\ job'[h].svc = services[job[h].sid] /\ UNCHANGED svc
    BY <1>1, <1>8 DEF ServiceFound, Goto, OthersStay, objects, Jobs
  <2>2. services[job[h].sid] \in DOMAIN svc
    BY <1>8, <2>1 DEF ServiceFound, ObjectsBound, HandlersTyped, RegistryTyped
  <2>3. LocalsOf(h)'
    BY <2>1, <2>2 DEF LocalsOf, Clearing
  <2> QED BY <2>1, <2>3, LocalsStay
<1>9. CASE ServiceMissing(h)
  <2>1. OthersStay(h) /\ pc[h] = "check" /\ pc'[h] = "construct"
        /\ job'[h].at = Resolved(job[h].sid)
    BY <1>1, <1>9 DEF ServiceMissing, Goto, OthersStay, Jobs
  <2>2. job[h].sid \in Sids
    BY <2>1 DEF HandlersTyped, RegistryTyped
  <2>3. Resolved(job[h].sid) \in Sids
    BY <1>9, <2>2, ResolvedIsHeld DEF ServiceMissing
  <2>4. LocalsOf(h)'
    BY <2>1, <2>3 DEF LocalsOf, Serving, Running, Clearing
  <2> QED BY <2>1, <2>4, LocalsStay
<1>10. CASE BindRuntime(h) \/ AttachRuntime(h)
  <2>1. OthersStay(h) /\ pc'[h] = "append" /\ job'[h].svc = Len(svc')
    BY <1>1, <1>10 DEF BindRuntime, AttachRuntime, CacheService, Goto, OthersStay, Jobs
  <2>2. svc \in Seq(Services) /\ \E e : svc' = Append(svc, e)
    BY <1>10 DEF BindRuntime, AttachRuntime, CacheService, ObjectsBound
  <2>3. Len(svc') \in DOMAIN svc'
    BY <2>2
  <2>4. LocalsOf(h)'
    BY <2>1, <2>3 DEF LocalsOf, Clearing
  <2> QED BY <2>1, <2>4, LocalsStay
<1>11. CASE NewRuntime(h)
  <2>1. OthersStay(h) /\ pc[h] = "construct" /\ pc'[h] = "attach"
        /\ job'[h].adapter = Len(adapters') /\ job'[h].at = job[h].at
    BY <1>1, <1>11 DEF NewRuntime, Goto, OthersStay, Jobs
  <2>2. job[h].at \in Sids
    BY <2>1 DEF LocalsBound, LocalsOf
  <2>3. Len(adapters') \in DOMAIN adapters' /\ adapters'[Len(adapters')].sid = job[h].at
    BY <1>11, <2>2, NewAdapterBound DEF NewRuntime
  <2>4. LocalsOf(h)'
    BY <2>1, <2>2, <2>3 DEF LocalsOf, Serving, Running, Clearing
  <2> QED BY <2>1, <2>4, LocalsStay
<1> QED BY <1>3, <1>6, <1>7, <1>8, <1>9, <1>10, <1>11 DEF Chat

\* ... nor do those of the other callbacks.
LEMMA LocalsOutsideChat ==
    ASSUME TypeInv, ObjectsStep, NEW h \in Handlers, Clear(h) \/ End(h) \/ Provider(h)
    PROVE  LocalsBound'
<1> USE DEF TypeInv, ObjectsStep
<1>1. pc \in [Handlers -> Steps] /\ job \in [Handlers -> Jobs]
  BY DEF HandlersTyped
<1>2. ASSUME OthersStay(h),
             pc'[h] \in {"idle", "clear", "forget", "end_rows", "end_mirror", "end",
                        "connect", "disconnect"}
      PROVE  LocalsBound'
  BY <1>2, LocalsGone DEF Serving, Running, Clearing
<1>3. ASSUME NEW asked \in Sids, NEW k,
             \/ BeginClear(h, asked) \/ BeginForget(h, asked) \/ BeginEnd(h, asked)
             \/ BeginConnect(h, asked, k) \/ BeginDisconnect(h, asked)
      PROVE  LocalsBound'
  BY <1>1, <1>2, <1>3 DEF BeginClear, BeginForget, BeginEnd, BeginConnect, BeginDisconnect,
     Begin, Goto, OthersStay
<1>4. CASE \/ ClearWithoutService(h) \/ ForgetWithoutService(h) \/ RenewRuntime(h)
           \/ EndSession(h) \/ FinishConnect(h) \/ FinishDisconnect(h)
           \/ \E ok \in Outcomes : EndConversations(h, ok) \/ EndMirror(h, ok)
  BY <1>1, <1>2, <1>4 DEF ClearWithoutService, ForgetWithoutService, RenewRuntime,
     EndSession, FinishConnect, FinishDisconnect, EndConversations, EndMirror,
     Return, Goto, OthersStay
<1>5. CASE \E ok \in Outcomes : DeleteConversation(h, ok) \/ ClearMirror(h, ok)
  <2>1. OthersStay(h) /\ pc[h] \in Clearing /\ pc'[h] \in Clearing /\ job' = job
    BY <1>1, <1>5 DEF DeleteConversation, ClearMirror, Goto, OthersStay, Clearing
  <2> QED BY <2>1, LocalsCarried DEF Serving
<1>6. CASE ClearTranscript(h) \/ ForgetWithService(h)
  <2>1. OthersStay(h) /\ pc[h] # "idle" /\ pc'[h] \in Clearing
        /\ job'[h].svc = services[job[h].sid] /\ job'[h].sid = job[h].sid
    BY <1>1, <1>6 DEF ClearTranscript, ForgetWithService, Goto, OthersStay, Jobs, Clearing
  <2>2. job[h].sid \in Sids
    BY <2>1 DEF HandlersTyped, RegistryTyped
  <2>3. services[job[h].sid] \in DOMAIN svc /\ svc[services[job[h].sid]].sid = job[h].sid
        /\ UNCHANGED svc
    BY <1>6, <2>2 DEF ClearTranscript, ForgetWithService, ObjectsBound, objects
  <2>4. pc'[h] \notin {"construct", "attach"}
    BY <2>1 DEF Clearing
  <2>5. LocalsOf(h)'
    BY <2>1, <2>3, <2>4 DEF LocalsOf
  <2> QED BY <2>1, <2>5, LocalsStay
<1> QED BY <1>3, <1>4, <1>5, <1>6 DEF Clear, End, Provider

-------------------------------------------------------------------------------
(* The data.                                                               *)

DataKept == UNCHANGED <<key, messages, conv, convRows, memRows, lastTurn, ranIn, wiped>>

\* A transcript's turns.
LEMMA SaidTyped ==
    ASSUME DataTyped, NEW s \in Sids
    PROVE  Said(s) \subseteq Calls
<1>1. messages[s] \in Seq(Messages)
  BY DEF DataTyped
<1>2. \A i \in DOMAIN messages[s] : messages[s][i] \in Messages
  BY <1>1
<1> QED BY <1>2 DEF Said, Messages

\* Clearing the in-memory state of a session keeps its types.
LEMMA ClearStateTyped ==
    ASSUME DataTyped, NEW s \in Sids, ClearState(s)
    PROVE  /\ messages' \in [Sids -> Seq(Messages)] /\ conv' \in [Sids -> Nat]
           /\ wiped' \subseteq Calls
<1>1. <<>> \in Seq(Messages)
  OBVIOUS
<1> QED BY <1>1, SaidTyped DEF DataTyped, ClearState

\* Saying a message in the session of the handler's service.
LEMMA SayTyped ==
    ASSUME TypeInv, NEW h \in Handlers, pc[h] \in Serving, NEW role \in Roles, Say(h, role)
    PROVE  /\ messages' \in [Sids -> Seq(Messages)]
           /\ Home(h) \in Sids /\ messages[Home(h)] \in Seq(Messages)
           /\ [turn |-> job[h].call, role |-> role] \in Messages
           /\ messages'[Home(h)] = Append(messages[Home(h)],
                                         [turn |-> job[h].call, role |-> role])
           /\ \A s \in Sids \ {Home(h)} : messages'[s] = messages[s]
<1> DEFINE e == [turn |-> job[h].call, role |-> role]
<1>1. Home(h) \in Sids /\ job[h].call \in Calls
  BY ServingTyped
<1>2. messages \in [Sids -> Seq(Messages)]
  BY DEF TypeInv, DataTyped
<1>3. e \in Messages
  BY <1>1 DEF Messages
<1>4. messages' = [messages EXCEPT ![Home(h)] = Append(messages[Home(h)], e)]
  BY DEF Say
<1> HIDE DEF e
<1>5. Append(messages[Home(h)], e) \in Seq(Messages)
  BY <1>1, <1>2, <1>3
<1>6. messages' \in [Sids -> Seq(Messages)]
  BY <1>1, <1>2, <1>4, <1>5
<1> QED BY <1>1, <1>2, <1>3, <1>4, <1>6 DEF e

\* The steps of a chat keep the sessions' data typed ...
LEMMA DataInChat ==
    ASSUME TypeInv, NEW h \in Handlers, Chat(h)
    PROVE  DataTyped'
<1> USE DEF TypeInv, state, rows, history
<1>1. ASSUME DataKept PROVE DataTyped'
  BY <1>1 DEF DataKept, DataTyped
<1>2. CASE \/ \E asked \in Sids : BeginChat(h, asked)
           \/ Refuse(h) \/ ServiceFound(h) \/ ServiceMissing(h) \/ RuntimeUnavailable(h)
           \/ BindRuntime(h) \/ NewRuntime(h) \/ AttachRuntime(h)
  BY <1>1, <1>2 DEF DataKept, BeginChat, Refuse, ServiceFound, ServiceMissing,
     RuntimeUnavailable, BindRuntime, NewRuntime, AttachRuntime
<1>3. CASE \/ BuildContext(h) \/ SkipProvider(h) \/ Generate(h) \/ CachedClient(h)
           \/ BuildClient(h) \/ CacheClient(h) \/ ProviderFails(h) \/ Raise(h)
           \/ \E b \in BOOLEAN : ObserveUser(h, b) \/ ObserveReply(h, b) \/ Reply(h, b)
  BY <1>1, <1>3 DEF DataKept, BuildContext, SkipProvider, Generate, CachedClient,
     BuildClient, CacheClient, ProviderFails, Raise, ObserveUser, ObserveReply, Reply
<1>4. CASE AppendUser(h)
  <2>1. pc[h] \in Serving /\ Say(h, "user")
    BY <1>4 DEF AppendUser, Goto, Serving
  <2>2. messages' \in [Sids -> Seq(Messages)] /\ Home(h) \in Sids
    BY <2>1, SayTyped DEF Roles
  <2>3. ranIn' \in [Calls -> Sids \cup {NoSid}]
    BY <1>4, <2>2 DEF AppendUser, DataTyped
  <2> QED BY <1>4, <2>2, <2>3 DEF AppendUser, DataTyped
<1>5. CASE AppendReply(h)
  <2>1. pc[h] \in Serving /\ Say(h, "assistant")
    BY <1>5 DEF AppendReply, Goto, Serving, Running
  <2>2. messages' \in [Sids -> Seq(Messages)]
    BY <2>1, SayTyped DEF Roles
  <2> QED BY <1>5, <2>2 DEF AppendReply, DataTyped
<1>6. ASSUME NEW ok \in Outcomes, NEW role \in Roles, pc[h] \in Serving,
             Persist(h, role, ok),
             UNCHANGED <<key, messages, conv, memRows, lastTurn, ranIn, wiped>>
      PROVE  DataTyped'
  <2>1. Home(h) \in Sids /\ job[h].call \in Calls /\ conv[Home(h)] \in Nat
    BY <1>6, ServingTyped DEF DataTyped
  <2> QED BY <1>6, <2>1 DEF DataTyped, Persist
<1>7. CASE \E ok \in Outcomes : PersistUser(h, ok) \/ PersistReply(h, ok)
  BY <1>6, <1>7 DEF PersistUser, PersistReply, Goto, Serving, Running, Roles
<1>8. CASE \E ok \in Outcomes : PersistMemories(h, ok)
  <2>1. pc[h] \in Serving
    BY <1>8 DEF PersistMemories, Goto, Serving, Running
  <2>2. Home(h) \in Sids /\ adapters[Runtime(h)].holds \subseteq Calls
    BY <2>1, ServingTyped DEF Adapters
  <2> QED BY <1>8, <2>2 DEF PersistMemories, DataTyped
<1>9. CASE FinishChat(h)
  <2>1. job[h].call \in Calls
    <3>1. pc[h] \in Serving
      BY <1>9 DEF FinishChat, Return, Goto, Serving, Running
    <3> QED BY <3>1, ServingTyped
  <2> QED BY <1>9, <2>1 DEF FinishChat, DataTyped
<1> QED BY <1>2, <1>3, <1>4, <1>5, <1>7, <1>8, <1>9 DEF Chat

\* ... and so do those of the other callbacks.
LEMMA DataOutsideChat ==
    ASSUME TypeInv, NEW h \in Handlers, Clear(h) \/ End(h) \/ Provider(h)
    PROVE  DataTyped'
<1> USE DEF TypeInv, state, rows, history
<1>1. ASSUME DataKept PROVE DataTyped'
  BY <1>1 DEF DataKept, DataTyped
<1>2. ASSUME pc[h] # "idle" PROVE job[h].sid \in Sids
  BY <1>2 DEF HandlersTyped, RegistryTyped
<1>3. CASE \/ ForgetWithService(h) \/ FinishConnect(h)
           \/ \E asked \in Sids : \/ BeginClear(h, asked) \/ BeginForget(h, asked)
                                  \/ BeginDisconnect(h, asked)
  BY <1>1, <1>3 DEF DataKept, ForgetWithService, FinishConnect, BeginClear, BeginForget,
     BeginDisconnect
<1>4. CASE \/ \E ok \in Outcomes : \/ DeleteConversation(h, ok) \/ ClearMirror(h, ok)
                                   \/ EndConversations(h, ok) \/ EndMirror(h, ok)
           \/ \E asked \in Sids : BeginEnd(h, asked)
           \/ ForgetWithoutService(h) \/ RenewRuntime(h)
  BY <1>4 DEF DataTyped, DeleteConversation, ClearMirror, EndConversations, EndMirror,
     BeginEnd, ForgetWithoutService, RenewRuntime, None
<1>5. CASE ClearWithoutService(h) \/ ClearTranscript(h)
  <2>1. job[h].sid \in Sids /\ ClearState(job[h].sid)
    BY <1>2, <1>5 DEF ClearWithoutService, ClearTranscript, Return, Goto
  <2> QED BY <1>5, <2>1, ClearStateTyped DEF DataTyped, ClearWithoutService,
          ClearTranscript, None
<1>6. CASE EndSession(h)
  <2>1. CASE job[h].sid \in live
    <3>1. job[h].sid \in Sids /\ ClearState(job[h].sid) /\ UNCHANGED <<rows, lastTurn, ranIn>>
          /\ key' = [key EXCEPT ![job[h].sid] = NoKey]
      BY <1>2, <1>6, <2>1 DEF EndSession, Return, Goto
    <3> QED BY <3>1, ClearStateTyped DEF DataTyped
  <2>2. CASE job[h].sid \notin live
    BY <1>1, <1>6, <2>2 DEF EndSession, DataKept
  <2> QED BY <2>1, <2>2
<1>7. CASE FinishDisconnect(h)
  BY <1>7 DEF FinishDisconnect, DataTyped
<1>8. ASSUME NEW asked \in Sids, NEW k \in Keys \cup {key[Resolved(asked)]},
             BeginConnect(h, asked, k)
      PROVE  DataTyped'
  <2>1. Resolved(asked) \in Sids
    BY <1>8, ResolvedIsHeld DEF BeginConnect
  <2>2. k \in Keys \cup {NoKey}
    BY <2>1 DEF DataTyped
  <2> QED BY <1>8, <2>1, <2>2 DEF BeginConnect, DataTyped
<1> QED BY <1>3, <1>4, <1>5, <1>6, <1>7, <1>8 DEF Clear, End, Provider

-------------------------------------------------------------------------------
(* Conversations are renewed no more often than callbacks are made.        *)

\* How a step changes the set of handlers that will renew a conversation.
LEMMA RenewingStep ==
    ASSUME HandlersTyped, NEW h \in Handlers, NEW from, NEW to, Goto(h, from, to)
    PROVE  /\ (from \in Renewals <=> to \in Renewals) => Renewing' = Renewing
           /\ from \notin Renewals /\ to \in Renewals =>
                  h \notin Renewing /\ Renewing' = Renewing \cup {h}
           /\ from \in Renewals /\ to \notin Renewals =>
                  h \in Renewing /\ Renewing' = Renewing \ {h}
BY DEF HandlersTyped, Goto, Renewing

\* A callback that will renew a conversation begins.
LEMMA RenewalBegins ==
    ASSUME RenewalsBounded, DataTyped, HandlersTyped, NEW h \in Handlers,
           NEW to \in Renewals, Goto(h, "idle", to), calls' = calls + 1,
           UNCHANGED <<conv, convRows>>
    PROVE  RenewalsBounded'
<1>1. h \notin Renewing /\ Renewing' = Renewing \cup {h} /\ IsFiniteSet(Renewing)
  BY RenewingStep DEF Renewals, RenewalsBounded
<1>2. IsFiniteSet(Renewing') /\ Cardinality(Renewing') = Cardinality(Renewing) + 1
  BY <1>1, FS_AddElement
<1>3. calls \in Nat /\ Cardinality(Renewing) \in Nat
  BY <1>1, FS_CardinalityType DEF HandlersTyped
<1>4. \A s \in Sids : conv'[s] + Cardinality(Renewing') <= calls'
  BY <1>2, <1>3 DEF RenewalsBounded, DataTyped
<1>5. \A r \in convRows' : r.conv <= calls'
  BY <1>3 DEF RenewalsBounded, DataTyped
<1> QED BY <1>2, <1>4, <1>5 DEF RenewalsBounded

\* It renews it.
LEMMA RenewalDone ==
    ASSUME RenewalsBounded, DataTyped, HandlersTyped, NEW h \in Handlers,
           NEW from \in Renewals, NEW to, to \notin Renewals, Goto(h, from, to),
           NEW s \in Sids,
           conv' = conv \/ conv' = [conv EXCEPT ![s] = @ + 1],
           UNCHANGED <<calls, convRows>>
    PROVE  RenewalsBounded'
<1>1. h \in Renewing /\ Renewing' = Renewing \ {h} /\ IsFiniteSet(Renewing)
  BY RenewingStep DEF RenewalsBounded
<1>2. IsFiniteSet(Renewing') /\ Cardinality(Renewing') = Cardinality(Renewing) - 1
  BY <1>1, FS_RemoveElement
<1>3. calls \in Nat /\ Cardinality(Renewing) \in Nat
  BY <1>1, FS_CardinalityType DEF HandlersTyped
<1>4. \A t \in Sids : conv[t] \in Nat /\ conv'[t] \in {conv[t], conv[t] + 1}
  BY DEF DataTyped
<1>5. \A t \in Sids : conv'[t] + Cardinality(Renewing') <= calls'
  BY <1>2, <1>3, <1>4 DEF RenewalsBounded
<1> QED BY <1>2, <1>5 DEF RenewalsBounded

\* Any other step.
LEMMA RenewalsKept ==
    ASSUME RenewalsBounded, DataTyped, HandlersTyped, Renewing' = Renewing, conv' = conv,
           calls' \in {calls, calls + 1},
           \A r \in convRows' : r \in convRows \/ \E s \in Sids : r.conv = conv[s]
    PROVE  RenewalsBounded'
<1>1. IsFiniteSet(Renewing) /\ Cardinality(Renewing) \in Nat /\ calls \in Nat
  BY FS_CardinalityType DEF RenewalsBounded, HandlersTyped
<1>2. \A s \in Sids : conv[s] + Cardinality(Renewing') <= calls' /\ conv[s] <= calls'
  BY <1>1 DEF RenewalsBounded, DataTyped
<1>3. \A r \in convRows : r.conv \in Nat /\ r.conv <= calls'
  BY <1>1 DEF RenewalsBounded, DataTyped
<1> QED BY <1>1, <1>2, <1>3 DEF RenewalsBounded

\* Every step keeps the number of renewals below the number of callbacks.
LEMMA RenewalsStep ==
    ASSUME TypeInv, RenewalsBounded, NEW h \in Handlers,
           Chat(h) \/ Clear(h) \/ End(h) \/ Provider(h)
    PROVE  RenewalsBounded'
<1> USE DEF TypeInv, state, rows
<1>1. ASSUME NEW from, NEW to, from \notin Renewals, to \notin Renewals,
             Goto(h, from, to), calls' \in {calls, calls + 1}, UNCHANGED <<conv, convRows>>
      PROVE  RenewalsBounded'
  BY <1>1, RenewingStep, RenewalsKept
<1>2. ASSUME NEW asked \in Sids, NEW k,
             \/ BeginChat(h, asked) \/ BeginForget(h, asked)
             \/ BeginConnect(h, asked, k) \/ BeginDisconnect(h, asked)
      PROVE  RenewalsBounded'
  <2>1. calls' = calls + 1 /\ UNCHANGED <<conv, convRows>>
    BY <1>2 DEF BeginChat, BeginForget, BeginConnect, BeginDisconnect, Begin
  <2>2. \E to \in {"check", "forget", "connect", "disconnect"} : Goto(h, "idle", to)
    BY <1>2 DEF BeginChat, BeginForget, BeginConnect, BeginDisconnect, Begin
  <2> QED BY <1>1, <2>1, <2>2 DEF Renewals
<1>3. CASE \/ Refuse(h) \/ ServiceFound(h) \/ ServiceMissing(h) \/ BindRuntime(h)
           \/ NewRuntime(h) \/ RuntimeUnavailable(h) \/ AttachRuntime(h) \/ AppendUser(h)
  <2>1. UNCHANGED <<calls, conv, convRows>>
    BY <1>3 DEF Refuse, ServiceFound, ServiceMissing, BindRuntime, NewRuntime,
       RuntimeUnavailable, AttachRuntime, AppendUser
  <2>2. \E from \in {"check", "construct", "attach", "append"} :
        \E to \in {"idle", "construct", "attach", "append", "persist_user"} : Goto(h, from, to)
    BY <1>3 DEF Refuse, ServiceFound, ServiceMissing, BindRuntime, NewRuntime,
       RuntimeUnavailable, AttachRuntime, AppendUser, Return
  <2> QED BY <1>1, <2>1, <2>2 DEF Renewals
<1>4. ASSUME NEW from \in Running, NEW to \in Running \cup {"idle"}, Goto(h, from, to),
             UNCHANGED <<calls, conv, convRows>>
      PROVE  RenewalsBounded'
  BY <1>1, <1>4 DEF Running, Renewals
<1>5. CASE \/ BuildContext(h) \/ SkipProvider(h) \/ Generate(h) \/ CachedClient(h)
           \/ BuildClient(h) \/ CacheClient(h) \/ ProviderFails(h) \/ Raise(h)
  BY <1>4, <1>5 DEF BuildContext, SkipProvider, Generate, CachedClient, BuildClient,
     CacheClient, ProviderFails, Raise, Return, Running
<1>6. CASE \/ AppendReply(h) \/ FinishChat(h)
           \/ \E ok \in Outcomes : PersistMemories(h, ok)
           \/ \E b \in BOOLEAN : ObserveUser(h, b) \/ ObserveReply(h, b) \/ Reply(h, b)
  BY <1>4, <1>6 DEF AppendReply, FinishChat, PersistMemories, ObserveUser, ObserveReply,
     Reply, Return, Running
<1>7. ASSUME NEW ok \in Outcomes, PersistUser(h, ok) \/ PersistReply(h, ok)
      PROVE  RenewalsBounded'
  <2>1. \E from, to \in Running : Goto(h, from, to)
    BY <1>7 DEF PersistUser, PersistReply, Running
  <2>2. Renewing' = Renewing
    BY <2>1, RenewingStep DEF Running, Renewals
  <2>3. pc[h] \in Serving
    BY <2>1 DEF Goto, Serving
  <2>4. \A r \in convRows' : r \in convRows \/ r.conv = conv[Home(h)]
    BY <1>7 DEF PersistUser, PersistReply, Persist
  <2> QED BY <1>7, <2>2, <2>3, <2>4, ServingTyped, RenewalsKept
          DEF PersistUser, PersistReply
<1>8. ASSUME NEW asked \in Sids, BeginClear(h, asked) \/ BeginEnd(h, asked)
      PROVE  RenewalsBounded'
  BY <1>8, RenewalBegins DEF BeginClear, BeginEnd, Begin, Renewals
<1>9. CASE ClearWithoutService(h) \/ ClearTranscript(h) \/ EndSession(h)
  <2>1. pc[h] # "idle"
    BY <1>9 DEF ClearWithoutService, ClearTranscript, EndSession, Return, Goto
  <2>2. job[h].sid \in Sids
    BY <2>1 DEF HandlersTyped, RegistryTyped
  <2>3. UNCHANGED <<calls, convRows>>
        /\ (conv' = conv \/ conv' = [conv EXCEPT ![job[h].sid] = @ + 1])
    BY <1>9 DEF ClearWithoutService, ClearTranscript, EndSession, ClearState
  <2>4. \E from \in Renewals : \E to \in {"idle", "clear_rows"} : Goto(h, from, to)
    BY <1>9 DEF ClearWithoutService, ClearTranscript, EndSession, Return, Renewals
  <2> QED BY <2>2, <2>3, <2>4, RenewalDone DEF Renewals
<1>10. ASSUME NEW ok \in Outcomes,
              \/ DeleteConversation(h, ok) \/ ClearMirror(h, ok)
              \/ EndConversations(h, ok) \/ EndMirror(h, ok)
       PROVE  RenewalsBounded'
  <2>1. Renewing' = Renewing
    BY <1>10, RenewingStep DEF DeleteConversation, ClearMirror, EndConversations, EndMirror,
       Renewals
  <2>2. UNCHANGED <<calls, conv>> /\ convRows' \subseteq convRows
    BY <1>10 DEF DeleteConversation, ClearMirror, EndConversations, EndMirror
  <2> QED BY <2>1, <2>2, RenewalsKept
<1>11. CASE \/ ForgetWithoutService(h) \/ ForgetWithService(h) \/ RenewRuntime(h)
            \/ FinishConnect(h) \/ FinishDisconnect(h)
  <2>1. UNCHANGED <<calls, conv, convRows>>
    BY <1>11 DEF ForgetWithoutService, ForgetWithService, RenewRuntime, FinishConnect,
       FinishDisconnect
  <2>2. \E from \in {"forget", "renew", "connect", "disconnect"} :
        \E to \in {"idle", "clear_mirror"} : Goto(h, from, to)
    BY <1>11 DEF ForgetWithoutService, ForgetWithService, RenewRuntime, FinishConnect,
       FinishDisconnect, Return
  <2> QED BY <1>1, <2>1, <2>2 DEF Renewals
<1> QED BY <1>2, <1>3, <1>5, <1>6, <1>7, <1>8, <1>9, <1>10, <1>11
        DEF Chat, Clear, End, Provider

-------------------------------------------------------------------------------
(* Type correctness.                                                       *)

\* The invariant holds when the process starts.
LEMMA TypeInit == Init => TypeInv /\ RenewalsBounded
<1> SUFFICES ASSUME Init PROVE TypeInv /\ RenewalsBounded
  OBVIOUS
<1> USE BoundsTyped DEF Init
<1>1. RegistryTyped
  BY DEF RegistryTyped
<1>2. HandlersTyped
  <2>1. NoJob \in Jobs
    BY DEF Jobs, NoJob, Clients, None
  <2> QED BY <2>1 DEF HandlersTyped, Steps
<1>3. ObjectsBound
  BY DEF ObjectsBound, None
<1>4. LocalsBound
  BY DEF LocalsBound, LocalsOf, Serving, Running, Clearing
<1>5. DataTyped
  BY DEF DataTyped
<1>6. RenewalsBounded
  <2>1. Renewing = {}
    BY DEF Renewing, Renewals
  <2> QED BY <2>1, FS_EmptySet DEF RenewalsBounded
<1> QED BY <1>1, <1>2, <1>3, <1>4, <1>5, <1>6 DEF TypeInv

\* Every step of every handler preserves it, and keeps the objects and the registry.
LEMMA TypeStep ==
    ASSUME TypeInv, RenewalsBounded, [Next]_vars
    PROVE  TypeInv' /\ RenewalsBounded' /\ ObjectsKept /\ RegistryGrows
<1>1. RegistryTyped' /\ RegistryGrows
  BY RegistryStep DEF TypeInv
<1>2. ASSUME NEW h \in Handlers, Chat(h) PROVE TypeInv' /\ RenewalsBounded' /\ ObjectsKept
  <2>1. HandlersTyped'
    BY <1>1, <1>2, HandlersBeforeTurn, HandlersInTurn DEF Chat
  <2>2. ObjectsStep
    BY <1>2, ObjectsInChat
  <2> QED BY <1>1, <1>2, <2>1, <2>2, LocalsInChat, DataInChat, RenewalsStep
          DEF TypeInv, ObjectsStep
<1>3. ASSUME NEW h \in Handlers, Clear(h) \/ End(h) \/ Provider(h)
      PROVE  TypeInv' /\ RenewalsBounded' /\ ObjectsKept
  <2>1. HandlersTyped'
    BY <1>1, <1>3, HandlersOutsideTurn
  <2>2. ObjectsStep
    BY <1>1, <1>3, ObjectsOutsideChat
  <2> QED BY <1>1, <1>3, <2>1, <2>2, LocalsOutsideChat, DataOutsideChat, RenewalsStep
          DEF TypeInv, ObjectsStep
<1>4. CASE UNCHANGED vars
  <2>1. UNCHANGED <<registry, state, objects, rows, lastTurn, pc, job, calls, history>>
    BY <1>4 DEF vars
  <2>2. HandlersTyped' /\ LocalsBound' /\ ObjectsBound' /\ ObjectsKept
    BY <2>1 DEF TypeInv, HandlersTyped, LocalsBound, LocalsOf, ObjectsBound, ObjectsKept,
       registry, state, objects
  <2>3. DataTyped' /\ RenewalsBounded'
    BY <2>1 DEF TypeInv, DataTyped, RenewalsBounded, Renewing, state, rows, history
  <2> QED BY <1>1, <2>2, <2>3 DEF TypeInv
<1> QED BY <1>1, <1>2, <1>3, <1>4 DEF Next, Rest

\* Every variable has its type at every step of every interleaving; a
\* conversation is renewed at most once per callback.
THEOREM TypeCorrect == Spec => []TypeOK
<1>1. TypeInv /\ RenewalsBounded => TypeOK
  <2> SUFFICES ASSUME TypeInv, RenewalsBounded PROVE TypeOK
    OBVIOUS
  <2> USE DEF TypeInv
  <2>1. live \subseteq used /\ used \subseteq Sids /\ ended \subseteq used
    BY DEF RegistryTyped
  <2>2. key \in [Sids -> Keys \cup {NoKey}] /\ lastTurn \in [Sids -> {None} \cup Calls]
        /\ ranIn \in [Calls -> Sids \cup {NoSid}] /\ wiped \subseteq Calls
        /\ memRows \subseteq [sid : Sids, turn : Calls]
    BY DEF DataTyped
  <2>3. \A s \in Sids : \A i \in DOMAIN messages[s] :
            messages[s][i] \in [turn : Calls, role : Roles]
    <3>1. \A s \in Sids : \A i \in DOMAIN messages[s] : messages[s][i] \in Messages
      BY DEF DataTyped
    <3> QED BY <3>1 DEF Messages
  <2>4. \A n \in Nat : n <= calls => n \in 0..MaxCalls
    BY BoundsTyped DEF HandlersTyped
  <2>5. conv \in [Sids -> 0..MaxCalls]
    <3>1. \A s \in Sids : conv[s] \in Nat /\ conv[s] <= calls
      BY FS_CardinalityType DEF RenewalsBounded, DataTyped, HandlersTyped
    <3> QED BY <2>4, <3>1 DEF DataTyped
  <2>6. convRows \subseteq [sid : Sids, conv : 0..MaxCalls, turn : Calls, role : Roles]
    <3> SUFFICES ASSUME NEW r \in convRows
                 PROVE  r \in [sid : Sids, conv : 0..MaxCalls, turn : Calls, role : Roles]
      OBVIOUS
    <3>1. r \in [sid : Sids, conv : Nat, turn : Calls, role : Roles] /\ r.conv <= calls
      BY DEF DataTyped, RenewalsBounded
    <3>2. r.conv \in 0..MaxCalls
      BY <2>4, <3>1
    <3> QED BY <3>1, <3>2
  <2>7. brain \in [Sids -> 0..Len(adapters)] /\ services \in [Sids -> 0..Len(svc)]
    <3>1. DOMAIN adapters = 1..Len(adapters) /\ Len(adapters) \in Nat
          /\ DOMAIN svc = 1..Len(svc) /\ Len(svc) \in Nat
      BY DEF ObjectsBound
    <3>2. \A s \in Sids : brain[s] \in 0..Len(adapters) /\ services[s] \in 0..Len(svc)
      BY <3>1 DEF ObjectsBound, None
    <3> QED BY <3>2 DEF ObjectsBound
  <2>8. \A i \in DOMAIN svc : svc[i] \in [sid : Sids, adapter : 1..Len(adapters),
                                         client : Keys \cup {NoKey, NoClient}]
    <3> SUFFICES ASSUME NEW i \in DOMAIN svc
                 PROVE  svc[i] \in [sid : Sids, adapter : 1..Len(adapters),
                                   client : Keys \cup {NoKey, NoClient}]
      OBVIOUS
    <3>1. svc[i] \in Services /\ svc[i].adapter \in 1..Len(adapters)
      BY DEF ObjectsBound
    <3> QED BY <3>1 DEF Services, Clients
  <2>9. \A i \in DOMAIN adapters : adapters[i] \in [sid : Sids, holds : SUBSET Calls]
    <3>1. \A i \in DOMAIN adapters : adapters[i] \in Adapters
      BY DEF ObjectsBound
    <3> QED BY <3>1 DEF Adapters
  <2>10. pc \in [Handlers -> Steps] /\ calls \in 0..MaxCalls
    BY DEF HandlersTyped
  <2> QED BY <2>1, <2>2, <2>3, <2>5, <2>6, <2>7, <2>8, <2>9, <2>10 DEF TypeOK
<1> QED BY <1>1, TypeInit, TypeStep, PTL DEF Spec

-------------------------------------------------------------------------------
(* The inductive invariant: a turn has no session until its message is     *)
(* said, and then that of the service its handler holds.                   *)

MessagesPlaced ==
    \A s \in Sids : \A i \in DOMAIN messages[s] : ranIn[messages[s][i].turn] = s
RowsPlaced     == \A r \in convRows \cup memRows : ranIn[r.turn] = r.sid
MemoriesPlaced ==
    \A i \in DOMAIN adapters : \A t \in adapters[i].holds : ranIn[t] = adapters[i].sid

\* The turn of a handler, its prompt, and the session it is about to run in:
\* the one its tab named, while that one is open.
TurnPlaced(h) ==
    /\ pc[h] # "idle" => ranIn[job[h].call] = IF pc[h] \in Running THEN Home(h) ELSE NoSid
    /\ pc[h] \notin Running => job[h].history = {} /\ job[h].recalled = {}
    /\ \A t \in job[h].history \cup job[h].recalled : ranIn[t] = ranIn[job[h].call]
    /\ job[h].sid \in live =>
           /\ pc[h] \in {"construct", "attach"} => job[h].at = job[h].sid
           /\ pc[h] \in Running \cup {"append"} => Home(h) = job[h].sid

Unplaced == \A t \in Calls : t > calls => ranIn[t] = NoSid

TracesPlaced == MessagesPlaced /\ RowsPlaced /\ MemoriesPlaced
TurnsPlaced  == Unplaced /\ \A h \in Handlers : TurnPlaced(h)

-------------------------------------------------------------------------------
(* The turns.                                                              *)

\* The session of a handler's service is still the same after a step.
LEMMA HomeStays ==
    ASSUME TypeInv, ObjectsKept, NEW g \in Handlers, pc[g] \in Serving,
           job'[g].svc = job[g].svc
    PROVE  Home(g)' = Home(g) /\ Home(g) \in Sids
BY ServingTyped DEF ObjectsKept, Home

\* A handler is idle with no locals, or answers a call for a session handed out before.
LEMMA IdleOrCalled ==
    ASSUME TypeInv, NEW g \in Handlers
    PROVE  /\ job[g].history \subseteq Calls /\ job[g].recalled \subseteq Calls
           /\ pc[g] # "idle" => job[g].call \in Calls /\ job[g].call <= calls
                               /\ job[g].sid \in used /\ job[g].sid \in Sids
           /\ pc[g] = "idle" => /\ job[g].sid = NoSid /\ NoSid \notin live
                                /\ job[g].history = {} /\ job[g].recalled = {}
<1>1. job[g] \in Jobs /\ calls \in 0..MaxCalls
  BY DEF TypeInv, HandlersTyped
<1>2. pc[g] # "idle" => job[g].call \in 1..calls /\ job[g].sid \in used
  BY DEF TypeInv, HandlersTyped
<1>3. pc[g] = "idle" => job[g] = NoJob
  BY DEF TypeInv, HandlersTyped
<1>4. live \subseteq used /\ used \subseteq Sids /\ NoSid \notin Sids
  BY NothingIsNothing DEF TypeInv, RegistryTyped
<1> QED BY <1>1, <1>2, <1>3, <1>4, BoundsTyped DEF Jobs, NoJob, Calls

\* The turns of the other handlers stay where they are, whether or not the
\* step places the turn of h.
LEMMA OthersPlaced ==
    ASSUME TypeInv, TurnsPlaced, ObjectsKept, RegistryGrows, NEW h \in Handlers, OthersStay(h),
           \/ ranIn' = ranIn
           \/ /\ pc[h] \notin Running /\ pc[h] # "idle"
              /\ ranIn' = [ranIn EXCEPT ![job[h].call] = Home(h)]
    PROVE  \A g \in Handlers \ {h} : TurnPlaced(g)'
<1> SUFFICES ASSUME NEW g \in Handlers, g # h PROVE TurnPlaced(g)'
  OBVIOUS
<1>1. TurnPlaced(g) /\ pc'[g] = pc[g] /\ job'[g] = job[g]
  BY DEF TurnsPlaced, OthersStay
<1>2. pc[g] \in Running \cup {"append"} => Home(g)' = Home(g) /\ Home(g) \in Sids
  BY <1>1, HomeStays DEF Serving
<1>3. ASSUME pc[g] # "idle" PROVE ranIn'[job[g].call] = ranIn[job[g].call]
  <2>1. CASE ranIn' = ranIn
    BY <2>1
  <2>2. CASE /\ pc[h] \notin Running /\ pc[h] # "idle"
             /\ ranIn' = [ranIn EXCEPT ![job[h].call] = Home(h)]
    <3>1. job[g].call # job[h].call
      BY <1>3, <2>2 DEF TypeInv, HandlersTyped
    <3>2. job[g].call \in Calls /\ ranIn \in [Calls -> Sids \cup {NoSid}]
      BY <1>3, IdleOrCalled DEF TypeInv, DataTyped
    <3> QED BY <2>2, <3>1, <3>2
  <2> QED BY <2>1, <2>2
<1>4. ASSUME NEW t \in job[g].history \cup job[g].recalled PROVE ranIn'[t] = ranIn[t]
  <2>1. CASE ranIn' = ranIn
    BY <2>1
  <2>2. CASE /\ pc[h] \notin Running /\ pc[h] # "idle"
             /\ ranIn' = [ranIn EXCEPT ![job[h].call] = Home(h)]
    <3>1. pc[g] \in Running /\ pc[g] # "idle"
      BY <1>1 DEF TurnPlaced, Running
    <3>2. ranIn[t] = Home(g) /\ Home(g) \in Sids
      BY <1>1, <1>2, <3>1 DEF TurnPlaced
    <3>3. ranIn[job[h].call] = NoSid
      BY <2>2 DEF TurnsPlaced, TurnPlaced
    <3>4. t # job[h].call
      BY <3>2, <3>3, NothingIsNothing
    <3>5. t \in Calls /\ ranIn \in [Calls -> Sids \cup {NoSid}]
      BY IdleOrCalled DEF TypeInv, DataTyped
    <3> QED BY <2>2, <3>4, <3>5
  <2> QED BY <2>1, <2>2
<1>5. pc[g] # "idle" => (job[g].sid \in live' => job[g].sid \in live)
  BY IdleOrCalled DEF RegistryGrows
<1>6. CASE pc[g] = "idle"
  BY <1>1, <1>6, IdleOrCalled DEF TurnPlaced, Running
<1>7. CASE pc[g] # "idle"
  BY <1>1, <1>2, <1>3, <1>4, <1>5, <1>7 DEF TurnPlaced
<1> QED BY <1>6, <1>7

\* A step that gives no turn a session leaves the turns of the other handlers placed.
LEMMA TurnsStay ==
    ASSUME TypeInv, TurnsPlaced, ObjectsKept, RegistryGrows, NEW h \in Handlers, OthersStay(h),
           ranIn' = ranIn, calls' \in {calls, calls + 1}, TurnPlaced(h)'
    PROVE  TurnsPlaced'
<1>1. Unplaced'
  BY DEF TypeInv, HandlersTyped, TurnsPlaced, Unplaced, Calls
<1> QED BY <1>1, OthersPlaced DEF TurnsPlaced

\* A callback that begins has a turn of its own, with no session yet.
LEMMA TurnBegins ==
    ASSUME TypeInv, TurnsPlaced, ObjectsKept, RegistryGrows, NEW h \in Handlers,
           NEW operation, NEW asked, NEW s, NEW to \in Steps,
           to \notin Running \cup {"construct", "attach", "append"},
           Begin(h, operation, asked, to, s), UNCHANGED history
    PROVE  TurnsPlaced'
<1>1. pc \in [Handlers -> Steps] /\ job \in [Handlers -> Jobs] /\ calls \in Nat
  BY DEF TypeInv, HandlersTyped
<1>2. OthersStay(h) /\ pc'[h] = to /\ calls' = calls + 1 /\ calls < MaxCalls
  BY <1>1 DEF Begin, Goto, OthersStay
<1>3. job'[h].call = calls + 1 /\ job'[h].history = {} /\ job'[h].recalled = {}
  BY <1>1, <1>2 DEF Begin, NoJob
<1>4. ranIn'[calls + 1] = NoSid /\ ranIn' = ranIn
  BY <1>1, <1>2, BoundsTyped DEF TurnsPlaced, Unplaced, Calls, history
<1>5. TurnPlaced(h)'
  BY <1>2, <1>3, <1>4 DEF TurnPlaced
<1> QED BY <1>2, <1>4, <1>5, TurnsStay

\* A callback that returns leaves its turn where it ran.
LEMMA TurnReturns ==
    ASSUME TypeInv, TurnsPlaced, ObjectsKept, RegistryGrows, RegistryTyped', NEW h \in Handlers,
           NEW from, Return(h, from), UNCHANGED <<ranIn, calls>>
    PROVE  TurnsPlaced'
<1>1. OthersStay(h) /\ pc'[h] = "idle" /\ job'[h] = NoJob
  BY DEF TypeInv, HandlersTyped, Return, Goto, OthersStay
<1>2. NoSid \notin live'
  BY NothingIsNothing DEF RegistryTyped
<1>3. TurnPlaced(h)'
  BY <1>1, <1>2 DEF TurnPlaced, NoJob, Running
<1> QED BY <1>1, <1>3, TurnsStay

\* A step within a turn whose message is said.
LEMMA TurnContinues ==
    ASSUME TypeInv, TurnsPlaced, ObjectsKept, RegistryGrows, NEW h \in Handlers, OthersStay(h),
           pc[h] \in Running, pc'[h] \in Running,
           job'[h].svc = job[h].svc, job'[h].call = job[h].call, job'[h].sid = job[h].sid,
           \A t \in job'[h].history \cup job'[h].recalled : ranIn[t] = Home(h),
           UNCHANGED <<ranIn, calls>>
    PROVE  TurnsPlaced'
<1>1. TurnPlaced(h) /\ pc[h] # "idle" /\ pc'[h] \notin {"construct", "attach", "idle"}
  BY DEF TurnsPlaced, Running
<1>2. Home(h)' = Home(h)
  BY HomeStays DEF Serving
<1>3. job[h].sid \in live' => job[h].sid \in live
  BY <1>1, IdleOrCalled DEF RegistryGrows
<1>4. TurnPlaced(h)'
  BY <1>1, <1>2, <1>3 DEF TurnPlaced
<1> QED BY <1>4, TurnsStay

\* Up to its message a turn has no session, and keeps to the one its tab named while
\* that is open.
LEMMA TurnsBeforeMessage ==
    ASSUME TypeInv, TurnsPlaced, ObjectsKept, RegistryGrows, RegistryTyped', NEW h \in Handlers,
           \/ \E asked \in Sids : BeginChat(h, asked)
           \/ Refuse(h) \/ ServiceFound(h) \/ ServiceMissing(h) \/ BindRuntime(h)
           \/ NewRuntime(h) \/ RuntimeUnavailable(h) \/ AttachRuntime(h)
    PROVE  TurnsPlaced'
<1> USE DEF history
<1>1. pc \in [Handlers -> Steps] /\ job \in [Handlers -> Jobs] /\ TurnPlaced(h)
  BY DEF TypeInv, HandlersTyped, TurnsPlaced
<1>2. ASSUME pc[h] # "idle"
      PROVE  job[h].sid \in Sids /\ (job[h].sid \in live' => job[h].sid \in live)
  BY <1>2, IdleOrCalled DEF RegistryGrows
<1>3. CASE \E asked \in Sids : BeginChat(h, asked)
  BY <1>3, TurnBegins DEF BeginChat, Steps, Running
<1>4. CASE Refuse(h) \/ RuntimeUnavailable(h)
  BY <1>4, TurnReturns DEF Refuse, RuntimeUnavailable
<1>5. CASE ServiceFound(h)
  <2>1. /\ OthersStay(h) /\ pc[h] = "check" /\ pc'[h] = "append"
        /\ job'[h] = [job[h] EXCEPT !.svc = services[job[h].sid]]
        /\ UNCHANGED <<ranIn, calls, svc>>
    BY <1>1, <1>5 DEF ServiceFound, Goto, OthersStay, objects
  <2>2. /\ job'[h].call = job[h].call /\ job'[h].sid = job[h].sid
        /\ job'[h].history = job[h].history /\ job'[h].recalled = job[h].recalled
        /\ job'[h].svc = services[job[h].sid]
    BY <1>1, <2>1 DEF Jobs
  <2>3. svc'[job'[h].svc].sid = job[h].sid
    BY <1>2, <1>5, <2>1, <2>2 DEF ServiceFound, TypeInv, ObjectsBound
  <2>4. TurnPlaced(h)'
    BY <1>1, <2>1, <2>2, <2>3 DEF TurnPlaced, Running, Home
  <2> QED BY <2>1, <2>4, TurnsStay
<1>6. CASE ServiceMissing(h)
  <2>1. /\ OthersStay(h) /\ pc[h] = "check" /\ pc'[h] = "construct"
        /\ job'[h] = [job[h] EXCEPT !.at = Resolved(job[h].sid)]
        /\ UNCHANGED <<ranIn, calls>>
    BY <1>1, <1>6 DEF ServiceMissing, Goto, OthersStay
  <2>2. /\ job'[h].call = job[h].call /\ job'[h].sid = job[h].sid
        /\ job'[h].history = job[h].history /\ job'[h].recalled = job[h].recalled
        /\ job'[h].at = Resolved(job[h].sid)
    BY <1>1, <2>1 DEF Jobs
  <2>3. job[h].sid \in live' => job'[h].at = job[h].sid
    BY <1>2, <2>1, <2>2 DEF Resolved
  <2>4. TurnPlaced(h)'
    BY <1>1, <2>1, <2>2, <2>3 DEF TurnPlaced, Running
  <2> QED BY <2>1, <2>4, TurnsStay
<1>7. CASE BindRuntime(h) \/ AttachRuntime(h)
  <2>1. /\ OthersStay(h) /\ pc[h] \in {"construct", "attach"} /\ pc'[h] = "append"
        /\ job'[h] = [job[h] EXCEPT !.svc = Len(svc')]
        /\ UNCHANGED <<ranIn, calls, live>>
    BY <1>1, <1>7 DEF BindRuntime, AttachRuntime, CacheService, Goto, OthersStay, registry
  <2>2. /\ job'[h].call = job[h].call /\ job'[h].sid = job[h].sid
        /\ job'[h].history = job[h].history /\ job'[h].recalled = job[h].recalled
        /\ job'[h].svc = Len(svc')
    BY <1>1, <2>1 DEF Jobs
  <2>3. PICK e : svc' = Append(svc, e) /\ e.sid = job[h].at
    BY <1>7 DEF BindRuntime, AttachRuntime, CacheService
  <2>4. svc'[Len(svc')] = e
    BY <2>3 DEF TypeInv, ObjectsBound
  <2>5. Home(h)' = job[h].at
    BY <2>2, <2>3, <2>4 DEF Home
  <2>6. TurnPlaced(h)'
    BY <1>1, <2>1, <2>2, <2>5 DEF TurnPlaced, Running
  <2> QED BY <2>1, <2>6, TurnsStay
<1>8. CASE NewRuntime(h)
  <2>1. /\ OthersStay(h) /\ pc[h] = "construct" /\ pc'[h] = "attach"
        /\ job'[h] = [job[h] EXCEPT !.adapter = Len(adapters')]
        /\ UNCHANGED <<ranIn, calls, live>>
    BY <1>1, <1>8 DEF NewRuntime, Goto, OthersStay, registry
  <2>2. /\ job'[h].call = job[h].call /\ job'[h].sid = job[h].sid
        /\ job'[h].history = job[h].history /\ job'[h].recalled = job[h].recalled
        /\ job'[h].at = job[h].at
    BY <1>1, <2>1 DEF Jobs
  <2>3. TurnPlaced(h)'
    BY <1>1, <2>1, <2>2 DEF TurnPlaced, Running
  <2> QED BY <2>1, <2>3, TurnsStay
<1> QED BY <1>3, <1>4, <1>5, <1>6, <1>7, <1>8

\* The message is said: the turn gets its session, for good.
LEMMA TurnSaid ==
    ASSUME TypeInv, TurnsPlaced, ObjectsKept, RegistryGrows, NEW h \in Handlers, AppendUser(h)
    PROVE  TurnsPlaced'
<1>1. /\ pc \in [Handlers -> Steps] /\ job \in [Handlers -> Jobs] /\ TurnPlaced(h)
      /\ ranIn \in [Calls -> Sids \cup {NoSid}]
  BY DEF TypeInv, HandlersTyped, DataTyped, TurnsPlaced
<1>2. /\ OthersStay(h) /\ pc[h] = "append" /\ pc'[h] = "persist_user"
      /\ UNCHANGED <<job, calls, live>>
      /\ ranIn' = [ranIn EXCEPT ![job[h].call] = Home(h)]
  BY <1>1 DEF AppendUser, Goto, OthersStay, registry
<1>3. job[h].call \in Calls /\ job[h].call <= calls /\ calls \in Nat
  BY <1>2, IdleOrCalled DEF TypeInv, HandlersTyped
<1>4. Home(h)' = Home(h) /\ Home(h) \in Sids
  BY <1>2, HomeStays DEF Serving
<1>5. ranIn'[job[h].call] = Home(h)
  BY <1>1, <1>2, <1>3
<1>6. Unplaced'
  BY <1>1, <1>2, <1>3 DEF TurnsPlaced, Unplaced, Calls
<1>7. TurnPlaced(h)'
  BY <1>1, <1>2, <1>4, <1>5 DEF TurnPlaced, Running
<1>8. \A g \in Handlers \ {h} : TurnPlaced(g)'
  BY <1>2, OthersPlaced DEF Running
<1> QED BY <1>6, <1>7, <1>8 DEF TurnsPlaced

\* What a prompt is built from: the transcript and the memories of the session
\* the turn runs in.
LEMMA PromptPlaced ==
    ASSUME TypeInv, TracesPlaced, NEW h \in Handlers, pc[h] \in Running,
           BuildContext(h)
    PROVE  \A t \in job'[h].history \cup job'[h].recalled : ranIn[t] = Home(h)
<1> DEFINE said    == messages[Home(h)]
           earlier == {said[i].turn : i \in 1..(Len(said) - 1)}
           holds   == adapters[Runtime(h)].holds
<1>1. /\ Home(h) \in Sids /\ Runtime(h) \in DOMAIN adapters
      /\ adapters[Runtime(h)].sid = Home(h)
  BY ServingTyped DEF Serving
<1>2. said \in Seq(Messages)
  BY <1>1 DEF TypeInv, DataTyped
<1>3. \A i \in 1..(Len(said) - 1) : i \in DOMAIN said
  <2> HIDE DEF said
  <2> QED BY <1>2
<1>4. \A i \in 1..(Len(said) - 1) : ranIn[said[i].turn] = Home(h)
  BY <1>1, <1>3 DEF TracesPlaced, MessagesPlaced
<1>5. \A t \in holds : ranIn[t] = Home(h)
  BY <1>1 DEF TracesPlaced, MemoriesPlaced
<1>6. job \in [Handlers -> Jobs] /\ job' = [job EXCEPT ![h].history = earlier,
                                                  ![h].recalled = holds]
  BY DEF TypeInv, HandlersTyped, BuildContext
<1>7. job'[h].history = earlier /\ job'[h].recalled = holds
  <2> HIDE DEF earlier, holds
  <2> QED BY <1>6 DEF Jobs
<1> QED BY <1>4, <1>5, <1>7

\* From its message on a turn runs in the session of its service.
LEMMA TurnsFromMessage ==
    ASSUME TypeInv, TracesPlaced, TurnsPlaced, ObjectsKept, RegistryGrows, RegistryTyped',
           NEW h \in Handlers,
           \/ AppendUser(h) \/ BuildContext(h) \/ SkipProvider(h) \/ Generate(h)
           \/ CachedClient(h) \/ BuildClient(h) \/ CacheClient(h) \/ ProviderFails(h)
           \/ Raise(h) \/ AppendReply(h) \/ FinishChat(h)
           \/ \E ok \in Outcomes : PersistUser(h, ok) \/ PersistReply(h, ok)
                                  \/ PersistMemories(h, ok)
           \/ \E b \in BOOLEAN : ObserveUser(h, b) \/ ObserveReply(h, b) \/ Reply(h, b)
    PROVE  TurnsPlaced'
<1> USE DEF history
<1>1. pc \in [Handlers -> Steps] /\ job \in [Handlers -> Jobs] /\ TurnPlaced(h)
  BY DEF TypeInv, HandlersTyped, TurnsPlaced
<1>2. pc[h] \in Running => \A t \in job[h].history \cup job[h].recalled : ranIn[t] = Home(h)
  BY <1>1 DEF TurnPlaced, Running
<1>3. ASSUME NEW from \in Running, NEW to \in Running, Goto(h, from, to),
             UNCHANGED <<job, ranIn, calls>>
      PROVE  TurnsPlaced'
  <2>1. OthersStay(h) /\ pc[h] = from /\ pc'[h] = to
    BY <1>1, <1>3 DEF Goto, OthersStay
  <2> QED BY <1>2, <1>3, <2>1, TurnContinues
<1>4. CASE \/ SkipProvider(h) \/ Generate(h) \/ CacheClient(h) \/ ProviderFails(h)
           \/ AppendReply(h)
           \/ \E ok \in Outcomes : PersistUser(h, ok) \/ PersistReply(h, ok)
                                  \/ PersistMemories(h, ok)
           \/ \E b \in BOOLEAN : ObserveUser(h, b) \/ ObserveReply(h, b) \/ Reply(h, b)
  BY <1>3, <1>4 DEF SkipProvider, Generate, CacheClient, ProviderFails, AppendReply,
     PersistUser, PersistReply, PersistMemories, ObserveUser, ObserveReply, Reply, Running
<1>5. CASE CachedClient(h) \/ BuildClient(h)
  <2>1. PICK client : job' = [job EXCEPT ![h].client = client]
    BY <1>5 DEF CachedClient, BuildClient
  <2>2. /\ job'[h].svc = job[h].svc /\ job'[h].call = job[h].call
        /\ job'[h].sid = job[h].sid
        /\ job'[h].history = job[h].history /\ job'[h].recalled = job[h].recalled
    BY <1>1, <2>1 DEF Jobs
  <2>3. OthersStay(h) /\ pc[h] \in Running /\ pc'[h] \in Running /\ UNCHANGED <<ranIn, calls>>
    BY <1>1, <1>5, <2>1 DEF CachedClient, BuildClient, Goto, OthersStay, Running
  <2> QED BY <1>2, <2>2, <2>3, TurnContinues
<1>6. CASE BuildContext(h)
  <2>1. OthersStay(h) /\ pc[h] \in Running /\ pc'[h] \in Running /\ UNCHANGED <<ranIn, calls>>
    BY <1>1, <1>6 DEF BuildContext, Goto, OthersStay, Running
  <2>2. /\ job'[h].svc = job[h].svc /\ job'[h].call = job[h].call
        /\ job'[h].sid = job[h].sid
    BY <1>1, <1>6 DEF BuildContext, Jobs
  <2> QED BY <1>6, <2>1, <2>2, PromptPlaced, TurnContinues
<1>7. CASE FinishChat(h) \/ Raise(h)
  BY <1>7, TurnReturns DEF FinishChat, Raise
<1> QED BY <1>4, <1>5, <1>6, <1>7, TurnSaid

\* The other callbacks give no turn a session.
LEMMA TurnsOutsideChat ==
    ASSUME TypeInv, TurnsPlaced, ObjectsKept, RegistryGrows, RegistryTyped',
           NEW h \in Handlers, Clear(h) \/ End(h) \/ Provider(h)
    PROVE  TurnsPlaced'
<1> USE DEF history
<1>1. pc \in [Handlers -> Steps] /\ job \in [Handlers -> Jobs] /\ TurnPlaced(h)
  BY DEF TypeInv, HandlersTyped, TurnsPlaced
<1>2. ASSUME NEW asked \in Sids, NEW k,
             \/ BeginClear(h, asked) \/ BeginForget(h, asked) \/ BeginEnd(h, asked)
             \/ BeginConnect(h, asked, k) \/ BeginDisconnect(h, asked)
      PROVE  TurnsPlaced'
  BY <1>2, TurnBegins DEF BeginClear, BeginForget, BeginEnd, BeginConnect, BeginDisconnect,
     Steps, Running
<1>3. CASE \/ ClearWithoutService(h) \/ ForgetWithoutService(h) \/ RenewRuntime(h)
           \/ EndSession(h) \/ FinishConnect(h) \/ FinishDisconnect(h)
  BY <1>3, TurnReturns DEF ClearWithoutService, ForgetWithoutService, RenewRuntime,
     EndSession, FinishConnect, FinishDisconnect
<1>4. ASSUME OthersStay(h), pc[h] \notin Running, pc[h] # "idle",
             pc'[h] \notin Running \cup {"construct", "attach", "append"}, pc'[h] # "idle",
             job'[h].call = job[h].call, job'[h].history = job[h].history,
             job'[h].recalled = job[h].recalled, UNCHANGED <<ranIn, calls>>
      PROVE  TurnsPlaced'
  <2>1. TurnPlaced(h)'
    BY <1>1, <1>4 DEF TurnPlaced
  <2> QED BY <1>4, <2>1, TurnsStay
<1>5. CASE \E ok \in Outcomes : \/ DeleteConversation(h, ok) \/ ClearMirror(h, ok)
                                \/ EndConversations(h, ok) \/ EndMirror(h, ok)
  BY <1>1, <1>4, <1>5 DEF DeleteConversation, ClearMirror, EndConversations, EndMirror,
     Goto, OthersStay, Running
<1>6. CASE ClearTranscript(h) \/ ForgetWithService(h)
  <2>1. /\ job'[h].call = job[h].call
        /\ job'[h].history = job[h].history /\ job'[h].recalled = job[h].recalled
    BY <1>1, <1>6 DEF ClearTranscript, ForgetWithService, Jobs
  <2>2. OthersStay(h)
    BY <1>1, <1>6 DEF ClearTranscript, ForgetWithService, Goto, OthersStay
  <2> QED BY <1>1, <1>4, <1>6, <2>1, <2>2 DEF ClearTranscript, ForgetWithService, Goto,
          Running
<1> QED BY <1>2, <1>3, <1>4, <1>5, <1>6 DEF Clear, End, Provider

-------------------------------------------------------------------------------
(* The traces a turn leaves.                                               *)

\* The turn of a handler in the middle of a chat.
LEMMA RunsAtHome ==
    ASSUME TypeInv, TurnsPlaced, NEW h \in Handlers, pc[h] \in Running
    PROVE  /\ ranIn[job[h].call] = Home(h) /\ Home(h) \in Sids /\ job[h].call \in Calls
           /\ Runtime(h) \in DOMAIN adapters /\ adapters[Runtime(h)].sid = Home(h)
<1>1. pc[h] # "idle" /\ pc[h] \in Serving
  BY DEF Running, Serving
<1> QED BY <1>1, ServingTyped DEF TurnsPlaced, TurnPlaced

\* A message more, in the session its turn runs in.
LEMMA SaidPlaced ==
    ASSUME TypeInv, TracesPlaced, NEW h \in Handlers, pc[h] \in Serving, NEW role \in Roles,
           Say(h, role), ranIn'[job[h].call] = Home(h),
           \A t \in Calls : ranIn[t] \in Sids => ranIn'[t] = ranIn[t]
    PROVE  MessagesPlaced'
<1> DEFINE e == [turn |-> job[h].call, role |-> role]
           q == messages[Home(h)]
<1>1. /\ Home(h) \in Sids /\ q \in Seq(Messages) /\ e \in Messages /\ e.turn = job[h].call
      /\ messages'[Home(h)] = Append(q, e)
      /\ \A s \in Sids \ {Home(h)} : messages'[s] = messages[s]
  BY SayTyped
<1>2. ASSUME NEW s \in Sids, NEW i \in DOMAIN messages[s]
      PROVE  ranIn'[messages[s][i].turn] = s
  <2>1. ranIn[messages[s][i].turn] = s
    BY DEF TracesPlaced, MessagesPlaced
  <2>2. messages[s][i] \in Messages
    BY DEF TypeInv, DataTyped
  <2> QED BY <2>1, <2>2 DEF Messages
<1>3. \A i \in DOMAIN Append(q, e) : \/ i \in DOMAIN q /\ Append(q, e)[i] = q[i]
                                     \/ Append(q, e)[i] = e
  <2> HIDE DEF q, e
  <2> QED BY <1>1
<1>4. \A i \in DOMAIN messages'[Home(h)] : ranIn'[messages'[Home(h)][i].turn] = Home(h)
  <2> HIDE DEF e
  <2> QED BY <1>1, <1>2, <1>3
<1> QED BY <1>1, <1>2, <1>4 DEF MessagesPlaced

\* No trace is left by a turn that has no session yet.
LEMMA OldTracesPlaced ==
    ASSUME TypeInv, TracesPlaced, \A t \in Calls : ranIn[t] \in Sids => ranIn'[t] = ranIn[t]
    PROVE  /\ UNCHANGED <<convRows, memRows>> => RowsPlaced'
           /\ UNCHANGED adapters => MemoriesPlaced'
<1>1. ASSUME NEW r \in convRows \cup memRows PROVE ranIn'[r.turn] = r.sid
  BY DEF TracesPlaced, RowsPlaced, TypeInv, DataTyped
<1>2. ASSUME NEW i \in DOMAIN adapters, NEW t \in adapters[i].holds
      PROVE  ranIn'[t] = adapters[i].sid
  <2>1. adapters[i] \in Adapters
    BY DEF TypeInv, ObjectsBound
  <2> QED BY <2>1 DEF TracesPlaced, MemoriesPlaced, Adapters
<1> QED BY <1>1, <1>2 DEF RowsPlaced, MemoriesPlaced

\* A chat's messages, rows and memories are left in the session its turn runs in ...
LEMMA TracesInChat ==
    ASSUME TypeInv, TracesPlaced, TurnsPlaced, NEW h \in Handlers, Chat(h)
    PROVE  TracesPlaced'
<1> USE DEF TypeInv, state, objects, rows, history
<1>1. ASSUME UNCHANGED <<messages, convRows, memRows, adapters, ranIn>> PROVE TracesPlaced'
  BY <1>1 DEF TracesPlaced, MessagesPlaced, RowsPlaced, MemoriesPlaced
<1>2. CASE \/ \E asked \in Sids : BeginChat(h, asked)
           \/ Refuse(h) \/ ServiceFound(h) \/ ServiceMissing(h) \/ RuntimeUnavailable(h)
           \/ BindRuntime(h) \/ AttachRuntime(h)
  BY <1>1, <1>2 DEF BeginChat, Refuse, ServiceFound, ServiceMissing, RuntimeUnavailable,
     BindRuntime, AttachRuntime
<1>3. CASE \/ BuildContext(h) \/ SkipProvider(h) \/ Generate(h) \/ CachedClient(h)
           \/ BuildClient(h) \/ CacheClient(h) \/ ProviderFails(h) \/ Raise(h)
           \/ FinishChat(h) \/ \E b \in BOOLEAN : Reply(h, b)
  BY <1>1, <1>3 DEF BuildContext, SkipProvider, Generate, CachedClient, BuildClient,
     CacheClient, ProviderFails, Raise, FinishChat, Reply
<1>4. CASE NewRuntime(h)
  <2>1. job[h].at \in Sids
    BY <1>4 DEF NewRuntime, Goto, LocalsBound, LocalsOf
  <2>2. MemoriesPlaced'
    <3>1. adapters' = Append(adapters, [sid |-> job[h].at, holds |-> {}])
          /\ adapters \in Seq(Adapters) /\ ranIn' = ranIn
      BY <1>4 DEF NewRuntime, NewAdapter, ObjectsBound
    <3> QED BY <3>1 DEF TracesPlaced, MemoriesPlaced
  <2> QED BY <1>4, <2>2 DEF NewRuntime, TracesPlaced, MessagesPlaced, RowsPlaced
<1>5. CASE AppendUser(h)
  <2>1. pc[h] = "append" /\ Say(h, "user") /\ UNCHANGED <<convRows, memRows, adapters>>
        /\ ranIn' = [ranIn EXCEPT ![job[h].call] = Home(h)]
    BY <1>5 DEF AppendUser, Goto
  <2>2. ranIn[job[h].call] = NoSid /\ job[h].call \in Calls /\ pc[h] \in Serving
    BY <2>1, ServingTyped DEF TurnsPlaced, TurnPlaced, Running, Serving
  <2>3. ranIn'[job[h].call] = Home(h) /\ \A t \in Calls : ranIn[t] \in Sids => ranIn'[t] = ranIn[t]
    BY <2>1, <2>2, NothingIsNothing DEF DataTyped
  <2> QED BY <2>1, <2>2, <2>3, SaidPlaced, OldTracesPlaced DEF TracesPlaced, Roles
<1>6. CASE AppendReply(h)
  <2>1. pc[h] \in Running /\ Say(h, "assistant")
        /\ UNCHANGED <<convRows, memRows, adapters, ranIn>>
    BY <1>6 DEF AppendReply, Goto, Running
  <2> QED BY <2>1, RunsAtHome, SaidPlaced, OldTracesPlaced DEF TracesPlaced, Serving, Roles
<1>7. ASSUME NEW ok \in Outcomes, PersistUser(h, ok) \/ PersistReply(h, ok)
      PROVE  TracesPlaced'
  <2>1. pc[h] \in Running
    BY <1>7 DEF PersistUser, PersistReply, Goto, Running
  <2> QED BY <1>7, <2>1, RunsAtHome DEF PersistUser, PersistReply, Persist, TracesPlaced,
          MessagesPlaced, RowsPlaced, MemoriesPlaced
<1>8. CASE \E ok \in Outcomes : PersistMemories(h, ok)
  <2>1. pc[h] \in Running
    BY <1>8 DEF PersistMemories, Goto, Running
  <2>2. \A t \in adapters[Runtime(h)].holds : ranIn[t] = Home(h)
    BY <2>1, RunsAtHome DEF TracesPlaced, MemoriesPlaced
  <2> QED BY <1>8, <2>2 DEF PersistMemories, TracesPlaced, MessagesPlaced, RowsPlaced,
          MemoriesPlaced
<1>9. ASSUME NEW b \in BOOLEAN, ObserveUser(h, b) \/ ObserveReply(h, b) PROVE TracesPlaced'
  <2>1. pc[h] \in Running
    BY <1>9 DEF ObserveUser, ObserveReply, Goto, Running
  <2>2. CASE b
    <3> DEFINE a == Runtime(h)
               e == [adapters[a] EXCEPT !.holds = @ \cup {job[h].call}]
    <3>1. /\ a \in DOMAIN adapters /\ adapters[a] \in Adapters /\ adapters \in Seq(Adapters)
          /\ adapters[a].sid = ranIn[job[h].call]
      BY <2>1, RunsAtHome DEF ObjectsBound
    <3>2. e.sid = adapters[a].sid /\ e.holds = adapters[a].holds \cup {job[h].call}
      BY <3>1 DEF Adapters
    <3>3. adapters' = [adapters EXCEPT ![a] = e] /\ ranIn' = ranIn
      BY <1>9, <2>2 DEF ObserveUser, ObserveReply, Observe
    <3> HIDE DEF a, e
    <3>4. MemoriesPlaced'
      BY <3>1, <3>2, <3>3 DEF TracesPlaced, MemoriesPlaced
    <3> QED BY <1>9, <3>4 DEF ObserveUser, ObserveReply, TracesPlaced, MessagesPlaced,
            RowsPlaced
  <2>3. CASE ~b
    BY <1>1, <1>9, <2>3 DEF ObserveUser, ObserveReply, Observe
  <2> QED BY <2>2, <2>3
<1> QED BY <1>2, <1>3, <1>4, <1>5, <1>6, <1>7, <1>8, <1>9 DEF Chat

\* ... and the other callbacks leave none.
LEMMA TracesOutsideChat ==
    ASSUME TypeInv, TracesPlaced, NEW h \in Handlers, Clear(h) \/ End(h) \/ Provider(h)
    PROVE  TracesPlaced'
<1> USE DEF TypeInv, state, objects, rows, history, TracesPlaced
<1>1. MessagesPlaced'
  <2>1. ASSUME NEW s \in Sids, messages' = [messages EXCEPT ![s] = <<>>], ranIn' = ranIn
        PROVE  MessagesPlaced'
    BY <2>1 DEF MessagesPlaced, DataTyped
  <2>2. ASSUME UNCHANGED <<messages, ranIn>> PROVE MessagesPlaced'
    BY <2>2 DEF MessagesPlaced
  <2>3. CASE ClearWithoutService(h) \/ ClearTranscript(h) \/ EndSession(h)
    <3>1. pc[h] # "idle"
      BY <2>3 DEF ClearWithoutService, ClearTranscript, EndSession, Return, Goto
    <3>2. job[h].sid \in Sids
      BY <3>1 DEF HandlersTyped, RegistryTyped
    <3> QED BY <2>1, <2>2, <2>3, <3>2 DEF ClearWithoutService, ClearTranscript, EndSession,
            ClearState
  <2>4. CASE ~(ClearWithoutService(h) \/ ClearTranscript(h) \/ EndSession(h))
    BY <2>2, <2>4 DEF Clear, End, Provider, BeginClear, BeginForget, BeginEnd, BeginConnect,
       BeginDisconnect, ForgetWithoutService, ForgetWithService, DeleteConversation,
       ClearMirror, RenewRuntime, EndConversations, EndMirror, FinishConnect, FinishDisconnect
  <2> QED BY <2>3, <2>4
<1>2. convRows' \subseteq convRows /\ memRows' \subseteq memRows /\ ranIn' = ranIn
  BY DEF Clear, End, Provider, BeginClear, BeginForget, BeginEnd, BeginConnect,
     BeginDisconnect, ForgetWithoutService, ForgetWithService, DeleteConversation,
     ClearMirror, RenewRuntime, EndConversations, EndMirror, FinishConnect, FinishDisconnect,
     ClearWithoutService, ClearTranscript, EndSession
<1>3. adapters' = adapters \/ \E s : NewAdapter(s)
  BY DEF Clear, End, Provider, BeginClear, BeginForget, BeginEnd, BeginConnect,
     BeginDisconnect, ForgetWithoutService, ForgetWithService, DeleteConversation,
     ClearMirror, RenewRuntime, EndConversations, EndMirror, FinishConnect, FinishDisconnect,
     ClearWithoutService, ClearTranscript, EndSession
<1>4. MemoriesPlaced'
  <2>1. ASSUME NEW s, NewAdapter(s) PROVE MemoriesPlaced'
    <3>1. adapters' = Append(adapters, [sid |-> s, holds |-> {}])
          /\ adapters \in Seq(Adapters)
      BY <2>1 DEF NewAdapter, ObjectsBound
    <3> QED BY <1>2, <3>1 DEF MemoriesPlaced
  <2> QED BY <1>2, <1>3, <2>1 DEF MemoriesPlaced
<1>5. RowsPlaced'
  BY <1>2 DEF RowsPlaced
<1> QED BY <1>1, <1>4, <1>5

-------------------------------------------------------------------------------
(* The isolation of the sessions.                                          *)

\* At first there are no traces.
LEMMA IsolationInit == Init => TracesPlaced /\ TurnsPlaced
<1> SUFFICES ASSUME Init PROVE TracesPlaced /\ TurnsPlaced
  OBVIOUS
<1> USE DEF Init
<1>1. TracesPlaced
  BY DEF TracesPlaced, MessagesPlaced, RowsPlaced, MemoriesPlaced
<1>2. Unplaced
  BY DEF Unplaced
<1>3. ASSUME NEW h \in Handlers PROVE TurnPlaced(h)
  BY BoundsTyped, NothingIsNothing DEF TurnPlaced, NoJob, Running
<1> QED BY <1>1, <1>2, <1>3 DEF TurnsPlaced

\* Every step of every interleaving keeps the traces and the turns placed.
LEMMA IsolationStep ==
    ASSUME TypeInv, RenewalsBounded, TracesPlaced, TurnsPlaced, [Next]_vars
    PROVE  TracesPlaced' /\ TurnsPlaced'
<1>1. RegistryTyped' /\ RegistryGrows /\ ObjectsKept
  BY TypeStep DEF TypeInv
<1>2. ASSUME NEW h \in Handlers, Chat(h) PROVE TracesPlaced' /\ TurnsPlaced'
  <2>1. TurnsPlaced'
    BY <1>1, <1>2, TurnsBeforeMessage, TurnsFromMessage DEF Chat
  <2> QED BY <1>2, <2>1, TracesInChat
<1>3. ASSUME NEW h \in Handlers, Clear(h) \/ End(h) \/ Provider(h)
      PROVE  TracesPlaced' /\ TurnsPlaced'
  BY <1>1, <1>3, TurnsOutsideChat, TracesOutsideChat
<1>4. CASE UNCHANGED vars
  BY <1>4 DEF vars, registry, state, objects, rows, history, TracesPlaced, MessagesPlaced,
     RowsPlaced, MemoriesPlaced, TurnsPlaced, Unplaced, TurnPlaced, Home
<1> QED BY <1>2, <1>3, <1>4 DEF Next, Rest

\* However the callbacks of all the sessions interleave, and whatever sessions are
\* ended, cleared or replaced meanwhile: nothing of a turn is found in another
\* session, a service talks to its own session's runtime, and a turn leaves the
\* session its tab named only if that one has been ended.
THEOREM SessionsStayIsolated == Spec => []SessionsIsolated
<1>1. TypeInv /\ TracesPlaced /\ TurnsPlaced => SessionsIsolated
  <2> SUFFICES ASSUME TypeInv, TracesPlaced, TurnsPlaced PROVE SessionsIsolated
    OBVIOUS
  <2>1. \A h \in Handlers : \A t \in job[h].history \cup job[h].recalled :
            ranIn[t] = ranIn[job[h].call]
    BY DEF TurnsPlaced, TurnPlaced
  <2>2. NoSessionMixing
    BY <2>1 DEF NoSessionMixing, TracesPlaced, MessagesPlaced, RowsPlaced, MemoriesPlaced
  <2>3. ServicesBound
    BY DEF ServicesBound, TypeInv, ObjectsBound
  <2>4. DivertedOnlyIfEnded
    <3> SUFFICES ASSUME NEW h \in Handlers, job[h].sid # NoSid, job[h].sid \in live,
                        ranIn[job[h].call] \notin {NoSid, job[h].sid}
                 PROVE  FALSE
      BY DEF DivertedOnlyIfEnded
    <3>1. pc[h] # "idle"
      BY IdleOrCalled
    <3>2. pc[h] \in Running /\ ranIn[job[h].call] = Home(h)
      BY <3>1 DEF TurnsPlaced, TurnPlaced
    <3> QED BY <3>2 DEF TurnsPlaced, TurnPlaced
  <2> QED BY <2>2, <2>3, <2>4 DEF SessionsIsolated
<1> QED BY <1>1, TypeInit, TypeStep, IsolationInit, IsolationStep, PTL DEF Spec

-------------------------------------------------------------------------------
(* The transcripts.                                                        *)

\* What was said stays in the transcript until it is wiped with it.
In(s, m)   == \E i \in DOMAIN messages[s] : messages[s][i] = m
Kept(s, m) == In(s, m) \/ m.turn \in wiped

Message(h, role) == [turn |-> job[h].call, role |-> role]

\* Only sessions that were opened have services, transcripts and rows.
OwnersOpened ==
    /\ \A i \in DOMAIN svc : svc[i].sid \in used
    /\ \A h \in Handlers : pc[h] \in {"construct", "attach"} => job[h].at \in used
    /\ \A r \in convRows : r.sid \in used
    /\ \A s \in Sids \ used : messages[s] = <<>>

\* A handler writes rows of messages that are still there, or were wiped.
MessagesKept ==
    \A h \in Handlers :
        /\ pc[h] \in Running => Kept(Home(h), Message(h, "user"))
        /\ pc[h] \in {"observe_reply", "persist_reply"} =>
               Kept(Home(h), Message(h, "assistant"))

RowsKept == \A r \in convRows :
                r.sid \in live => Kept(r.sid, [turn |-> r.turn, role |-> r.role])

\* A question of an open session has its row under the session's present
\* conversation; or the row is about to be written; or the session is about
\* to end, its rows gone already.
Ending(s)       == \E h \in Handlers : pc[h] \in {"end_mirror", "end"} /\ job[h].sid = s
Persisting(t)   == \E h \in Handlers : pc[h] = "persist_user" /\ job[h].call = t
Persisted(s, t) == [sid |-> s, conv |-> conv[s], turn |-> t, role |-> "user"] \in convRows

Covered(s, t)   == Persisted(s, t) \/ Persisting(t) \/ Ending(s)

Asked(s) == {messages[s][i].turn :
                 i \in {j \in DOMAIN messages[s] : messages[s][j].role = "user"}}

QuestionsMirrored == ~lapsed => \A s \in live : \A t \in Asked(s) : Covered(s, t)

\* Clearing deletes the rows of a conversation the session has left.
ClearsThePast == \A h \in Handlers : pc[h] = "clear_rows" => job[h].conv < conv[job[h].sid]

TranscriptInv ==
    /\ OwnersOpened /\ ReplyFollowsQuestion
    /\ MessagesKept /\ RowsKept /\ QuestionsMirrored /\ ClearsThePast

\* A step leaves a transcript as it is, adds a message, or clears it and
\* remembers what it wiped.
TranscriptsGrow ==
    /\ wiped \subseteq wiped'
    /\ \A s \in Sids :
           \/ messages'[s] = messages[s]
           \/ \E m \in Messages : messages'[s] = Append(messages[s], m)
           \/ messages'[s] = <<>> /\ Said(s) \subseteq wiped'

\* This is all a step can do to a transcript.
LEMMA TranscriptsStep ==
    ASSUME TypeInv, [Next]_vars
    PROVE  TranscriptsGrow
<1> USE DEF TypeInv, state, history
<1>1. ASSUME UNCHANGED <<messages, wiped>> PROVE TranscriptsGrow
  BY <1>1 DEF TranscriptsGrow
<1>2. ASSUME NEW h \in Handlers, Chat(h) PROVE TranscriptsGrow
  <2>1. ASSUME NEW role \in Roles, pc[h] \in Serving, Say(h, role), UNCHANGED wiped
        PROVE  TranscriptsGrow
    BY <2>1, SayTyped DEF TranscriptsGrow
  <2>2. CASE AppendUser(h) \/ AppendReply(h)
    BY <2>1, <2>2 DEF AppendUser, AppendReply, Goto, Serving, Running, Roles
  <2>3. CASE \/ \E asked \in Sids : BeginChat(h, asked)
             \/ Refuse(h) \/ ServiceFound(h) \/ ServiceMissing(h) \/ RuntimeUnavailable(h)
             \/ BindRuntime(h) \/ NewRuntime(h) \/ AttachRuntime(h)
    BY <1>1, <2>3 DEF BeginChat, Refuse, ServiceFound, ServiceMissing, RuntimeUnavailable,
       BindRuntime, NewRuntime, AttachRuntime
  <2>4. CASE \/ BuildContext(h) \/ SkipProvider(h) \/ Generate(h) \/ CachedClient(h)
             \/ BuildClient(h) \/ CacheClient(h) \/ ProviderFails(h) \/ Raise(h)
             \/ FinishChat(h)
    BY <1>1, <2>4 DEF BuildContext, SkipProvider, Generate, CachedClient, BuildClient,
       CacheClient, ProviderFails, Raise, FinishChat
  <2>5. CASE \/ \E ok \in Outcomes : PersistUser(h, ok) \/ PersistReply(h, ok)
                                    \/ PersistMemories(h, ok)
             \/ \E b \in BOOLEAN : ObserveUser(h, b) \/ ObserveReply(h, b) \/ Reply(h, b)
    BY <1>1, <2>5 DEF PersistUser, PersistReply, PersistMemories, ObserveUser,
       ObserveReply, Reply
  <2> QED BY <1>2, <2>2, <2>3, <2>4, <2>5 DEF Chat
<1>3. ASSUME NEW h \in Handlers, Clear(h) \/ End(h) \/ Provider(h) PROVE TranscriptsGrow
  <2>1. ASSUME NEW s \in Sids, ClearState(s) PROVE TranscriptsGrow
    BY <2>1 DEF TranscriptsGrow, ClearState, DataTyped
  <2>2. CASE ClearWithoutService(h) \/ ClearTranscript(h) \/ EndSession(h)
    <3>1. pc[h] # "idle"
      BY <2>2 DEF ClearWithoutService, ClearTranscript, EndSession, Return, Goto
    <3>2. job[h].sid \in Sids
      BY <3>1 DEF HandlersTyped, RegistryTyped
    <3> QED BY <1>1, <2>1, <2>2, <3>2 DEF ClearWithoutService, ClearTranscript, EndSession
  <2>3. CASE ~(ClearWithoutService(h) \/ ClearTranscript(h) \/ EndSession(h))
    BY <1>1, <1>3, <2>3 DEF Clear, End, Provider, BeginClear, BeginForget, BeginEnd,
       BeginConnect, BeginDisconnect, ForgetWithoutService, ForgetWithService,
       DeleteConversation, ClearMirror, RenewRuntime, EndConversations, EndMirror,
       FinishConnect, FinishDisconnect
  <2> QED BY <2>2, <2>3
<1>4. CASE UNCHANGED vars
  BY <1>1, <1>4 DEF vars
<1> QED BY <1>2, <1>3, <1>4 DEF Next, Rest

\* What was said in a session is still there after a step, or is wiped.
LEMMA KeptStays ==
    ASSUME TypeInv, TranscriptsGrow, NEW s \in Sids, NEW m, Kept(s, m)
    PROVE  Kept(s, m)'
<1>1. CASE m.turn \in wiped
  BY <1>1 DEF Kept, TranscriptsGrow
<1>2. CASE In(s, m)
  <2>1. PICK i \in DOMAIN messages[s] : messages[s][i] = m
    BY <1>2 DEF In
  <2>2. messages[s] \in Seq(Messages)
    BY DEF TypeInv, DataTyped
  <2>3. CASE messages'[s] = messages[s]
    BY <2>1, <2>3 DEF Kept, In
  <2>4. ASSUME NEW e \in Messages, messages'[s] = Append(messages[s], e) PROVE Kept(s, m)'
    <3>1. i \in DOMAIN messages'[s] /\ messages'[s][i] = m
      BY <2>1, <2>2, <2>4
    <3> QED BY <3>1 DEF Kept, In
  <2>5. CASE Said(s) \subseteq wiped'
    BY <2>1, <2>5 DEF Kept, Said
  <2> QED BY <2>3, <2>4, <2>5 DEF TranscriptsGrow
<1> QED BY <1>1, <1>2 DEF Kept

\* The question stands before the reply that is appended.
LEMMA ReplyAppended ==
    ASSUME TypeInv, TranscriptInv, TranscriptsGrow, NEW h \in Handlers, AppendReply(h)
    PROVE  ReplyFollowsQuestion'
<1> DEFINE q == messages[Home(h)]
           e == Message(h, "assistant")
<1>1. pc[h] \in Running /\ pc[h] \in Serving /\ Say(h, "assistant") /\ UNCHANGED wiped
  BY DEF AppendReply, Goto, Running, Serving, history
<1>2. /\ Home(h) \in Sids /\ q \in Seq(Messages) /\ e \in Messages
      /\ messages'[Home(h)] = Append(q, e)
      /\ \A s \in Sids \ {Home(h)} : messages'[s] = messages[s]
  BY <1>1, SayTyped DEF Message, Roles
<1>3. e.turn = job[h].call /\ Kept(Home(h), Message(h, "user"))
  BY <1>1 DEF Message, TranscriptInv, MessagesKept
<1>4. ASSUME NEW i \in DOMAIN messages'[Home(h)], messages'[Home(h)][i].role = "assistant"
      PROVE  LET m == messages'[Home(h)][i] IN
             \/ m.turn \in wiped'
             \/ \E j \in 1..(i - 1) :
                    messages'[Home(h)][j] = [turn |-> m.turn, role |-> "user"]
  <2> HIDE DEF q, e
  <2>1. CASE i \in DOMAIN q
    <3>1. messages'[Home(h)][i] = q[i] /\ \A j \in 1..(i - 1) : messages'[Home(h)][j] = q[j]
      BY <1>2, <2>1
    <3>2. \/ q[i].turn \in wiped
          \/ \E j \in 1..(i - 1) : q[j] = [turn |-> q[i].turn, role |-> "user"]
      BY <1>2, <1>4, <2>1, <3>1 DEF q, TranscriptInv, ReplyFollowsQuestion
    <3> QED BY <1>1, <3>1, <3>2
  <2>2. CASE i = Len(q) + 1
    <3>1. messages'[Home(h)][i] = e /\ \A j \in DOMAIN q :
              j \in 1..(i - 1) /\ messages'[Home(h)][j] = q[j]
      BY <1>2, <2>2
    <3>2. job[h].call \in wiped \/ \E j \in DOMAIN q : q[j] = Message(h, "user")
      BY <1>3 DEF Kept, In, Message, q
    <3> QED BY <1>1, <1>3, <3>1, <3>2 DEF Message
  <2>3. i \in DOMAIN q \/ i = Len(q) + 1
    BY <1>2
  <2> QED BY <2>1, <2>2, <2>3
<1>5. ASSUME NEW s \in Sids \ {Home(h)}, NEW i \in DOMAIN messages'[s],
             messages'[s][i].role = "assistant"
      PROVE  \/ messages'[s][i].turn \in wiped'
             \/ \E j \in 1..(i - 1) :
                    messages'[s][j] = [turn |-> messages'[s][i].turn, role |-> "user"]
  <2> HIDE DEF q, e
  <2> QED BY <1>1, <1>2, <1>5 DEF ReplyFollowsQuestion, TranscriptInv
<1> QED BY <1>4, <1>5 DEF ReplyFollowsQuestion

\* In every other step a transcript stays or is emptied.
LEMMA FollowsStays ==
    ASSUME ReplyFollowsQuestion, wiped \subseteq wiped',
           \A s \in Sids : messages'[s] \in {messages[s], <<>>}
    PROVE  ReplyFollowsQuestion'
<1> SUFFICES ASSUME NEW s \in Sids, NEW i \in DOMAIN messages'[s],
                    messages'[s][i].role = "assistant"
             PROVE  \/ messages'[s][i].turn \in wiped'
                    \/ \E j \in 1..(i - 1) :
                           messages'[s][j] = [turn |-> messages'[s][i].turn, role |-> "user"]
  BY DEF ReplyFollowsQuestion
<1>1. messages'[s] = messages[s]
  OBVIOUS
<1> QED BY <1>1 DEF ReplyFollowsQuestion

\* A question says nothing of replies.
LEMMA QuestionAppended ==
    ASSUME TypeInv, ReplyFollowsQuestion, NEW h \in Handlers, AppendUser(h)
    PROVE  ReplyFollowsQuestion'
<1> DEFINE e == Message(h, "user")
<1>1. pc[h] \in Serving /\ Say(h, "user") /\ UNCHANGED wiped
  BY DEF AppendUser, Goto, Serving
<1>2. /\ Home(h) \in Sids /\ messages[Home(h)] \in Seq(Messages) /\ e \in Messages
      /\ messages'[Home(h)] = Append(messages[Home(h)], e)
      /\ \A s \in Sids \ {Home(h)} : messages'[s] = messages[s]
  BY <1>1, SayTyped DEF Message, Roles
<1>3. e.role = "user"
  BY DEF Message
<1> HIDE DEF e
<1>4. ASSUME NEW s \in Sids, NEW i \in DOMAIN messages'[s],
             messages'[s][i].role = "assistant"
      PROVE  \/ messages'[s][i].turn \in wiped'
             \/ \E j \in 1..(i - 1) :
                    messages'[s][j] = [turn |-> messages'[s][i].turn, role |-> "user"]
  <2>1. i \in DOMAIN messages[s] /\ messages'[s][i] = messages[s][i]
        /\ \A j \in 1..(i - 1) : messages'[s][j] = messages[s][j]
    <3>1. CASE s # Home(h)
      BY <1>2, <3>1
    <3>2. CASE s = Home(h)
      <4> DEFINE q == messages[Home(h)]
      <4>1. q \in Seq(Messages) /\ messages'[s] = Append(q, e) /\ i \in DOMAIN Append(q, e)
            /\ Append(q, e)[i].role = "assistant" /\ messages[s] = q
        BY <1>2, <1>4, <3>2
      <4> HIDE DEF q
      <4>2. i # Len(q) + 1
        BY <1>2, <1>3, <4>1
      <4>3. i \in DOMAIN q /\ \A j \in 1..i : Append(q, e)[j] = q[j]
        BY <1>2, <4>1, <4>2
      <4> QED BY <4>1, <4>3
    <3> QED BY <3>1, <3>2
  <2> QED BY <1>1, <1>4, <2>1 DEF ReplyFollowsQuestion
<1> QED BY <1>4 DEF ReplyFollowsQuestion

\* Nothing else adds a message.
LEMMA TranscriptShrinks ==
    ASSUME TypeInv, [Next]_vars, ~\E h \in Handlers : AppendUser(h) \/ AppendReply(h),
           NEW s \in Sids
    PROVE  messages'[s] \in {messages[s], <<>>}
<1>1. ASSUME NEW t, messages' = [messages EXCEPT ![t] = <<>>]
      PROVE  messages'[s] \in {messages[s], <<>>}
  BY <1>1 DEF TypeInv, DataTyped
<1>2. ASSUME NEW h \in Handlers, Chat(h) PROVE UNCHANGED messages
  BY <1>2 DEF Chat, BeginChat, Refuse, ServiceFound, ServiceMissing,
     RuntimeUnavailable, BindRuntime, NewRuntime, AttachRuntime, BuildContext,
     SkipProvider, Generate, CachedClient, BuildClient, CacheClient, ProviderFails, Raise,
     FinishChat, PersistUser, PersistReply, PersistMemories, ObserveUser, ObserveReply,
     Reply, state
<1>3. ASSUME NEW h \in Handlers, Clear(h) \/ End(h) \/ Provider(h)
      PROVE  UNCHANGED messages \/ \E t : messages' = [messages EXCEPT ![t] = <<>>]
  BY <1>3 DEF Clear, End, Provider, BeginClear, BeginForget, BeginEnd,
     BeginConnect, BeginDisconnect, ForgetWithoutService, ForgetWithService,
     DeleteConversation, ClearMirror, RenewRuntime, EndConversations, EndMirror,
     FinishConnect, FinishDisconnect, ClearWithoutService, ClearTranscript, EndSession,
     ClearState, state
<1>4. CASE UNCHANGED vars
  BY <1>4 DEF vars, state
<1> QED BY <1>1, <1>2, <1>3, <1>4 DEF Next, Rest

\* Every step keeps a reply behind its question.
LEMMA FollowsStep ==
    ASSUME TypeInv, TranscriptInv, [Next]_vars
    PROVE  ReplyFollowsQuestion'
<1>1. TranscriptsGrow
  BY TranscriptsStep
<1>2. ASSUME NEW h \in Handlers, AppendUser(h) \/ AppendReply(h) PROVE ReplyFollowsQuestion'
  BY <1>1, <1>2, QuestionAppended, ReplyAppended DEF TranscriptInv
<1>3. CASE ~\E h \in Handlers : AppendUser(h) \/ AppendReply(h)
  BY <1>1, <1>3, TranscriptShrinks, FollowsStays DEF TranscriptInv, TranscriptsGrow
<1> QED BY <1>2, <1>3

-------------------------------------------------------------------------------
(* Whose transcripts, services and rows there are.                         *)

\* A handler's step is its own.
LEMMA HandlerStep ==
    ASSUME TypeInv, NEW h \in Handlers, Chat(h) \/ Clear(h) \/ End(h) \/ Provider(h)
    PROVE  OthersStay(h)
<1>1. pc \in [Handlers -> Steps] /\ job \in [Handlers -> Jobs]
  BY DEF TypeInv, HandlersTyped
<1>2. CASE Chat(h)
  BY <1>1, <1>2 DEF Chat, BeginChat, Begin, Refuse, ServiceFound, ServiceMissing,
     RuntimeUnavailable, BindRuntime, NewRuntime, AttachRuntime, BuildContext,
     SkipProvider, Generate, CachedClient, BuildClient, CacheClient, ProviderFails, Raise,
     FinishChat, PersistUser, PersistReply, PersistMemories, ObserveUser, ObserveReply,
     Reply, AppendUser, AppendReply, CacheService, Goto, Return, OthersStay
<1>3. CASE Clear(h) \/ End(h) \/ Provider(h)
  BY <1>1, <1>3 DEF Clear, End, Provider, BeginClear, BeginForget, BeginEnd,
     BeginConnect, BeginDisconnect, Begin, ForgetWithoutService, ForgetWithService,
     DeleteConversation, ClearMirror, RenewRuntime, EndConversations, EndMirror,
     FinishConnect, FinishDisconnect, ClearWithoutService, ClearTranscript, EndSession,
     Goto, Return, OthersStay
<1> QED BY <1>2, <1>3

\* A row that is written is that of a message of the handler's turn.
LEMMA RowsWritten ==
    ASSUME TypeInv, [Next]_vars, NEW r \in convRows', r \notin convRows
    PROVE  \E h \in Handlers, role \in Roles :
               /\ pc[h] = IF role = "user" THEN "persist_user" ELSE "persist_reply"
               /\ PersistUser(h, TRUE) \/ PersistReply(h, TRUE)
               /\ r = [sid |-> Home(h), conv |-> conv[Home(h)],
                       turn |-> job[h].call, role |-> role]
<1> USE DEF rows
<1>1. ASSUME NEW h \in Handlers, NEW ok \in Outcomes, PersistUser(h, ok) PROVE ok = TRUE
  BY <1>1, OutcomesTyped DEF PersistUser, Persist, Outcomes
<1>2. ASSUME NEW h \in Handlers, NEW ok \in Outcomes, PersistReply(h, ok) PROVE ok = TRUE
  BY <1>2, OutcomesTyped DEF PersistReply, Persist, Outcomes
<1>3. ASSUME NEW h \in Handlers, Chat(h)
      PROVE  PersistUser(h, TRUE) \/ PersistReply(h, TRUE)
  BY <1>1, <1>2, <1>3 DEF Chat, BeginChat, Refuse, ServiceFound, ServiceMissing,
     RuntimeUnavailable, BindRuntime, NewRuntime, AttachRuntime, BuildContext,
     SkipProvider, Generate, CachedClient, BuildClient, CacheClient, ProviderFails, Raise,
     FinishChat, PersistMemories, ObserveUser, ObserveReply, Reply, AppendUser, AppendReply
<1>4. ASSUME NEW h \in Handlers, Clear(h) \/ End(h) \/ Provider(h) PROVE FALSE
  BY <1>4 DEF Clear, End, Provider, BeginClear, BeginForget, BeginEnd,
     BeginConnect, BeginDisconnect, ForgetWithoutService, ForgetWithService,
     DeleteConversation, ClearMirror, RenewRuntime, EndConversations, EndMirror,
     FinishConnect, FinishDisconnect, ClearWithoutService, ClearTranscript, EndSession
<1>5. CASE UNCHANGED vars
  BY <1>5 DEF vars
<1>6. PICK h \in Handlers : PersistUser(h, TRUE) \/ PersistReply(h, TRUE)
  BY <1>3, <1>4, <1>5 DEF Next, Rest
<1> QED BY <1>6 DEF PersistUser, PersistReply, Persist, Goto, Roles

\* Where services, transcripts and rows come from.
LEMMA OwnersStep ==
    ASSUME TypeInv, RenewalsBounded, OwnersOpened, [Next]_vars
    PROVE  OwnersOpened'
<1> USE DEF TypeInv, state, objects, rows
<1>1. RegistryTyped' /\ RegistryGrows /\ TypeInv'
  BY TypeStep
<1>2. pc \in [Handlers -> Steps] /\ job \in [Handlers -> Jobs]
  BY DEF HandlersTyped
<1>3. ASSUME NEW h \in Handlers, pc[h] \in Serving PROVE Home(h) \in used
  BY <1>3, ServingTyped DEF OwnersOpened, Home
<1>4. \A i \in DOMAIN svc' : svc'[i].sid \in used'
  <2>1. ASSUME UNCHANGED svc PROVE \A i \in DOMAIN svc' : svc'[i].sid \in used'
    BY <1>1, <2>1 DEF OwnersOpened, RegistryGrows
  <2>2. ASSUME NEW h \in Handlers, Chat(h) PROVE \A i \in DOMAIN svc' : svc'[i].sid \in used'
    <3>1. CASE BindRuntime(h) \/ AttachRuntime(h)
      <4>1. pc[h] \in {"construct", "attach"}
        BY <3>1 DEF BindRuntime, AttachRuntime, Goto
      <4>2. job[h].at \in used
        BY <4>1 DEF OwnersOpened
      <4>3. PICK e : svc' = Append(svc, e) /\ e.sid = job[h].at
        BY <3>1 DEF BindRuntime, AttachRuntime, CacheService
      <4>4. \A i \in DOMAIN svc' : (i \in DOMAIN svc /\ svc'[i] = svc[i]) \/ svc'[i] = e
        BY <4>3 DEF ObjectsBound
      <4> QED BY <1>1, <4>2, <4>3, <4>4 DEF OwnersOpened, RegistryGrows
    <3>2. CASE CacheClient(h)
      <4>1. ObjectsKept /\ DOMAIN svc' = DOMAIN svc
        BY <3>2, TypeStep DEF CacheClient, ObjectsBound
      <4> QED BY <1>1, <4>1 DEF OwnersOpened, ObjectsKept, RegistryGrows
    <3>3. CASE ~(BindRuntime(h) \/ AttachRuntime(h) \/ CacheClient(h))
      BY <2>1, <2>2, <3>3 DEF Chat, BeginChat, Refuse, ServiceFound, ServiceMissing,
         RuntimeUnavailable, NewRuntime, BuildContext, SkipProvider, Generate, CachedClient,
         BuildClient, ProviderFails, Raise, FinishChat, PersistUser, PersistReply,
         PersistMemories, ObserveUser, ObserveReply, Reply, AppendUser, AppendReply
    <3> QED BY <3>1, <3>2, <3>3
  <2>3. ASSUME NEW h \in Handlers, Clear(h) \/ End(h) \/ Provider(h)
        PROVE  \A i \in DOMAIN svc' : svc'[i].sid \in used'
    <3>1. DOMAIN svc' = DOMAIN svc
      BY <2>3 DEF Clear, End, Provider, BeginClear, BeginForget, BeginEnd,
         BeginConnect, BeginDisconnect, ForgetWithoutService, ForgetWithService,
         DeleteConversation, ClearMirror, RenewRuntime, EndConversations, EndMirror,
         FinishConnect, FinishDisconnect, ClearWithoutService, ClearTranscript, EndSession,
         ResetClient, ObjectsBound
    <3>2. ObjectsKept
      BY <1>1, <2>3, ObjectsOutsideChat DEF ObjectsStep
    <3> QED BY <1>1, <3>1, <3>2 DEF OwnersOpened, ObjectsKept, RegistryGrows
  <2>4. CASE UNCHANGED vars
    BY <2>1, <2>4 DEF vars
  <2> QED BY <2>2, <2>3, <2>4 DEF Next, Rest
<1>5. ASSUME NEW h \in Handlers, pc'[h] \in {"construct", "attach"} PROVE job'[h].at \in used'
  <2>1. ASSUME pc'[h] = pc[h], job'[h] = job[h] PROVE job'[h].at \in used'
    BY <1>1, <1>5, <2>1 DEF OwnersOpened, RegistryGrows
  <2>2. ASSUME NEW g \in Handlers, g # h, OthersStay(g) PROVE job'[h].at \in used'
    BY <2>1, <2>2 DEF OthersStay
  <2>3. ASSUME ServiceMissing(h) PROVE job'[h].at \in used'
    <3>1. pc[h] # "idle" /\ job'[h].at = Resolved(job[h].sid)
      BY <1>2, <2>3 DEF ServiceMissing, Goto, Jobs
    <3>2. job[h].sid \in Sids
      BY <3>1 DEF HandlersTyped, RegistryTyped
    <3> QED BY <2>3, <3>1, <3>2, ResolvedIsHeld DEF ServiceMissing
  <2>4. ASSUME NewRuntime(h) PROVE job'[h].at \in used'
    <3>1. pc[h] = "construct" /\ job'[h].at = job[h].at
      BY <1>2, <2>4 DEF NewRuntime, Goto, Jobs
    <3> QED BY <1>1, <3>1 DEF OwnersOpened, RegistryGrows
  <2>5. ASSUME NEW g \in Handlers, Chat(g) \/ Clear(g) \/ End(g) \/ Provider(g)
        PROVE  OthersStay(g)
    BY <1>2, <2>5, HandlerStep
  <2>6. CASE Chat(h) /\ ~ServiceMissing(h) /\ ~NewRuntime(h)
    BY <1>2, <1>5, <2>6 DEF Chat, BeginChat, Begin, Refuse, ServiceFound, RuntimeUnavailable,
       BindRuntime, AttachRuntime, BuildContext, SkipProvider, Generate, CachedClient,
       BuildClient, CacheClient, ProviderFails, Raise, FinishChat, PersistUser, PersistReply,
       PersistMemories, ObserveUser, ObserveReply, Reply, AppendUser, AppendReply, Goto, Return
  <2>7. CASE Clear(h) \/ End(h) \/ Provider(h)
    BY <1>2, <1>5, <2>7 DEF Clear, End, Provider, BeginClear, BeginForget, BeginEnd,
       BeginConnect, BeginDisconnect, Begin, ForgetWithoutService, ForgetWithService,
       DeleteConversation, ClearMirror, RenewRuntime, EndConversations, EndMirror,
       FinishConnect, FinishDisconnect, ClearWithoutService, ClearTranscript, EndSession,
       Goto, Return
  <2>8. CASE UNCHANGED vars
    BY <2>1, <2>8 DEF vars
  <2> QED BY <2>2, <2>3, <2>4, <2>5, <2>6, <2>7, <2>8 DEF Next, Rest
<1>6. \A r \in convRows' : r.sid \in used'
  <2>1. ASSUME NEW r \in convRows', r \notin convRows PROVE r.sid \in used
    <3>1. PICK h \in Handlers, role \in Roles :
              /\ pc[h] = IF role = "user" THEN "persist_user" ELSE "persist_reply"
              /\ r = [sid |-> Home(h), conv |-> conv[Home(h)],
                      turn |-> job[h].call, role |-> role]
      BY <2>1, RowsWritten
    <3>2. pc[h] \in Serving /\ r.sid = Home(h)
      BY <3>1 DEF Serving, Running
    <3> QED BY <1>3, <3>2
  <2> QED BY <1>1, <2>1 DEF OwnersOpened, RegistryGrows
<1>7. \A s \in Sids \ used' : messages'[s] = <<>>
  <2> SUFFICES ASSUME NEW s \in Sids \ used' PROVE messages'[s] = <<>>
    OBVIOUS
  <2>1. messages[s] = <<>>
    BY <1>1 DEF OwnersOpened, RegistryGrows
  <2>2. CASE \E h \in Handlers : AppendUser(h) \/ AppendReply(h)
    <3>1. PICK h \in Handlers, role \in Roles : pc[h] \in Serving /\ Say(h, role)
      BY <2>2 DEF AppendUser, AppendReply, Goto, Serving, Running, Roles
    <3>2. s # Home(h)
      BY <1>1, <1>3, <3>1 DEF RegistryGrows
    <3> QED BY <2>1, <3>1, <3>2, SayTyped
  <2>3. CASE ~\E h \in Handlers : AppendUser(h) \/ AppendReply(h)
    BY <2>1, <2>3, TranscriptShrinks
  <2> QED BY <2>2, <2>3
<1> QED BY <1>4, <1>5, <1>6, <1>7 DEF OwnersOpened

-------------------------------------------------------------------------------
(* Messages that are written to the table are in the transcript.           *)

MessagesOf(h) ==
    /\ pc[h] \in Running => Kept(Home(h), Message(h, "user"))
    /\ pc[h] \in {"observe_reply", "persist_reply"} =>
           Kept(Home(h), Message(h, "assistant"))

\* A message a handler holds on to is still kept after a step in which the handler
\* keeps its turn and its service.
LEMMA MessageCarried ==
    ASSUME TypeInv, ObjectsKept, TranscriptsGrow, NEW h \in Handlers, NEW role \in Roles,
           pc[h] \in Serving, job'[h].svc = job[h].svc, job'[h].call = job[h].call,
           Kept(Home(h), Message(h, role))
    PROVE  Kept(Home(h), Message(h, role))'
<1>1. Home(h)' = Home(h) /\ Home(h) \in Sids
  BY HomeStays
<1>2. Message(h, role)' = Message(h, role)
  BY DEF Message
<1>3. ASSUME NEW s \in Sids, NEW m, s = Home(h), m = Message(h, role) PROVE Kept(s, m)'
  <2>1. Kept(s, m)
    BY <1>3
  <2> QED BY <2>1, KeptStays
<1> QED BY <1>1, <1>2, <1>3 DEF Kept, In

\* A message is in the transcript once it is said.
LEMMA MessageSaid ==
    ASSUME TypeInv, ObjectsKept, NEW h \in Handlers, NEW role \in Roles, pc[h] \in Serving,
           Say(h, role), job'[h] = job[h]
    PROVE  Kept(Home(h), Message(h, role))'
<1> DEFINE e == Message(h, role)
           q == messages[Home(h)]
<1>1. Home(h)' = Home(h) /\ Home(h) \in Sids
  BY HomeStays
<1>2. e' = e
  BY DEF Message
<1>3. messages'[Home(h)] = Append(q, e) /\ q \in Seq(Messages) /\ e \in Messages
  BY SayTyped DEF Message
<1>4. \E i \in DOMAIN Append(q, e) : Append(q, e)[i] = e
  <2> HIDE DEF q, e
  <2>1. Len(q) + 1 \in DOMAIN Append(q, e) /\ Append(q, e)[Len(q) + 1] = e
    BY <1>3, AppendTyped
  <2> QED BY <2>1
<1> QED BY <1>1, <1>2, <1>3, <1>4 DEF Kept, In

\* Where a step of a handler can lead from and to, as far as messages go.
LEMMA RunningOn ==
    ASSUME TypeInv, NEW h \in Handlers, Chat(h) \/ Clear(h) \/ End(h) \/ Provider(h)
    PROVE  /\ pc'[h] \in Running =>
                  \/ AppendUser(h)
                  \/ /\ pc[h] \in Running
                     /\ job'[h].svc = job[h].svc /\ job'[h].call = job[h].call
           /\ pc'[h] \in {"observe_reply", "persist_reply"} =>
                  AppendReply(h) \/ pc[h] \in {"observe_reply", "persist_reply"}
<1>1. pc \in [Handlers -> Steps] /\ job \in [Handlers -> Jobs]
  BY DEF TypeInv, HandlersTyped
<1>2. ASSUME NEW from, NEW to, Goto(h, from, to) PROVE pc[h] = from /\ pc'[h] = to
  BY <1>1, <1>2 DEF Goto
<1>3. CASE \/ \E asked \in Sids : BeginChat(h, asked)
           \/ Refuse(h) \/ ServiceFound(h) \/ ServiceMissing(h) \/ BindRuntime(h)
           \/ NewRuntime(h) \/ RuntimeUnavailable(h) \/ AttachRuntime(h)
           \/ Raise(h) \/ FinishChat(h)
  <2>1. pc'[h] \in {"check", "construct", "attach", "append", "idle"}
    <3>1. CASE \E asked \in Sids : BeginChat(h, asked)
      BY <1>2, <3>1 DEF BeginChat, Begin
    <3>2. CASE Refuse(h) \/ RuntimeUnavailable(h) \/ FinishChat(h)
      BY <1>2, <3>2 DEF Refuse, RuntimeUnavailable, FinishChat, Return
    <3>3. CASE Raise(h)
      BY <1>2, <3>3 DEF Raise, Return
    <3>4. CASE ServiceFound(h) \/ ServiceMissing(h) \/ BindRuntime(h) \/ NewRuntime(h)
               \/ AttachRuntime(h)
      BY <1>2, <3>4 DEF ServiceFound, ServiceMissing, BindRuntime, NewRuntime, AttachRuntime
    <3> QED BY <1>3, <3>1, <3>2, <3>3, <3>4
  <2> QED BY <2>1 DEF Running
<1>4. CASE \/ SkipProvider(h) \/ Generate(h) \/ CacheClient(h) \/ ProviderFails(h)
           \/ \E ok \in Outcomes : PersistUser(h, ok) \/ PersistReply(h, ok)
                                  \/ PersistMemories(h, ok)
           \/ \E b \in BOOLEAN : ObserveUser(h, b) \/ ObserveReply(h, b) \/ Reply(h, b)
  <2>1. UNCHANGED job
    BY <1>4 DEF SkipProvider, Generate, CacheClient, ProviderFails,
       PersistUser, PersistReply, PersistMemories, ObserveUser, ObserveReply, Reply
  <2>2. /\ pc'[h] \in Running => pc[h] \in Running
        /\ pc'[h] \in {"observe_reply", "persist_reply"} =>
               pc[h] \in {"observe_reply", "persist_reply"}
    BY <1>2, <1>4 DEF SkipProvider, Generate, CacheClient, ProviderFails,
       PersistUser, PersistReply, PersistMemories, ObserveUser, ObserveReply, Reply, Running
  <2> QED BY <2>1, <2>2
<1>5. CASE CachedClient(h) \/ BuildClient(h)
  <2>1. PICK client : job' = [job EXCEPT ![h].client = client]
    BY <1>5 DEF CachedClient, BuildClient
  <2>2. job'[h].svc = job[h].svc /\ job'[h].call = job[h].call
    BY <1>1, <2>1 DEF Jobs
  <2> QED BY <1>2, <1>5, <2>2 DEF CachedClient, BuildClient, Running
<1>6. CASE BuildContext(h)
  <2>1. job'[h].svc = job[h].svc /\ job'[h].call = job[h].call
    BY <1>1, <1>6 DEF BuildContext, Jobs
  <2> QED BY <1>2, <1>6, <2>1 DEF BuildContext, Running
<1>7. CASE AppendUser(h) \/ AppendReply(h)
  <2>1. UNCHANGED job
    BY <1>7 DEF AppendUser, AppendReply
  <2> QED BY <1>2, <1>7, <2>1 DEF AppendUser, AppendReply, Running
<1>8. CASE Clear(h) \/ End(h) \/ Provider(h)
  <2>1. pc'[h] \in {"clear", "forget", "clear_rows", "clear_mirror", "renew", "end_rows",
                    "end_mirror", "end", "connect", "disconnect", "idle"}
    <3>1. CASE Clear(h)
      BY <1>2, <3>1 DEF Clear, BeginClear, BeginForget, Begin, ForgetWithoutService,
         ForgetWithService, DeleteConversation, ClearMirror, RenewRuntime,
         ClearWithoutService, ClearTranscript, Return
    <3>2. CASE End(h)
      BY <1>2, <3>2 DEF End, BeginEnd, Begin, EndConversations, EndMirror, EndSession, Return
    <3>3. CASE Provider(h)
      BY <1>2, <3>3 DEF Provider, BeginConnect, BeginDisconnect, Begin, FinishConnect,
         FinishDisconnect, Return
    <3> QED BY <1>8, <3>1, <3>2, <3>3
  <2> QED BY <2>1 DEF Running
<1> QED BY <1>3, <1>4, <1>5, <1>6, <1>7, <1>8 DEF Chat

\* A message a handler will write to the table stays in its transcript, or is wiped.
LEMMA MessagesKeptStep ==
    ASSUME TypeInv, RenewalsBounded, MessagesKept, [Next]_vars
    PROVE  MessagesKept'
<1>1. TranscriptsGrow
  BY TranscriptsStep
<1>2. TypeInv /\ ObjectsKept
  BY TypeStep
<1>3. ASSUME NEW h \in Handlers, Chat(h) \/ Clear(h) \/ End(h) \/ Provider(h),
             NEW g \in Handlers
      PROVE  MessagesOf(g)'
  <2>1. MessagesOf(g)
    BY DEF MessagesKept, MessagesOf
  <2>2. OthersStay(h)
    BY <1>3, HandlerStep
  <2>3. "user" \in Roles /\ "assistant" \in Roles
    BY DEF Roles
  <2>4. ASSUME pc[g] \in Running, job'[g].svc = job[g].svc, job'[g].call = job[g].call
        PROVE  /\ Kept(Home(g), Message(g, "user"))'
               /\ pc[g] \in {"observe_reply", "persist_reply"} =>
                      Kept(Home(g), Message(g, "assistant"))'
    <3>1. pc[g] \in Serving
      BY <2>4 DEF Serving
    <3> QED BY <1>1, <1>2, <2>1, <2>3, <2>4, <3>1, MessageCarried DEF MessagesOf
  <2>5. \A at \in {"observe_reply", "persist_reply"} : at \in Running
    BY DEF Running
  <2>6. CASE g # h
    <3>1. pc'[g] = pc[g] /\ job'[g] = job[g]
      BY <2>2, <2>6 DEF OthersStay
    <3> QED BY <2>4, <2>5, <3>1 DEF MessagesOf
  <2>7. CASE g = h
    <3>1. ASSUME AppendUser(h) PROVE Kept(Home(g), Message(g, "user"))'
                                    /\ pc'[g] = "persist_user"
      <4>1. pc[h] \in Serving /\ Say(h, "user") /\ UNCHANGED job /\ pc'[h] = "persist_user"
        BY <2>2, <3>1 DEF AppendUser, Goto, Serving, OthersStay
      <4> QED BY <1>2, <2>3, <2>7, <4>1, MessageSaid
    <3>2. ASSUME AppendReply(h)
          PROVE  /\ Kept(Home(g), Message(g, "assistant"))' /\ pc[g] \in Running
                 /\ job'[g] = job[g]
      <4>1. pc[h] \in Running /\ pc[h] \in Serving /\ Say(h, "assistant") /\ UNCHANGED job
        BY <3>2 DEF AppendReply, Goto, Serving, Running
      <4> QED BY <1>2, <2>3, <2>7, <4>1, MessageSaid
    <3>3. /\ pc'[h] \in Running =>
                 \/ AppendUser(h)
                 \/ /\ pc[h] \in Running
                    /\ job'[h].svc = job[h].svc /\ job'[h].call = job[h].call
          /\ pc'[h] \in {"observe_reply", "persist_reply"} =>
                 AppendReply(h) \/ pc[h] \in {"observe_reply", "persist_reply"}
      BY <1>2, <1>3, RunningOn
    <3>4. pc'[g] \in Running => Kept(Home(g), Message(g, "user"))'
      BY <2>4, <2>7, <3>1, <3>3
    <3>5. pc'[g] \in {"observe_reply", "persist_reply"} =>
              Kept(Home(g), Message(g, "assistant"))'
      <4>1. CASE AppendUser(h)
        BY <3>1, <4>1
      <4>2. CASE ~AppendUser(h)
        BY <2>4, <2>5, <2>7, <3>2, <3>3, <4>2
      <4> QED BY <4>1, <4>2
    <3> QED BY <3>4, <3>5 DEF MessagesOf
  <2> QED BY <2>6, <2>7
<1>4. CASE UNCHANGED vars
  BY <1>4 DEF vars, state, objects, history, MessagesKept, Kept, In, Home, Message
<1> QED BY <1>3, <1>4 DEF Next, Rest, MessagesKept, MessagesOf

\* The rows of an open session are those of messages it said.
LEMMA RowsKeptStep ==
    ASSUME TypeInv, RenewalsBounded, OwnersOpened, MessagesKept, RowsKept, [Next]_vars
    PROVE  RowsKept'
<1>1. TranscriptsGrow /\ RegistryGrows
  BY TranscriptsStep, TypeStep
<1>2. ASSUME NEW r \in convRows', r.sid \in live', r.sid \in Sids
      PROVE  Kept(r.sid, [turn |-> r.turn, role |-> r.role])'
  <2>1. CASE r \in convRows
    <3>1. r.sid \in live
      BY <1>1, <1>2, <2>1 DEF OwnersOpened, RegistryGrows
    <3>2. Kept(r.sid, [turn |-> r.turn, role |-> r.role])
      BY <2>1, <3>1 DEF RowsKept
    <3> QED BY <1>1, <1>2, <3>2, KeptStays
  <2>2. CASE r \notin convRows
    <3>1. PICK h \in Handlers, role \in Roles :
              /\ pc[h] = IF role = "user" THEN "persist_user" ELSE "persist_reply"
              /\ r = [sid |-> Home(h), conv |-> conv[Home(h)],
                      turn |-> job[h].call, role |-> role]
      BY <2>2, RowsWritten
    <3>2. Kept(Home(h), Message(h, role))
      BY <3>1 DEF MessagesKept, Roles, Running
    <3>3. /\ r.sid = Home(h)
          /\ [turn |-> r.turn, role |-> r.role] = Message(h, role)
      BY <3>1 DEF Message
    <3>4. Kept(r.sid, [turn |-> r.turn, role |-> r.role])
      BY <3>2, <3>3
    <3> QED BY <1>1, <1>2, <3>4, KeptStays
  <2> QED BY <2>1, <2>2
<1>3. RegistryTyped'
  BY TypeStep DEF TypeInv
<1>4. \A s \in live' : s \in Sids
  BY <1>3 DEF RegistryTyped
<1> QED BY <1>2, <1>4 DEF RowsKept

-------------------------------------------------------------------------------
(* Questions of open sessions are in the table.                            *)

\* What covers a question still covers it after a step of h that neither writes a
\* question, nor deletes its row, nor ends its session.
LEMMA CoverStays ==
    ASSUME NEW h \in Handlers, OthersStay(h), NEW s \in Sids, NEW t,
           Covered(s, t), Persisted(s, t) => Persisted(s, t)',
           Ending(s) => Ending(s)', pc[h] # "persist_user"
    PROVE  Covered(s, t)'
<1>1. CASE Persisting(t)
  <2>1. PICK g \in Handlers : pc[g] = "persist_user" /\ job[g].call = t
    BY <1>1 DEF Persisting
  <2>2. pc'[g] = "persist_user" /\ job'[g].call = t
    BY <2>1 DEF OthersStay
  <2> QED BY <2>2 DEF Covered, Persisting
<1> QED BY <1>1 DEF Covered

\* A session that is about to end still is, unless the step ends it.
LEMMA EndingStays ==
    ASSUME NEW h \in Handlers, OthersStay(h), NEW s \in Sids, Ending(s),
           pc[h] \in {"end_mirror", "end"} /\ job[h].sid = s =>
               pc'[h] \in {"end_mirror", "end"} /\ job'[h].sid = s
    PROVE  Ending(s)'
<1>1. PICK g \in Handlers : pc[g] \in {"end_mirror", "end"} /\ job[g].sid = s
  BY DEF Ending
<1>2. pc'[g] \in {"end_mirror", "end"} /\ job'[g].sid = s
  BY <1>1 DEF OthersStay
<1> QED BY <1>2 DEF Ending

\* A step that adds no message keeps the questions covered if it keeps each of those
\* that stay covered.
LEMMA MirroredStays ==
    ASSUME TypeInv, OwnersOpened, QuestionsMirrored, RegistryGrows, RegistryTyped',
           ~lapsed' => ~lapsed,
           \A s \in Sids : messages'[s] \in {messages[s], <<>>},
           \A s \in live \cap live' : \A t \in Asked(s) :
               ~lapsed' /\ messages'[s] = messages[s] /\ Covered(s, t) => Covered(s, t)'
    PROVE  QuestionsMirrored'
<1> SUFFICES ASSUME ~lapsed', NEW s \in live', NEW t \in Asked(s)'
             PROVE  Covered(s, t)'
  BY DEF QuestionsMirrored
<1>1. s \in Sids
  BY DEF RegistryTyped
<1>2. messages'[s] = messages[s] /\ messages[s] # <<>> /\ t \in Asked(s)
  BY <1>1 DEF Asked
<1>3. s \in live
  BY <1>1, <1>2 DEF OwnersOpened, RegistryGrows
<1> QED BY <1>2, <1>3 DEF QuestionsMirrored

\* What is asked in a session after a message is said.
LEMMA AskedAfterSay ==
    ASSUME TypeInv, NEW h \in Handlers, NEW role \in Roles, pc[h] \in Serving, Say(h, role),
           NEW s \in Sids, NEW t \in Asked(s)'
    PROVE  t \in Asked(s) \/ (role = "user" /\ t = job[h].call)
<1> DEFINE q == messages[Home(h)]
           e == [turn |-> job[h].call, role |-> role]
<1>1. /\ q \in Seq(Messages) /\ e \in Messages /\ messages'[Home(h)] = Append(q, e)
      /\ \A r \in Sids \ {Home(h)} : messages'[r] = messages[r]
  BY SayTyped
<1>2. PICK i \in DOMAIN messages'[s] :
          messages'[s][i].role = "user" /\ messages'[s][i].turn = t
  BY DEF Asked
<1>3. CASE s # Home(h)
  BY <1>1, <1>2, <1>3 DEF Asked
<1>4. CASE s = Home(h)
  <2>1. \/ i \in DOMAIN q /\ messages'[s][i] = q[i]
        \/ messages'[s][i] = e
    <3> HIDE DEF q, e
    <3> QED BY <1>1, <1>2, <1>4
  <2>2. CASE i \in DOMAIN q /\ messages'[s][i] = q[i]
    BY <1>2, <1>4, <2>2 DEF Asked
  <2>3. CASE messages'[s][i] = e
    BY <1>2, <2>3
  <2> QED BY <2>1, <2>2, <2>3
<1> QED BY <1>3, <1>4

\* A message is said: a reply asks nothing, a question is about to be persisted.
LEMMA SaidMirrored ==
    ASSUME TypeInv, QuestionsMirrored, NEW h \in Handlers, AppendUser(h) \/ AppendReply(h)
    PROVE  QuestionsMirrored'
<1> USE DEF state, objects, rows, registry
<1>1. OthersStay(h)
  BY HandlerStep DEF Chat
<1>2. UNCHANGED <<convRows, conv, lapsed, live, job>>
  BY DEF AppendUser, AppendReply
<1>3. PICK role \in Roles : /\ pc[h] \in Serving /\ Say(h, role)
                            /\ pc[h] \notin {"persist_user", "end_mirror", "end"}
                            /\ role = "user" => pc'[h] = "persist_user"
  BY <1>1 DEF AppendUser, AppendReply, Goto, Serving, Running, Roles, OthersStay
<1> SUFFICES ASSUME ~lapsed', NEW s \in live', NEW t \in Asked(s)' PROVE Covered(s, t)'
  BY DEF QuestionsMirrored
<1>4. s \in Sids
  BY <1>2 DEF TypeInv, RegistryTyped
<1>5. CASE t \in Asked(s)
  <2>1. Covered(s, t) /\ (Persisted(s, t) => Persisted(s, t)')
    BY <1>2, <1>5 DEF QuestionsMirrored, Persisted
  <2>2. Ending(s) => Ending(s)'
    BY <1>1, <1>3, <1>4, EndingStays
  <2> QED BY <1>1, <1>3, <1>4, <2>1, <2>2, CoverStays
<1>6. CASE role = "user" /\ t = job[h].call
  BY <1>2, <1>3, <1>6 DEF Covered, Persisting
<1> QED BY <1>3, <1>4, <1>5, <1>6, AskedAfterSay

\* A question is persisted under the conversation its session has now; a failed store
\* call is a lapse.
LEMMA PersistedMirrored ==
    ASSUME TypeInv, TracesPlaced, TurnsPlaced, OwnersOpened, QuestionsMirrored,
           NEW h \in Handlers, NEW ok \in Outcomes, PersistUser(h, ok)
    PROVE  QuestionsMirrored'
<1> USE DEF state, objects, rows, registry
<1>1. OthersStay(h)
  BY HandlerStep DEF Chat
<1>2. UNCHANGED <<messages, conv, live, job>> /\ pc[h] = "persist_user"
  BY DEF PersistUser, Goto
<1>3. /\ ok \in BOOLEAN /\ (~lapsed' => ok /\ ~lapsed)
      /\ ok => convRows' = convRows \cup {[sid |-> Home(h), conv |-> conv[Home(h)],
                                           turn |-> job[h].call, role |-> "user"]}
  BY OutcomesTyped DEF PersistUser, Persist, Attempt, Outcomes
<1> SUFFICES ASSUME ~lapsed', NEW s \in live', NEW t \in Asked(s)' PROVE Covered(s, t)'
  BY DEF QuestionsMirrored
<1>4. s \in Sids /\ s \in live /\ t \in Asked(s)
  BY <1>2 DEF TypeInv, RegistryTyped, Asked
<1>5. Covered(s, t)
  BY <1>3, <1>4 DEF QuestionsMirrored
<1>6. CASE Persisted(s, t)
  BY <1>2, <1>3, <1>6 DEF Covered, Persisted
<1>7. CASE Ending(s)
  <2>1. Ending(s)'
    BY <1>1, <1>2, <1>4, <1>7, EndingStays
  <2> QED BY <2>1 DEF Covered
<1>8. CASE Persisting(t)
  <2>1. PICK g \in Handlers : pc[g] = "persist_user" /\ job[g].call = t
    BY <1>8 DEF Persisting
  <2>2. CASE g # h
    <3>1. pc'[g] = "persist_user" /\ job'[g].call = t
      BY <1>1, <2>1, <2>2 DEF OthersStay
    <3> QED BY <3>1 DEF Covered, Persisting
  <2>3. CASE g = h
    <3>1. ranIn[t] = Home(h)
      BY <1>2, <2>1, <2>3, RunsAtHome DEF Running
    <3>2. ranIn[t] = s
      BY <1>4 DEF TracesPlaced, MessagesPlaced, Asked
    <3>3. [sid |-> s, conv |-> conv[s], turn |-> t, role |-> "user"] \in convRows'
      BY <1>3, <2>1, <2>3, <3>1, <3>2
    <3> QED BY <1>2, <3>3 DEF Covered, Persisted
  <2> QED BY <2>2, <2>3
<1> QED BY <1>5, <1>6, <1>7, <1>8 DEF Covered

\* The rest of a chat.
LEMMA ChatMirrored ==
    ASSUME TypeInv, TracesPlaced, TurnsPlaced, OwnersOpened, QuestionsMirrored,
           RegistryGrows, RegistryTyped', NEW h \in Handlers, Chat(h)
    PROVE  QuestionsMirrored'
<1> USE DEF state, objects, rows, registry
<1>1. OthersStay(h)
  BY HandlerStep
<1>2. CASE AppendUser(h) \/ AppendReply(h)
  BY <1>2, SaidMirrored
<1>3. CASE \E ok \in Outcomes : PersistUser(h, ok)
  BY <1>3, PersistedMirrored
<1>4. ASSUME UNCHANGED <<messages, conv>>, convRows \subseteq convRows', ~lapsed' => ~lapsed,
             pc[h] \notin {"persist_user", "end_mirror", "end"}
      PROVE  QuestionsMirrored'
  <2>1. ASSUME NEW s \in live \cap live', NEW t \in Asked(s), Covered(s, t)
        PROVE  Covered(s, t)'
    <3>1. s \in Sids
      BY DEF RegistryTyped
    <3>2. Persisted(s, t) => Persisted(s, t)'
      BY <1>4 DEF Persisted
    <3> QED BY <1>1, <1>4, <2>1, <3>1, <3>2, CoverStays, EndingStays
  <2> QED BY <1>4, <2>1, MirroredStays
<1>5. CASE \/ \E asked \in Sids : BeginChat(h, asked)
           \/ Refuse(h) \/ ServiceFound(h) \/ ServiceMissing(h) \/ BindRuntime(h)
           \/ NewRuntime(h) \/ RuntimeUnavailable(h) \/ AttachRuntime(h)
  BY <1>4, <1>5 DEF BeginChat, Begin, Refuse, ServiceFound, ServiceMissing, BindRuntime,
     NewRuntime, RuntimeUnavailable, AttachRuntime, Return, Goto
<1>6. CASE \/ BuildContext(h) \/ SkipProvider(h) \/ Generate(h) \/ CachedClient(h)
           \/ BuildClient(h) \/ CacheClient(h) \/ ProviderFails(h) \/ Raise(h)
           \/ FinishChat(h)
           \/ \E b \in BOOLEAN : ObserveUser(h, b) \/ ObserveReply(h, b) \/ Reply(h, b)
  <2>1. UNCHANGED <<messages, conv, convRows, lapsed>>
    BY <1>6 DEF BuildContext, SkipProvider, Generate, CachedClient, BuildClient,
       CacheClient, ProviderFails, Raise, FinishChat, ObserveUser, ObserveReply, Reply
  <2>2. pc[h] \notin {"persist_user", "end_mirror", "end"}
    BY <1>6 DEF BuildContext, SkipProvider, Generate, CachedClient, BuildClient,
       CacheClient, ProviderFails, Raise, FinishChat, ObserveUser, ObserveReply, Reply,
       Return, Goto
  <2> QED BY <1>4, <2>1, <2>2
<1>7. CASE \E ok \in Outcomes : PersistReply(h, ok) \/ PersistMemories(h, ok)
  BY <1>4, <1>7 DEF PersistReply, PersistMemories, Persist, Attempt, Goto
<1> QED BY <1>2, <1>3, <1>5, <1>6, <1>7 DEF Chat

\* Clearing empties the transcript, and later deletes the rows of a conversation that
\* its session has left.
LEMMA ClearMirrored ==
    ASSUME TypeInv, OwnersOpened, QuestionsMirrored, ClearsThePast,
           RegistryGrows, RegistryTyped', NEW h \in Handlers, Clear(h) \/ Provider(h)
    PROVE  QuestionsMirrored'
<1> USE DEF state, objects, rows, registry
<1>1. OthersStay(h) /\ job[h] \in Jobs /\ messages \in [Sids -> Seq(Messages)]
      /\ conv \in [Sids -> Nat]
  BY HandlerStep DEF TypeInv, HandlersTyped, DataTyped
<1>2. ASSUME \A s \in Sids : messages'[s] \in {messages[s], <<>>},
             \A s \in Sids : conv'[s] = conv[s] \/ messages'[s] = <<>>,
             \A s \in Sids : \A r \in convRows :
                 r.sid = s /\ r.conv = conv[s] => r \in convRows',
             ~lapsed' => ~lapsed,
             pc[h] \notin {"persist_user", "end_mirror", "end"}
      PROVE  QuestionsMirrored'
  <2>1. ASSUME NEW s \in live \cap live', NEW t \in Asked(s), Covered(s, t),
               messages'[s] = messages[s]
        PROVE  Covered(s, t)'
    <3>1. s \in Sids
      BY DEF RegistryTyped
    <3>2. conv'[s] = conv[s]
      BY <1>2, <2>1, <3>1 DEF Asked
    <3>3. Persisted(s, t) => Persisted(s, t)'
      BY <1>2, <3>1, <3>2 DEF Persisted
    <3> QED BY <1>1, <1>2, <2>1, <3>1, <3>3, CoverStays, EndingStays
  <2> QED BY <1>2, <2>1, MirroredStays
<1>3. CASE \/ ForgetWithoutService(h) \/ ForgetWithService(h) \/ RenewRuntime(h)
           \/ FinishConnect(h) \/ FinishDisconnect(h)
           \/ \E ok \in Outcomes : ClearMirror(h, ok)
           \/ \E asked \in Sids : BeginClear(h, asked) \/ BeginForget(h, asked)
                                  \/ BeginDisconnect(h, asked)
           \/ \E asked \in Sids : \E k \in Keys \cup {key[Resolved(asked)]} :
                  BeginConnect(h, asked, k)
  <2>1. UNCHANGED <<messages, conv, convRows>> /\ (~lapsed' => ~lapsed)
    <3>1. CASE ForgetWithoutService(h) \/ ForgetWithService(h) \/ RenewRuntime(h)
               \/ FinishConnect(h) \/ FinishDisconnect(h)
      BY <3>1 DEF ForgetWithoutService, ForgetWithService, RenewRuntime, FinishConnect,
         FinishDisconnect
    <3>2. ASSUME NEW ok \in Outcomes, ClearMirror(h, ok)
          PROVE  UNCHANGED <<messages, conv, convRows>> /\ (~lapsed' => ~lapsed)
      BY <3>2 DEF ClearMirror, Attempt
    <3>3. ASSUME NEW asked \in Sids,
                 \/ BeginClear(h, asked) \/ BeginForget(h, asked) \/ BeginDisconnect(h, asked)
                 \/ \E k \in Keys \cup {key[Resolved(asked)]} : BeginConnect(h, asked, k)
          PROVE  UNCHANGED <<messages, conv, convRows, lapsed>>
      BY <3>3 DEF BeginClear, BeginForget, BeginDisconnect, BeginConnect
    <3> QED BY <1>3, <3>1, <3>2, <3>3
  <2>2. pc[h] \notin {"persist_user", "end_mirror", "end"}
    BY <1>3 DEF ForgetWithoutService, ForgetWithService, RenewRuntime, FinishConnect,
       FinishDisconnect, ClearMirror, BeginClear, BeginForget, BeginDisconnect,
       BeginConnect, Begin, Return, Goto
  <2> QED BY <1>2, <2>1, <2>2
<1>4. CASE ClearWithoutService(h) \/ ClearTranscript(h)
  <2>1. /\ ClearState(job[h].sid) /\ UNCHANGED <<convRows, lapsed>>
        /\ pc[h] \notin {"persist_user", "end_mirror", "end"}
    BY <1>4 DEF ClearWithoutService, ClearTranscript, Return, Goto
  <2>2. \A s \in Sids : \/ messages'[s] = <<>>
                        \/ messages'[s] = messages[s] /\ conv'[s] = conv[s]
    BY <1>1, <2>1 DEF ClearState
  <2> QED BY <1>2, <2>1, <2>2
<1>5. ASSUME NEW ok \in Outcomes, DeleteConversation(h, ok) PROVE QuestionsMirrored'
  <2>1. /\ pc[h] = "clear_rows" /\ UNCHANGED <<messages, conv>> /\ (~lapsed' => ~lapsed)
        /\ \A r \in convRows : ~(r.sid = job[h].sid /\ r.conv = job[h].conv) => r \in convRows'
    BY <1>5 DEF DeleteConversation, Goto, Attempt
  <2>2. job[h].conv < conv[job[h].sid] /\ job[h].conv \in Nat /\ job[h].sid \in Sids
    BY <1>1, <2>1, ServingTyped DEF ClearsThePast, Jobs, Serving, Clearing
  <2>3. \A s \in Sids : \A r \in convRows :
            r.sid = s /\ r.conv = conv[s] => r \in convRows'
    BY <1>1, <2>1, <2>2
  <2> QED BY <1>2, <2>1, <2>3
<1> QED BY <1>3, <1>4, <1>5 DEF Clear, Provider

\* A session whose rows are deleted because it ends is about to end, and does.
LEMMA EndMirrored ==
    ASSUME TypeInv, OwnersOpened, QuestionsMirrored,
           RegistryGrows, RegistryTyped', NEW h \in Handlers, End(h)
    PROVE  QuestionsMirrored'
<1> USE DEF state, objects, rows, registry
<1>1. OthersStay(h) /\ messages \in [Sids -> Seq(Messages)]
  BY HandlerStep DEF TypeInv, DataTyped
<1>2. ASSUME NEW asked \in Sids, BeginEnd(h, asked) PROVE QuestionsMirrored'
  <2>1. UNCHANGED <<messages, conv, convRows, lapsed>>
        /\ pc[h] \notin {"persist_user", "end_mirror", "end"}
    BY <1>2 DEF BeginEnd, Begin, Goto
  <2>2. ASSUME NEW s \in live \cap live', NEW t \in Asked(s), Covered(s, t)
        PROVE  Covered(s, t)'
    <3>1. s \in Sids /\ (Persisted(s, t) => Persisted(s, t)')
      BY <2>1 DEF RegistryTyped, Persisted
    <3> QED BY <1>1, <2>1, <2>2, <3>1, CoverStays, EndingStays
  <2> QED BY <2>1, <2>2, MirroredStays
<1>3. ASSUME NEW ok \in Outcomes, EndConversations(h, ok) \/ EndMirror(h, ok)
      PROVE  QuestionsMirrored'
  <2>1. /\ UNCHANGED <<messages, conv, job>> /\ (~lapsed' => ~lapsed)
        /\ pc[h] \in {"end_rows", "end_mirror"} /\ pc'[h] \in {"end_mirror", "end"}
        /\ \A r \in convRows : r.sid # job[h].sid => r \in convRows'
    BY <1>1, <1>3 DEF EndConversations, EndMirror, Goto, Attempt, OthersStay
  <2>2. ASSUME NEW s \in live \cap live', NEW t \in Asked(s), Covered(s, t)
        PROVE  Covered(s, t)'
    <3>1. s \in Sids
      BY DEF RegistryTyped
    <3>2. CASE s = job[h].sid
      BY <2>1, <3>2 DEF Covered, Ending
    <3>3. CASE s # job[h].sid
      <4>1. Persisted(s, t) => Persisted(s, t)'
        BY <2>1, <3>3 DEF Persisted
      <4> QED BY <1>1, <2>1, <2>2, <3>1, <3>3, <4>1, CoverStays, EndingStays
    <3> QED BY <3>2, <3>3
  <2> QED BY <2>1, <2>2, MirroredStays
<1>4. ASSUME EndSession(h) PROVE QuestionsMirrored'
  <2>1. pc[h] = "end" /\ UNCHANGED <<convRows, lapsed>> /\ job[h].sid \in used
    BY <1>4 DEF EndSession, Return, Goto, TypeInv, HandlersTyped
  <2>2. job[h].sid \notin live'
    BY <1>4, <2>1 DEF EndSession, Start
  <2>3. \A s \in Sids : messages'[s] \in {messages[s], <<>>}
    BY <1>1, <1>4 DEF EndSession, ClearState
  <2>4. \A s \in Sids : s # job[h].sid => conv'[s] = conv[s]
    <3>1. conv \in [Sids -> Nat]
      BY DEF TypeInv, DataTyped
    <3> QED BY <1>4, <3>1 DEF EndSession, ClearState
  <2>5. ASSUME NEW s \in live \cap live', NEW t \in Asked(s), Covered(s, t)
        PROVE  Covered(s, t)'
    <3>1. s \in Sids /\ s # job[h].sid
      BY <2>2 DEF RegistryTyped
    <3>2. Persisted(s, t) => Persisted(s, t)'
      BY <2>1, <2>4, <3>1 DEF Persisted
    <3> QED BY <1>1, <2>1, <2>5, <3>1, <3>2, CoverStays, EndingStays
  <2> QED BY <2>1, <2>3, <2>5, MirroredStays
<1> QED BY <1>2, <1>3, <1>4 DEF End

\* A conversation's number only grows, and clearing moves it past the one whose rows
\* are deleted.
LEMMA PastStep ==
    ASSUME TypeInv, ClearsThePast, [Next]_vars
    PROVE  ClearsThePast'
<1> USE DEF state
<1>1. conv \in [Sids -> Nat] /\ job \in [Handlers -> Jobs]
  BY DEF TypeInv, DataTyped, HandlersTyped
<1>2. ASSUME NEW h \in Handlers, Chat(h) \/ Clear(h) \/ End(h) \/ Provider(h)
      PROVE  \A s \in Sids : conv'[s] = conv[s] \/ conv'[s] = conv[s] + 1
  <2>1. CASE Chat(h)
    <3>1. UNCHANGED conv
      BY <2>1 DEF Chat, BeginChat, Refuse, ServiceFound, ServiceMissing,
         RuntimeUnavailable, BindRuntime, NewRuntime, AttachRuntime, BuildContext,
         SkipProvider, Generate, CachedClient, BuildClient, CacheClient, ProviderFails,
         Raise, FinishChat, PersistUser, PersistReply, PersistMemories, ObserveUser,
         ObserveReply, Reply, AppendUser, AppendReply
    <3> QED BY <3>1
  <2>2. CASE \E s : ClearState(s)
    BY <1>1, <2>2 DEF ClearState
  <2>3. CASE (Clear(h) \/ End(h) \/ Provider(h)) /\ ~\E s : ClearState(s)
    <3>1. UNCHANGED conv
      BY <2>3 DEF Clear, End, Provider, BeginClear, BeginForget, BeginEnd,
         BeginConnect, BeginDisconnect, ForgetWithoutService, ForgetWithService,
         DeleteConversation, ClearMirror, RenewRuntime, EndConversations, EndMirror,
         FinishConnect, FinishDisconnect, ClearWithoutService, ClearTranscript, EndSession
    <3> QED BY <3>1
  <2> QED BY <1>2, <2>1, <2>2, <2>3
<1>3. ASSUME NEW h \in Handlers, Chat(h) \/ Clear(h) \/ End(h) \/ Provider(h),
             NEW g \in Handlers, pc'[g] = "clear_rows"
      PROVE  job'[g].conv < conv'[job'[g].sid]
  <2>1. OthersStay(h)
    BY <1>3, HandlerStep
  <2>2. ASSUME pc[g] = "clear_rows", job'[g] = job[g] PROVE job'[g].conv < conv'[job'[g].sid]
    <3>1. job[g].conv < conv[job[g].sid] /\ job[g].conv \in Nat /\ job[g].sid \in Sids
      BY <1>1, <2>2, ServingTyped DEF ClearsThePast, Jobs, Serving, Clearing
    <3> QED BY <1>1, <1>2, <1>3, <2>2, <3>1
  <2>3. CASE g # h
    BY <1>3, <2>1, <2>2, <2>3 DEF OthersStay
  <2>4. CASE g = h
    <3>1. pc'[h] = "clear_rows" => ClearTranscript(h)
      <4>1. ASSUME NEW from, NEW to, Goto(h, from, to) PROVE pc'[h] = to
        BY <2>1, <4>1 DEF Goto, OthersStay
      <4>2. CASE Chat(h)
        <5>1. pc'[h] \in Running \cup {"check", "construct", "attach", "append", "idle"}
          BY <2>1, RunningOn, <4>1, <4>2 DEF Chat, BeginChat, Begin, Refuse, ServiceFound,
             ServiceMissing, RuntimeUnavailable, BindRuntime, NewRuntime, AttachRuntime,
             BuildContext, SkipProvider, Generate, CachedClient, BuildClient, CacheClient,
             ProviderFails, Raise, FinishChat, PersistUser, PersistReply, PersistMemories,
             ObserveUser, ObserveReply, Reply, AppendUser, AppendReply, Return, Running
        <5> QED BY <5>1 DEF Running
      <4>3. CASE Clear(h)
        BY <4>1, <4>3 DEF Clear, BeginClear, BeginForget, Begin, ForgetWithoutService,
           ForgetWithService, DeleteConversation, ClearMirror, RenewRuntime,
           ClearWithoutService, ClearTranscript, Return
      <4>4. CASE End(h)
        BY <4>1, <4>4 DEF End, BeginEnd, Begin, EndConversations, EndMirror, EndSession,
           Return
      <4>5. CASE Provider(h)
        BY <4>1, <4>5 DEF Provider, BeginConnect, BeginDisconnect, Begin, FinishConnect,
           FinishDisconnect, Return
      <4> QED BY <1>3, <4>2, <4>3, <4>4, <4>5
    <3>2. ASSUME ClearTranscript(h) PROVE job'[h].conv < conv'[job'[h].sid]
      <4> DEFINE s == job[h].sid
      <4>1. s \in Sids
        <5>1. pc[h] # "idle"
          BY <3>2 DEF ClearTranscript, Goto
        <5> QED BY <5>1, IdleOrCalled
      <4>2. job' = [job EXCEPT ![h].svc = services[s], ![h].conv = conv[s]]
            /\ conv' = [conv EXCEPT ![s] = conv[s] + 1]
        BY <3>2 DEF ClearTranscript, ClearState
      <4>3. job'[h].conv = conv[s] /\ job'[h].sid = s
        BY <1>1, <4>2 DEF Jobs
      <4>4. conv'[s] = conv[s] + 1 /\ conv[s] \in Nat
        BY <1>1, <4>1, <4>2
      <4> QED BY <4>3, <4>4
    <3> QED BY <1>3, <2>4, <3>1, <3>2
  <2> QED BY <2>3, <2>4
<1>4. CASE UNCHANGED vars
  BY <1>4 DEF vars, ClearsThePast
<1> QED BY <1>3, <1>4 DEF Next, Rest, ClearsThePast

-------------------------------------------------------------------------------

\* At first nothing has been said.
LEMMA TranscriptInit == Init => TranscriptInv
<1> SUFFICES ASSUME Init PROVE TranscriptInv
  OBVIOUS
<1> USE DEF Init
<1>1. OwnersOpened /\ ReplyFollowsQuestion /\ RowsKept
  BY BoundsTyped DEF OwnersOpened, ReplyFollowsQuestion, RowsKept
<1>2. MessagesKept /\ ClearsThePast
  BY DEF MessagesKept, ClearsThePast, Running
<1>3. QuestionsMirrored
  BY BoundsTyped DEF QuestionsMirrored, Asked
<1> QED BY <1>1, <1>2, <1>3 DEF TranscriptInv

\* Every step keeps the transcripts sound.
LEMMA TranscriptStep ==
    ASSUME TypeInv, RenewalsBounded, TracesPlaced, TurnsPlaced, TranscriptInv, [Next]_vars
    PROVE  TranscriptInv'
<1> USE DEF TranscriptInv
<1>1. RegistryGrows /\ RegistryTyped'
  BY TypeStep DEF TypeInv
<1>2. QuestionsMirrored'
  <2>1. ASSUME NEW h \in Handlers, Chat(h) \/ Clear(h) \/ End(h) \/ Provider(h)
        PROVE  QuestionsMirrored'
    BY <1>1, <2>1, ChatMirrored, ClearMirrored, EndMirrored
  <2>2. CASE UNCHANGED vars
    BY <2>2 DEF vars, registry, state, rows, QuestionsMirrored, Asked, Covered, Persisted,
       Persisting, Ending
  <2> QED BY <2>1, <2>2 DEF Next, Rest
<1> QED BY <1>2, OwnersStep, FollowsStep, MessagesKeptStep, RowsKeptStep, PastStep

\* A reply stands after its question, and when no callback runs and no store call
\* has failed, the messages table agrees with the transcripts of the open sessions:
\* it holds every question and no message that was neither said nor wiped.
THEOREM TranscriptsSound == Spec => []TranscriptSound
<1>1. TypeInv /\ TranscriptInv => TranscriptSound
  <2> SUFFICES ASSUME TypeInv, TranscriptInv PROVE TranscriptMirrored
    BY DEF TranscriptInv, TranscriptSound
  <2> DEFINE persisted == {[sid |-> r.sid, turn |-> r.turn, role |-> r.role] : r \in convRows}
  <2> SUFFICES ASSUME Quiet, ~lapsed
               PROVE  /\ \A m \in persisted : m.sid \in live /\ m.turn \notin wiped =>
                             m \in Transcripts
                      /\ \A m \in Transcripts : m.role = "user" => m \in persisted
    BY DEF TranscriptMirrored
  <2>1. ASSUME NEW r \in convRows, r.sid \in live, r.turn \notin wiped
        PROVE  [sid |-> r.sid, turn |-> r.turn, role |-> r.role] \in Transcripts
    <3>1. In(r.sid, [turn |-> r.turn, role |-> r.role])
      BY <2>1 DEF TranscriptInv, RowsKept, Kept
    <3>2. PICK i \in DOMAIN messages[r.sid] :
              messages[r.sid][i] = [turn |-> r.turn, role |-> r.role]
      BY <3>1 DEF In
    <3>3. messages[r.sid][i].turn = r.turn /\ messages[r.sid][i].role = r.role
      BY <3>2
    <3> QED BY <2>1, <3>3 DEF Transcripts
  <2>2. ASSUME NEW s \in live, NEW i \in DOMAIN messages[s], messages[s][i].role = "user"
        PROVE  [sid |-> s, turn |-> messages[s][i].turn, role |-> "user"] \in persisted
    <3>1. messages[s][i].turn \in Asked(s)
      BY <2>2 DEF Asked
    <3>2. Covered(s, messages[s][i].turn)
      BY <3>1 DEF TranscriptInv, QuestionsMirrored
    <3>3. [sid |-> s, conv |-> conv[s], turn |-> messages[s][i].turn, role |-> "user"]
              \in convRows
      BY <3>2 DEF Covered, Persisted, Persisting, Ending, Quiet
    <3> QED BY <3>3
  <2>3. \A m \in persisted : m.sid \in live /\ m.turn \notin wiped => m \in Transcripts
    BY <2>1
  <2>4. \A m \in Transcripts : m.role = "user" => m \in persisted
    <3> SUFFICES ASSUME NEW m \in Transcripts, m.role = "user" PROVE m \in persisted
      OBVIOUS
    <3>1. PICK s \in live : \E i \in DOMAIN messages[s] :
              m = [sid |-> s, turn |-> messages[s][i].turn, role |-> messages[s][i].role]
      BY DEF Transcripts
    <3>2. PICK i \in DOMAIN messages[s] :
              m = [sid |-> s, turn |-> messages[s][i].turn, role |-> messages[s][i].role]
      BY <3>1
    <3>3. messages[s][i].role = "user"
      BY <3>2
    <3> HIDE DEF persisted
    <3> QED BY <2>2, <3>2, <3>3
  <2> QED BY <2>3, <2>4
<1> QED BY <1>1, TypeInit, TypeStep, IsolationInit, IsolationStep, TranscriptInit,
        TranscriptStep, PTL DEF Spec


-------------------------------------------------------------------------------
(* One callback at a time.  With a single handler the callbacks follow one *)
(* another, and what a session caches, holds and forgets can be said of    *)
(* the session alone: a clear or an end in progress is the only exception. *)

OneAtATime == \A g, h \in Handlers : g = h

\* What was said so far is of no later turn than the present one, and of earlier
\* ones until its message is said.
SaidByNow == \A s \in Sids : \A t \in Said(s) : t <= calls

Adding == {"persist_user", "observe_user", "build"}

TurnLatest(h) ==
    /\ pc[h] # "idle" => job[h].call = calls
    /\ pc[h] \notin Running \cup {"idle"} => \A s \in Sids : calls \notin Said(s)
    /\ pc[h] \in Adding =>
           \A i \in 1..(Len(messages[Home(h)]) - 1) : messages[Home(h)][i].turn < calls
    /\ \A t \in job[h].history : t < calls

MessagesEarlier == SaidByNow /\ \A h \in Handlers : TurnLatest(h)

\* A message that is said is the last of its session.
LEMMA SaidGrows ==
    ASSUME TypeInv, NEW h \in Handlers, pc[h] \in Serving, NEW role \in Roles, Say(h, role),
           NEW s \in Sids
    PROVE  /\ Said(s)' \subseteq Said(s) \cup {job[h].call}
           /\ \A i \in 1..(Len(messages'[Home(h)]) - 1) :
                  messages'[Home(h)][i].turn \in Said(Home(h))
<1> DEFINE q == messages[Home(h)]
           e == [turn |-> job[h].call, role |-> role]
<1>1. /\ q \in Seq(Messages) /\ e \in Messages /\ messages'[Home(h)] = Append(q, e)
      /\ \A r \in Sids \ {Home(h)} : messages'[r] = messages[r]
      /\ e.turn = job[h].call
  BY SayTyped
<1>2. Said(Home(h)) = {q[i].turn : i \in DOMAIN q}
  BY DEF Said
<1>3. /\ DOMAIN q = 1..Len(q) /\ Len(q) \in Nat
      /\ DOMAIN Append(q, e) = 1..(Len(q) + 1) /\ Len(Append(q, e)) = Len(q) + 1
      /\ \A i \in DOMAIN q : Append(q, e)[i] = q[i]
      /\ Append(q, e)[Len(q) + 1] = e
  BY <1>1, AppendTyped
<1>4. Said(s)' = {messages'[s][i].turn : i \in DOMAIN messages'[s]}
  BY DEF Said
<1> HIDE DEF q, e
<1>5. \A i \in 1..(Len(messages'[Home(h)]) - 1) : messages'[Home(h)][i].turn \in Said(Home(h))
  BY <1>1, <1>2, <1>3
<1>6. CASE s = Home(h)
  <2>1. Said(s)' \subseteq Said(s) \cup {job[h].call}
    BY <1>1, <1>2, <1>3, <1>4, <1>6
  <2> QED BY <1>5, <2>1
<1>7. CASE s # Home(h)
  <2>1. Said(s)' = Said(s)
    BY <1>1, <1>4, <1>7 DEF Said
  <2> QED BY <1>5, <2>1
<1> QED BY <1>6, <1>7

\* A step keeps the order of turns if it says nothing new.
LEMMA NothingSaid ==
    ASSUME OneAtATime, TypeInv, MessagesEarlier, NEW h \in Handlers, OthersStay(h),
           \A s \in Sids : Said(s)' \subseteq Said(s),
           \/ Return(h, pc[h]) /\ calls' = calls
           \/ /\ pc[h] # "idle" /\ calls' = calls /\ job'[h].call = job[h].call
              /\ \A t \in job'[h].history : t < calls
              /\ pc'[h] \notin Adding
              /\ pc[h] \in Running => pc'[h] \in Running
    PROVE  MessagesEarlier'
<1>1. SaidByNow'
  BY DEF MessagesEarlier, SaidByNow
<1>2. TurnLatest(h)'
  BY DEF MessagesEarlier, TurnLatest, TypeInv, HandlersTyped, Return, Goto, NoJob, Adding, Running
<1> QED BY <1>1, <1>2 DEF OneAtATime, MessagesEarlier

\* The same for a callback that begins.
LEMMA TurnBegun ==
    ASSUME OneAtATime, TypeInv, MessagesEarlier, NEW h \in Handlers,
           NEW operation, NEW asked, NEW s, NEW to, to \notin Running \cup {"idle"},
           Begin(h, operation, asked, to, s), messages' = messages
    PROVE  MessagesEarlier'
<1>1. calls' = calls + 1 /\ calls \in Nat
  BY BoundsTyped DEF Begin, TypeInv, HandlersTyped
<1>2. pc'[h] = to /\ job'[h].call = calls' /\ job'[h].history = {}
  BY DEF Begin, Goto, NoJob, TypeInv, HandlersTyped, Jobs
<1>3. \A r \in Sids : Said(r)' = Said(r)
  BY DEF Said
<1>4. ASSUME NEW r \in Sids, NEW t \in Said(r) PROVE t <= calls /\ t \in Nat
  BY <1>4, SaidTyped, BoundsTyped DEF MessagesEarlier, SaidByNow, TypeInv, Calls
<1>5. SaidByNow'
  BY <1>1, <1>3, <1>4 DEF SaidByNow
<1>6. TurnLatest(h)'
  <2>1. \A r \in Sids : calls' \notin Said(r)'
    BY <1>1, <1>3, <1>4
  <2> QED BY <1>2, <2>1 DEF TurnLatest, Adding, Running
<1> QED BY <1>5, <1>6 DEF OneAtATime, MessagesEarlier

\* A message is said by the latest turn, and is the last that its prompt sees.
LEMMA EarlierInTurn ==
    ASSUME OneAtATime, TypeInv, MessagesEarlier, NEW h \in Handlers, OthersStay(h),
           \/ AppendUser(h) \/ BuildContext(h) \/ AppendReply(h)
           \/ \E ok \in Outcomes : PersistUser(h, ok)
           \/ \E b \in BOOLEAN : ObserveUser(h, b)
    PROVE  MessagesEarlier'
<1> USE DEF TypeInv, HandlersTyped
<1>1. /\ calls \in Nat /\ calls' = calls /\ pc[h] \in Serving /\ pc[h] # "idle"
      /\ svc' = svc /\ job'[h].call = job[h].call /\ job[h].call = calls
      /\ job'[h].svc = job[h].svc
  BY BoundsTyped DEF AppendUser, BuildContext, AppendReply, PersistUser, ObserveUser, Goto,
     Serving, Running, objects, Jobs, MessagesEarlier, TurnLatest
<1>2. Home(h)' = Home(h) /\ Home(h) \in Sids
  BY <1>1, ServingTyped DEF Home
<1>3. \A t \in Said(Home(h)) : t \in Calls /\ t <= calls
  BY <1>2, SaidTyped DEF MessagesEarlier, SaidByNow
<1>4. CASE AppendUser(h) \/ AppendReply(h)
  <2>1. PICK role \in Roles : Say(h, role)
    BY <1>4 DEF AppendUser, AppendReply, Roles
  <2>2. SaidByNow'
    <3> SUFFICES ASSUME NEW s \in Sids, NEW t \in Said(s)' PROVE t <= calls
      BY <1>1 DEF SaidByNow
    <3>1. t \in Said(s) \cup {job[h].call}
      BY <1>1, <2>1, SaidGrows
    <3> QED BY <1>1, <3>1 DEF MessagesEarlier, SaidByNow
  <2>3. \A i \in 1..(Len(messages'[Home(h)]) - 1) :
            messages'[Home(h)][i].turn \in Said(Home(h))
    BY <1>1, <1>2, <2>1, SaidGrows
  <2>4. job' = job
    BY <1>4 DEF AppendUser, AppendReply
  <2>5. CASE AppendUser(h)
    <3>1. pc[h] = "append" /\ pc'[h] = "persist_user"
      BY <2>5 DEF AppendUser, Goto
    <3>2. \A t \in Said(Home(h)) : t < calls
      BY <1>1, <1>2, <1>3, <3>1, BoundsTyped DEF MessagesEarlier, TurnLatest, Running, Calls
    <3>3. TurnLatest(h)'
      BY <1>1, <1>2, <2>3, <2>4, <3>1, <3>2 DEF MessagesEarlier, TurnLatest, Running
    <3> QED BY <2>2, <3>3 DEF OneAtATime, MessagesEarlier
  <2>6. CASE AppendReply(h)
    <3>1. pc'[h] = "observe_reply"
      BY <2>6 DEF AppendReply, Goto
    <3>2. TurnLatest(h)'
      BY <1>1, <2>4, <3>1 DEF MessagesEarlier, TurnLatest, Running, Adding
    <3> QED BY <2>2, <3>2 DEF OneAtATime, MessagesEarlier
  <2> QED BY <1>4, <2>5, <2>6
<1>5. CASE ~(AppendUser(h) \/ AppendReply(h))
  <2>1. messages' = messages /\ pc[h] \in Adding
    BY <1>5 DEF BuildContext, PersistUser, ObserveUser, state, Goto, Adding
  <2>2. SaidByNow'
    BY <1>1, <2>1 DEF SaidByNow, MessagesEarlier, Said
  <2>3. \A i \in 1..(Len(messages[Home(h)]) - 1) : messages[Home(h)][i].turn < calls
    BY <2>1 DEF MessagesEarlier, TurnLatest
  <2>4. CASE BuildContext(h)
    <3>1. pc'[h] = "generate"
      BY <2>4 DEF BuildContext, Goto
    <3>2. job'[h].history = {messages[Home(h)][i].turn : i \in 1..(Len(messages[Home(h)]) - 1)}
      BY <2>4 DEF BuildContext, Jobs
    <3>3. TurnLatest(h)'
      BY <1>1, <2>3, <3>1, <3>2 DEF TurnLatest, Running, Adding
    <3> QED BY <2>2, <3>3 DEF OneAtATime, MessagesEarlier
  <2>5. CASE (\E ok \in Outcomes : PersistUser(h, ok)) \/ (\E b \in BOOLEAN : ObserveUser(h, b))
    <3>1. job' = job /\ pc'[h] \in {"observe_user", "build"}
      BY <2>5 DEF PersistUser, ObserveUser, Goto
    <3>2. TurnLatest(h)'
      BY <1>1, <1>2, <2>1, <2>3, <3>1 DEF MessagesEarlier, TurnLatest, Running
    <3> QED BY <2>2, <3>2 DEF OneAtATime, MessagesEarlier
  <2> QED BY <1>5, <2>4, <2>5
<1> QED BY <1>4, <1>5

\* What a prompt calls its history is earlier than its turn.
LEMMA EarlierStep ==
    ASSUME OneAtATime, TypeInv, MessagesEarlier, [Next]_vars
    PROVE  MessagesEarlier'
<1>1. ASSUME NEW h \in Handlers, Chat(h) \/ Clear(h) \/ End(h) \/ Provider(h)
      PROVE  MessagesEarlier'
  <2>1. OthersStay(h)
    BY <1>1, HandlerStep
  <2>2. CASE \E asked \in Sids :
                 \/ BeginChat(h, asked) \/ BeginClear(h, asked) \/ BeginForget(h, asked)
                 \/ BeginEnd(h, asked) \/ BeginDisconnect(h, asked)
                 \/ \E k : BeginConnect(h, asked, k)
    <3> USE DEF Running, state
    <3>1. PICK asked \in Sids :
              \/ BeginChat(h, asked) \/ BeginClear(h, asked) \/ BeginForget(h, asked)
              \/ BeginEnd(h, asked) \/ BeginDisconnect(h, asked)
              \/ \E k : BeginConnect(h, asked, k)
      BY <2>2
    <3>2. CASE BeginChat(h, asked) \/ BeginClear(h, asked) \/ BeginForget(h, asked)
      BY <3>2, TurnBegun DEF BeginChat, BeginClear, BeginForget
    <3>3. CASE BeginEnd(h, asked) \/ BeginDisconnect(h, asked) \/ \E k : BeginConnect(h, asked, k)
      BY <3>3, TurnBegun DEF BeginEnd, BeginDisconnect, BeginConnect
    <3> QED BY <3>1, <3>2, <3>3
  <2>3. CASE \/ AppendUser(h) \/ BuildContext(h) \/ AppendReply(h)
             \/ \E ok \in Outcomes : PersistUser(h, ok)
             \/ \E b \in BOOLEAN : ObserveUser(h, b)
    BY <2>1, <2>3, EarlierInTurn
  <2>4. CASE \/ Refuse(h) \/ RuntimeUnavailable(h) \/ Raise(h) \/ FinishChat(h)
             \/ ForgetWithoutService(h) \/ RenewRuntime(h)
             \/ FinishConnect(h) \/ FinishDisconnect(h)
    <3>1. messages' = messages /\ calls' = calls /\ Return(h, pc[h])
      BY <2>4 DEF Refuse, RuntimeUnavailable, Raise, FinishChat, ForgetWithoutService,
         RenewRuntime, FinishConnect, FinishDisconnect, Return, Goto, state
    <3>2. \A s \in Sids : Said(s)' \subseteq Said(s)
      BY <3>1 DEF Said
    <3> QED BY <2>1, <3>1, <3>2, NothingSaid
  <2>5. CASE ClearWithoutService(h) \/ EndSession(h) \/ ClearTranscript(h)
    <3>1. pc[h] # "idle" /\ calls' = calls
      BY <2>5 DEF ClearWithoutService, EndSession, ClearTranscript, Return, Goto
    <3>2. messages' = messages \/ \E s \in Sids : messages' = [messages EXCEPT ![s] = <<>>]
      BY <2>5, <3>1, IdleOrCalled
      DEF ClearWithoutService, EndSession, ClearTranscript, ClearState, state
    <3>3. ASSUME NEW s \in Sids PROVE Said(s)' \subseteq Said(s)
      <4>1. messages'[s] = messages[s] \/ messages'[s] = <<>>
        BY <3>2 DEF TypeInv, DataTyped
      <4> QED BY <4>1 DEF Said
    <3>4. CASE ClearWithoutService(h) \/ EndSession(h)
      BY <2>1, <3>1, <3>3, <3>4, NothingSaid
      DEF ClearWithoutService, EndSession, Return, Goto
    <3>5. CASE ClearTranscript(h)
      <4>1. /\ pc[h] = "clear" /\ pc'[h] = "clear_rows" /\ job'[h].call = job[h].call
            /\ job'[h].history = job[h].history
        BY <3>5 DEF ClearTranscript, Goto, TypeInv, HandlersTyped, Jobs
      <4> QED BY <2>1, <3>1, <3>3, <4>1, NothingSaid
              DEF MessagesEarlier, TurnLatest, Running, Adding
    <3> QED BY <2>5, <3>4, <3>5
  <2>6. CASE \/ ServiceFound(h) \/ ServiceMissing(h) \/ BindRuntime(h) \/ NewRuntime(h)
             \/ AttachRuntime(h) \/ SkipProvider(h) \/ Generate(h) \/ CachedClient(h)
             \/ BuildClient(h) \/ CacheClient(h) \/ ProviderFails(h) \/ ForgetWithService(h)
             \/ \E b \in BOOLEAN : Reply(h, b) \/ ObserveReply(h, b)
             \/ \E ok \in Outcomes : \/ PersistReply(h, ok) \/ PersistMemories(h, ok)
                                     \/ DeleteConversation(h, ok) \/ ClearMirror(h, ok)
                                     \/ EndConversations(h, ok) \/ EndMirror(h, ok)
    <3>1. messages' = messages /\ calls' = calls
      BY <2>6 DEF ServiceFound, ServiceMissing, BindRuntime, NewRuntime, AttachRuntime,
         SkipProvider, Generate, CachedClient, BuildClient, CacheClient, ProviderFails,
         ForgetWithService, Reply, ObserveReply, PersistReply, PersistMemories,
         DeleteConversation, ClearMirror, EndConversations, EndMirror, state
    <3>2. /\ pc[h] # "idle" /\ pc'[h] \notin Adding
          /\ pc[h] \in Running => pc'[h] \in Running
      BY <2>6 DEF ServiceFound, ServiceMissing, BindRuntime, NewRuntime, AttachRuntime,
         SkipProvider, Generate, CachedClient, BuildClient, CacheClient, ProviderFails,
         ForgetWithService, Reply, ObserveReply, PersistReply, PersistMemories,
         DeleteConversation, ClearMirror, EndConversations, EndMirror, Goto, Adding, Running,
         TypeInv, HandlersTyped
    <3>3. job'[h].call = job[h].call /\ job'[h].history = job[h].history
      BY <2>6 DEF ServiceFound, ServiceMissing, BindRuntime, NewRuntime, AttachRuntime,
         CacheService, SkipProvider, Generate, CachedClient, BuildClient, CacheClient,
         ProviderFails, ForgetWithService, Reply, ObserveReply, PersistReply, PersistMemories,
         DeleteConversation, ClearMirror, EndConversations, EndMirror,
         TypeInv, HandlersTyped, Jobs
    <3>4. \A s \in Sids : Said(s)' \subseteq Said(s)
      BY <3>1 DEF Said
    <3>5. \A t \in job'[h].history : t < calls
      BY <3>3 DEF MessagesEarlier, TurnLatest
    <3> QED BY <2>1, <3>1, <3>2, <3>3, <3>4, <3>5, NothingSaid
  <2> QED BY <1>1, <2>2, <2>3, <2>4, <2>5, <2>6 DEF Chat, Clear, End, Provider
<1>2. CASE UNCHANGED vars
  <2>1. \A h \in Handlers : Home(h)' = Home(h)
    BY <1>2 DEF vars, objects, Home
  <2>2. \A s : Said(s)' = Said(s)
    BY <1>2 DEF vars, state, Said
  <2>3. UNCHANGED <<messages, pc, job, calls>>
    BY <1>2 DEF vars, state
  <2> QED BY <2>1, <2>2, <2>3 DEF MessagesEarlier, SaidByNow, TurnLatest
<1> QED BY <1>1, <1>2 DEF Next, Rest

-------------------------------------------------------------------------------
InService == Running \cup {"append"}
Ends      == {"end_rows", "end_mirror", "end"}

\* A session has at most one service, cached while the session is open, and every
\* handler holds the cached one.
EndingNow(s) == \E h \in Handlers : pc[h] \in Ends /\ job[h].sid = s

OneService ==
    /\ \A i, j \in DOMAIN svc : svc[i].sid = svc[j].sid => i = j
    /\ \A i \in DOMAIN svc : svc[i].sid \in live =>
           services[svc[i].sid] = i \/ EndingNow(svc[i].sid)
    /\ \A s \in Sids : services[s] # None => s \in live

HoldsCached(h) ==
    /\ pc[h] \in Ends => services[job[h].sid] = None
    /\ pc[h] \in {"construct", "attach"} => job[h].at \in live /\ services[job[h].at] = None
    /\ pc[h] \in InService => services[Home(h)] = job[h].svc
    /\ pc[h] \in Clearing => services[job[h].sid] = job[h].svc

ServicesCurrent == OneService /\ \A h \in Handlers : HoldsCached(h)

\* A step that caches and drops no service leaves one to each session.
LEMMA ServicesStay ==
    ASSUME OneAtATime, TypeInv, OwnersOpened, ServicesCurrent, NEW h \in Handlers,
           DOMAIN svc' = DOMAIN svc, \A i \in DOMAIN svc : svc'[i].sid = svc[i].sid,
           services' = services, live \subseteq live', live' \cap used \subseteq live,
           pc[h] \in Ends => pc'[h] \in Ends /\ job'[h].sid = job[h].sid,
           HoldsCached(h)'
    PROVE  ServicesCurrent'
<1>1. \A s : EndingNow(s) => EndingNow(s)'
  BY DEF OneAtATime, EndingNow
<1>2. \A i \in DOMAIN svc : svc[i].sid \in live' => svc[i].sid \in live
  BY DEF OwnersOpened
<1>3. OneService'
  <2>1. ASSUME NEW i \in DOMAIN svc', svc'[i].sid \in live'
        PROVE  services'[svc'[i].sid] = i \/ EndingNow(svc[i].sid)'
    <3>1. PICK s : s = svc[i].sid
      OBVIOUS
    <3>2. services[s] = i \/ EndingNow(s)
      BY <1>2, <2>1, <3>1 DEF ServicesCurrent, OneService
    <3>3. EndingNow(s)' => EndingNow(svc[i].sid)'
      BY <2>1, <3>1 DEF EndingNow
    <3> QED BY <1>1, <2>1, <3>1, <3>2, <3>3
  <2> QED BY <2>1 DEF ServicesCurrent, OneService
<1> QED BY <1>3 DEF OneAtATime, ServicesCurrent

\* A session whose service is missing gets one.
LEMMA ServiceBuilt ==
    ASSUME OneAtATime, TypeInv, ServicesCurrent, NEW h \in Handlers,
           pc[h] \in {"construct", "attach"}, pc'[h] = "append",
           NEW a \in Nat, CacheService(h, job[h].at, a), live' = live
    PROVE  ServicesCurrent'
<1> DEFINE s == job[h].at
           e == [sid |-> s, adapter |-> a, client |-> NoClient]
           n == Len(svc) + 1
<1>1. s \in Sids /\ s \in live /\ services[s] = None
  BY DEF TypeInv, LocalsBound, LocalsOf, ServicesCurrent, HoldsCached
<1>2. e \in Services /\ svc \in Seq(Services) /\ svc' = Append(svc, e)
  BY <1>1 DEF Services, Clients, CacheService, TypeInv, ObjectsBound
<1> HIDE DEF e
<1>3. /\ DOMAIN svc = 1..Len(svc) /\ DOMAIN svc' = 1..n /\ Len(svc') = n /\ svc'[n] = e
      /\ Len(svc) \in Nat /\ \A i \in DOMAIN svc : svc'[i] = svc[i]
  BY <1>2, AppendTyped
<1>4. services' = [services EXCEPT ![s] = n] /\ services \in [Sids -> Nat]
  BY <1>3 DEF CacheService, TypeInv, ObjectsBound
<1>5. job'[h].svc = n /\ e.sid = s
  BY <1>3 DEF CacheService, e, TypeInv, HandlersTyped, Jobs
<1>6. \A r : ~EndingNow(r)
  BY DEF OneAtATime, EndingNow, Ends
<1>7. \A i \in DOMAIN svc : svc[i].sid # s
  BY <1>1, <1>3, <1>6 DEF ServicesCurrent, OneService, None
<1>8. OneService'
  <2>1. \A i \in DOMAIN svc' : svc'[i].sid \in live => services'[svc'[i].sid] = i
    <3> SUFFICES ASSUME NEW i \in DOMAIN svc', svc'[i].sid \in live
                 PROVE  services'[svc'[i].sid] = i
      OBVIOUS
    <3>1. CASE i = n
      BY <1>1, <1>3, <1>4, <1>5, <3>1
    <3>2. CASE i # n
      <4>1. i \in DOMAIN svc /\ svc'[i] = svc[i]
        BY <1>3, <3>2
      <4>2. svc[i].sid # s /\ services[svc[i].sid] = i /\ svc[i].sid \in Sids
        <5>1. svc[i].sid \in live /\ svc[i] \in Services
          BY <1>2, <4>1
        <5> QED BY <1>6, <1>7, <4>1, <5>1 DEF ServicesCurrent, OneService, Services
      <4> QED BY <1>4, <4>1, <4>2
    <3> QED BY <3>1, <3>2
  <2>2. \A i, j \in DOMAIN svc' : svc'[i].sid = svc'[j].sid => i = j
    BY <1>3, <1>5, <1>7 DEF ServicesCurrent, OneService
  <2>3. \A r \in Sids : services'[r] # None => r \in live
    BY <1>1, <1>4 DEF ServicesCurrent, OneService
  <2> HIDE DEF n
  <2> QED BY <2>1, <2>2, <2>3 DEF OneService
<1>9. HoldsCached(h)'
  <2>1. services'[s] = n
    BY <1>1, <1>4
  <2>2. Home(h)' = s
    BY <1>3, <1>5 DEF Home
  <2> QED BY <1>5, <2>1, <2>2 DEF HoldsCached, Ends, InService, Running, Clearing
<1> QED BY <1>8, <1>9 DEF OneAtATime, ServicesCurrent

\* A session that is being ended loses its service at once, and itself at the end.
LEMMA ServiceDropped ==
    ASSUME OneAtATime, TypeInv, TypeInv', OwnersOpened, ServicesCurrent, NEW h \in Handlers,
           (\E asked \in Sids : BeginEnd(h, asked)) \/ EndSession(h)
    PROVE  ServicesCurrent'
<1>1. CASE \E asked \in Sids : BeginEnd(h, asked)
  <2>1. PICK asked \in Sids : BeginEnd(h, asked)
    BY <1>1
  <2>2. /\ pc[h] = "idle" /\ pc'[h] = "end_rows" /\ job'[h].sid = asked
        /\ services' = [services EXCEPT ![asked] = None] /\ services \in [Sids -> Nat]
        /\ svc' = svc /\ live' = live /\ svc \in Seq(Services)
    BY <2>1 DEF BeginEnd, Begin, Goto, NoJob, TypeInv, HandlersTyped, ObjectsBound, Jobs, registry
  <2>3. EndingNow(asked)' /\ \A r : ~EndingNow(r)
    BY <2>2 DEF OneAtATime, EndingNow, Ends
  <2>4. ASSUME NEW i \in DOMAIN svc, svc[i].sid \in live
        PROVE  services'[svc[i].sid] = i \/ EndingNow(svc[i].sid)'
    <3>1. CASE svc[i].sid = asked
      BY <2>2, <3>1 DEF EndingNow, Ends
    <3>2. CASE svc[i].sid # asked
      <4>1. services[svc[i].sid] = i /\ svc[i] \in Services
        BY <2>2, <2>3, <2>4 DEF ServicesCurrent, OneService
      <4> QED BY <2>2, <3>2, <4>1 DEF Services
    <3> QED BY <3>1, <3>2
  <2>5. \A r \in Sids : services'[r] # None => r \in live
    BY <2>2 DEF ServicesCurrent, OneService
  <2>6. OneService'
    BY <2>2, <2>4, <2>5 DEF ServicesCurrent, OneService
  <2>7. HoldsCached(h)'
    BY <2>2 DEF HoldsCached, Ends, InService, Running, Clearing
  <2> QED BY <2>6, <2>7 DEF OneAtATime, ServicesCurrent
<1>2. CASE EndSession(h)
  <2> DEFINE old == job[h].sid
  <2>1. /\ pc[h] = "end" /\ pc'[h] = "idle" /\ services' = services /\ svc' = svc
        /\ NewSid \notin used /\ live' = (live \ {old}) \cup {NewSid}
    BY <1>2 DEF EndSession, Return, Goto, objects, Start, TypeInv, HandlersTyped
  <2>2. services[old] = None
    BY <2>1 DEF ServicesCurrent, HoldsCached, Ends
  <2>3. \A i \in DOMAIN svc : svc[i].sid \in live' =>
            svc[i].sid \in live /\ svc[i].sid # old
    BY <2>1 DEF OwnersOpened, TypeInv, RegistryTyped
  <2>4. \A i \in DOMAIN svc : svc[i].sid \in live' => services[svc[i].sid] = i
    <3>1. \A r : EndingNow(r) => r = old
      BY DEF OneAtATime, EndingNow
    <3> QED BY <2>3, <3>1 DEF ServicesCurrent, OneService
  <2>5. \A r \in Sids : services[r] # None => r \in live'
    BY <2>1, <2>2 DEF ServicesCurrent, OneService
  <2>6. OneService'
    BY <2>1, <2>4, <2>5 DEF ServicesCurrent, OneService
  <2>7. HoldsCached(h)'
    BY <2>1 DEF HoldsCached, Ends, InService, Running, Clearing
  <2> QED BY <2>6, <2>7 DEF OneAtATime, ServicesCurrent
<1> QED BY <1>1, <1>2

\* A handler goes on with the service it holds.
LEMMA ServiceCarried ==
    ASSUME OneAtATime, TypeInv, OwnersOpened, ServicesCurrent, ObjectsKept, NEW h \in Handlers,
           DOMAIN svc' = DOMAIN svc, services' = services,
           live \subseteq live', live' \cap used \subseteq live,
           \/ pc[h] \notin Ends /\ pc'[h] \notin Serving \cup Ends \cup {"construct", "attach"}
           \/ /\ job'[h].sid = job[h].sid
              /\ pc[h] \in Ends /\ pc'[h] \in Ends
           \/ /\ job'[h].svc = job[h].svc
              /\ pc[h] \in InService /\ pc'[h] \in InService
           \/ /\ job'[h].svc = job[h].svc /\ job'[h].sid = job[h].sid
              /\ pc[h] \in Clearing /\ pc'[h] \in Clearing
    PROVE  ServicesCurrent'
<1> USE DEF InService, Ends, Clearing, Running, Serving
<1>1. \A i \in DOMAIN svc : svc'[i].sid = svc[i].sid
  BY DEF ObjectsKept
<1>2. HoldsCached(h)
  BY DEF ServicesCurrent
<1>3. ASSUME pc[h] \in InService, job'[h].svc = job[h].svc PROVE Home(h)' = Home(h)
  BY <1>3, HomeStays
<1>4. HoldsCached(h)'
  BY <1>2, <1>3 DEF HoldsCached
<1> QED BY <1>1, <1>4, ServicesStay

\* Callbacks one after the other keep one service for each session.
LEMMA ServicesStep ==
    ASSUME OneAtATime, TypeInv, RenewalsBounded, OwnersOpened, ServicesCurrent, [Next]_vars
    PROVE  ServicesCurrent'
<1> USE DEF InService, Ends, Clearing, Running, Serving
<1>1. TypeInv' /\ ObjectsKept /\ RegistryGrows
  BY TypeStep
<1>2. ASSUME NEW h \in Handlers, Chat(h) \/ Clear(h) \/ End(h) \/ Provider(h)
      PROVE  ServicesCurrent'
  <2>1. pc \in [Handlers -> Steps] /\ job \in [Handlers -> Jobs]
    BY DEF TypeInv, HandlersTyped
  <2>2. CASE (\E asked \in Sids : BeginEnd(h, asked)) \/ EndSession(h)
    BY <1>1, <2>2, ServiceDropped
  <2>3. CASE BindRuntime(h) \/ AttachRuntime(h)
    <3>1. PICK a : CacheService(h, job[h].at, a) /\ a \in {brain[job[h].at], job[h].adapter}
      BY <2>3 DEF BindRuntime, AttachRuntime
    <3>2. pc[h] \in {"construct", "attach"} /\ pc'[h] = "append" /\ live' = live
      BY <2>3 DEF BindRuntime, AttachRuntime, Goto, registry, TypeInv, HandlersTyped
    <3>3. a \in Nat
      BY <3>1, <3>2 DEF TypeInv, HandlersTyped, ObjectsBound, LocalsBound, LocalsOf, Jobs
    <3> QED BY <3>1, <3>2, <3>3, ServiceBuilt
  <2>4. ASSUME services' = services, DOMAIN svc' = DOMAIN svc,
               live \subseteq live', live' \cap used \subseteq live,
               pc[h] \notin Ends, pc'[h] \notin Serving \cup Ends \cup {"construct", "attach"}
        PROVE  ServicesCurrent'
    BY <1>1, <2>4, ServiceCarried
  <2>5. CASE \E asked \in Sids :
                 \/ BeginChat(h, asked) \/ BeginClear(h, asked) \/ BeginForget(h, asked)
                 \/ BeginDisconnect(h, asked) \/ \E k : BeginConnect(h, asked, k)
    <3>1. PICK asked \in Sids :
              \/ BeginChat(h, asked) \/ BeginClear(h, asked) \/ BeginForget(h, asked)
              \/ BeginDisconnect(h, asked) \/ \E k : BeginConnect(h, asked, k)
      BY <2>5
    <3>2. EnsureSession(asked) /\ services' = services
      BY <3>1 DEF BeginChat, BeginClear, BeginForget, BeginDisconnect, BeginConnect, objects
    <3>3. pc[h] = "idle" /\ pc'[h] \in {"check", "clear", "forget", "disconnect", "connect"}
      BY <2>1, <3>1 DEF BeginChat, BeginClear, BeginForget, BeginDisconnect, BeginConnect,
         Begin, Goto
    <3>4. DOMAIN svc' = DOMAIN svc
      BY <3>1 DEF BeginChat, BeginClear, BeginForget, BeginDisconnect, BeginConnect, objects,
         ResetClient
    <3>5. live \subseteq live' /\ live' \cap used \subseteq live
      BY <3>2, ResolvedIsHeld DEF TypeInv, EnsureSession, registry
    <3> QED BY <2>4, <3>2, <3>3, <3>4, <3>5
  <2>6. CASE \/ Refuse(h) \/ RuntimeUnavailable(h) \/ Raise(h) \/ FinishChat(h)
             \/ ClearWithoutService(h) \/ ForgetWithoutService(h) \/ RenewRuntime(h)
             \/ FinishConnect(h) \/ FinishDisconnect(h)
    <3>1. /\ services' = services /\ DOMAIN svc' = DOMAIN svc /\ live' = live
          /\ Return(h, pc[h])
      BY <2>6 DEF Refuse, RuntimeUnavailable, Raise, FinishChat, ClearWithoutService,
         ForgetWithoutService, RenewRuntime, FinishConnect, FinishDisconnect, Return, Goto,
         objects, registry, ResetClient
    <3>2. pc'[h] = "idle" /\ pc[h] \notin Ends
      BY <2>1, <2>6 DEF Refuse, RuntimeUnavailable, Raise, FinishChat, ClearWithoutService,
         ForgetWithoutService, RenewRuntime, FinishConnect, FinishDisconnect, Return, Goto
    <3> QED BY <2>4, <3>1, <3>2
  <2>7. ASSUME services' = services, svc' = svc, live \subseteq live', live' \cap used \subseteq live,
               pc[h] \notin Ends, HoldsCached(h)'
        PROVE  ServicesCurrent'
    BY <2>7, ServicesStay
  <2>8. CASE ServiceFound(h) \/ ClearTranscript(h) \/ ForgetWithService(h)
    <3> DEFINE s == job[h].sid
    <3>1. /\ services[s] # None /\ job'[h].svc = services[s] /\ job'[h].sid = s
          /\ services' = services /\ svc' = svc /\ live' = live
          /\ pc[h] \in {"check", "clear", "forget"}
          /\ pc'[h] \in {"append", "clear_rows", "clear_mirror"}
      BY <2>1, <2>8 DEF ServiceFound, ClearTranscript, ForgetWithService, Goto, objects, registry,
         Jobs
    <3>2. s \in Sids /\ svc[services[s]].sid = s
      BY <3>1, IdleOrCalled DEF TypeInv, ObjectsBound
    <3>3. HoldsCached(h)'
      BY <3>1, <3>2 DEF HoldsCached, Home
    <3> QED BY <2>7, <3>1, <3>3
  <2>9. CASE ServiceMissing(h)
    <3>1. job[h].sid \in Sids /\ EnsureSession(job[h].sid)
      BY <2>9, IdleOrCalled DEF ServiceMissing, Goto
    <3>2. /\ Resolved(job[h].sid) \in live'
          /\ live \subseteq live' /\ live' \cap used \subseteq live
      BY <3>1, ResolvedIsHeld DEF TypeInv, EnsureSession, registry
    <3>3. /\ pc[h] = "check" /\ pc'[h] = "construct" /\ job'[h].at = Resolved(job[h].sid)
          /\ services' = services /\ svc' = svc /\ services[Resolved(job[h].sid)] = None
      BY <2>1, <2>9 DEF ServiceMissing, Goto, objects, Jobs
    <3>4. HoldsCached(h)'
      BY <3>2, <3>3 DEF HoldsCached
    <3> QED BY <2>7, <3>2, <3>3, <3>4
  <2>10. CASE NewRuntime(h)
    <3>1. /\ pc[h] = "construct" /\ pc'[h] = "attach" /\ job'[h].at = job[h].at
          /\ services' = services /\ svc' = svc /\ live' = live
      BY <2>1, <2>10 DEF NewRuntime, Goto, registry, Jobs
    <3>2. HoldsCached(h)'
      BY <3>1 DEF ServicesCurrent, HoldsCached
    <3> QED BY <2>7, <3>1, <3>2
  <2>11. CASE \/ AppendUser(h) \/ BuildContext(h) \/ SkipProvider(h) \/ Generate(h)
              \/ CachedClient(h) \/ BuildClient(h) \/ CacheClient(h) \/ ProviderFails(h)
              \/ AppendReply(h)
              \/ \E b \in BOOLEAN : ObserveUser(h, b) \/ Reply(h, b) \/ ObserveReply(h, b)
              \/ \E ok \in Outcomes : \/ PersistUser(h, ok) \/ PersistReply(h, ok)
                                      \/ PersistMemories(h, ok)
    <3>1. /\ services' = services /\ DOMAIN svc' = DOMAIN svc /\ live' = live
          /\ job'[h].svc = job[h].svc
      BY <2>1, <2>11 DEF AppendUser, BuildContext, SkipProvider, Generate, CachedClient, BuildClient,
         CacheClient, ProviderFails, AppendReply, ObserveUser, Reply, ObserveReply, PersistUser,
         PersistReply, PersistMemories, objects, registry, Jobs
    <3>2. pc[h] \in InService /\ pc'[h] \in InService
      BY <2>1, <2>11 DEF AppendUser, BuildContext, SkipProvider, Generate, CachedClient, BuildClient,
         CacheClient, ProviderFails, AppendReply, ObserveUser, Reply, ObserveReply, PersistUser,
         PersistReply, PersistMemories, Goto
    <3> QED BY <1>1, <3>1, <3>2, ServiceCarried
  <2>12. CASE \E ok \in Outcomes : \/ DeleteConversation(h, ok) \/ ClearMirror(h, ok)
                                   \/ EndConversations(h, ok) \/ EndMirror(h, ok)
    <3>1. services' = services /\ svc' = svc /\ live' = live /\ job' = job
      BY <2>12 DEF DeleteConversation, ClearMirror, EndConversations, EndMirror, objects, registry
    <3>2. \/ pc[h] \in Ends /\ pc'[h] \in Ends
          \/ pc[h] \in Clearing /\ pc'[h] \in Clearing
      BY <2>1, <2>12 DEF DeleteConversation, ClearMirror, EndConversations, EndMirror, Goto
    <3> QED BY <1>1, <3>1, <3>2, ServiceCarried
  <2> QED BY <1>2, <2>2, <2>3, <2>5, <2>6, <2>8, <2>9, <2>10, <2>11, <2>12
          DEF Chat, Clear, End, Provider
<1>3. CASE UNCHANGED vars
  <2>1. UNCHANGED <<services, svc, live, pc, job>>
    BY <1>3 DEF vars, objects, registry
  <2>2. \A s : EndingNow(s)' = EndingNow(s)
    BY <2>1 DEF EndingNow
  <2>3. \A h \in Handlers : HoldsCached(h)' = HoldsCached(h)
    BY <2>1 DEF HoldsCached, Home
  <2>4. OneService'
    BY <2>1, <2>2 DEF ServicesCurrent, OneService, EndingNow
  <2> QED BY <2>3, <2>4 DEF ServicesCurrent
<1> QED BY <1>2, <1>3 DEF Next, Rest

-------------------------------------------------------------------------------
\* A cached client has the session's key, unless that key is just being replaced.
Connecting(s) == \E h \in Handlers : pc[h] = "connect" /\ job[h].sid = s

Cached(s) == svc[services[s]].client

ClientFits(s) == services[s] # None => Cached(s) \in {NoClient, key[s]} \/ Connecting(s)

KeyHeld(h) ==
    /\ pc[h] = "cache_client" => job[h].client = key[Home(h)]
    /\ pc[h] = "disconnect" /\ services[job[h].sid] # None => Cached(job[h].sid) = NoClient

ClientsCurrent == (\A s \in Sids : ClientFits(s)) /\ \A h \in Handlers : KeyHeld(h)

\* A step leaves the cached clients in step with the keys if it drops clients only, or
\* leaves services, clients and keys alone.
LEMMA ClientsStay ==
    ASSUME OneAtATime, ClientsCurrent, NEW h \in Handlers, pc[h] # "connect",
           \A s \in Sids : services'[s] # None =>
               \/ svc'[services'[s]].client = NoClient
               \/ /\ services'[s] = services[s] /\ key'[s] = key[s]
                  /\ svc'[services[s]].client = svc[services[s]].client,
           KeyHeld(h)'
    PROVE  ClientsCurrent'
<1>1. ASSUME NEW s \in Sids PROVE ClientFits(s)'
  <2>1. ~Connecting(s)
    BY DEF OneAtATime, Connecting
  <2>2. CASE services'[s] = None
    BY <2>2 DEF ClientFits
  <2>3. CASE services'[s] # None
    <3>1. Cached(s)' = svc'[services'[s]].client
      BY DEF Cached
    <3>2. CASE Cached(s)' = NoClient
      BY <3>2 DEF ClientFits
    <3>3. CASE /\ services'[s] = services[s] /\ key'[s] = key[s]
               /\ svc'[services[s]].client = svc[services[s]].client
      <4>1. Cached(s)' = Cached(s) /\ services[s] # None
        BY <2>3, <3>1, <3>3 DEF Cached
      <4> QED BY <2>1, <3>3, <4>1 DEF ClientsCurrent, ClientFits
    <3> QED BY <2>3, <3>1, <3>2, <3>3
  <2> QED BY <2>2, <2>3
<1> QED BY <1>1 DEF OneAtATime, ClientsCurrent

\* A new service has no client yet.
LEMMA NewServiceKeyless ==
    ASSUME OneAtATime, TypeInv, ClientsCurrent, NEW h \in Handlers,
           pc[h] \in {"construct", "attach"}, pc'[h] = "append",
           NEW a \in Nat, CacheService(h, job[h].at, a), key' = key
    PROVE  ClientsCurrent'
<1> DEFINE r == job[h].at
           e == [sid |-> r, adapter |-> a, client |-> NoClient]
<1>1. r \in Sids
  BY DEF TypeInv, LocalsBound, LocalsOf
<1>2. e \in Services /\ svc \in Seq(Services) /\ svc' = Append(svc, e) /\ e.client = NoClient
  BY <1>1 DEF Services, Clients, CacheService, TypeInv, ObjectsBound
<1>3. services' = [services EXCEPT ![r] = Len(svc')]
  BY DEF CacheService
<1> HIDE DEF e, r
<1>4. /\ Len(svc') = Len(svc) + 1 /\ svc'[Len(svc')] = e
      /\ \A i \in DOMAIN svc : svc'[i] = svc[i]
  BY <1>2, AppendTyped
<1>5. \A s \in Sids : services[s] # None => services[s] \in DOMAIN svc
  BY DEF TypeInv, ObjectsBound
<1>6. services \in [Sids -> Nat]
  BY DEF TypeInv, ObjectsBound
<1>7. ASSUME NEW s \in Sids, services'[s] # None
      PROVE  \/ svc'[services'[s]].client = NoClient
             \/ /\ services'[s] = services[s] /\ key'[s] = key[s]
                /\ svc'[services[s]].client = svc[services[s]].client
  <2>1. CASE s = r
    BY <1>2, <1>3, <1>4, <1>6, <2>1
  <2>2. CASE s # r
    BY <1>3, <1>4, <1>5, <1>6, <1>7, <2>2
  <2> QED BY <2>1, <2>2
<1>8. KeyHeld(h)'
  BY DEF KeyHeld
<1> QED BY <1>7, <1>8, ClientsStay

\* A client that is cached was built from the key the session still has.
LEMMA ClientCached ==
    ASSUME OneAtATime, TypeInv, ServicesCurrent, ClientsCurrent, NEW h \in Handlers,
           CacheClient(h)
    PROVE  ClientsCurrent'
<1> DEFINE n == job[h].svc
<1>1. /\ pc[h] = "cache_client" /\ pc'[h] = "sent" /\ services' = services /\ key' = key
      /\ svc' = [svc EXCEPT ![n].client = job[h].client]
  BY DEF CacheClient, Goto, TypeInv, HandlersTyped, state
<1>2. n \in DOMAIN svc /\ svc[n] \in Services /\ Home(h) \in Sids /\ Home(h) = svc[n].sid
  BY <1>1, ServingTyped DEF Serving, Running, Home
<1>3. job[h].client = key[Home(h)] /\ services[Home(h)] = n
  BY <1>1 DEF ClientsCurrent, KeyHeld, ServicesCurrent, HoldsCached, InService, Running
<1>4. /\ svc'[n].client = key[Home(h)]
      /\ \A i \in DOMAIN svc \ {n} : svc'[i] = svc[i]
  BY <1>1, <1>2, <1>3 DEF Services
<1>5. ASSUME NEW s \in Sids PROVE ClientFits(s)'
  <2>1. ~Connecting(s)
    BY <1>1 DEF OneAtATime, Connecting
  <2>2. services[s] # None => services[s] \in DOMAIN svc /\ svc[services[s]].sid = s
    BY DEF TypeInv, ObjectsBound
  <2>3. CASE services[s] = n
    BY <1>1, <1>2, <1>4, <2>2, <2>3 DEF ClientFits, Cached
  <2>4. CASE services[s] # n
    BY <1>1, <1>4, <2>1, <2>2, <2>4 DEF ClientsCurrent, ClientFits, Cached
  <2> QED BY <2>3, <2>4
<1>6. KeyHeld(h)'
  BY <1>1 DEF KeyHeld
<1> QED BY <1>5, <1>6 DEF OneAtATime, ClientsCurrent

\* Resetting a session's client leaves it none, and the others theirs.
LEMMA ClientReset ==
    ASSUME TypeInv, NEW r \in Sids, ResetClient(r), services' = services
    PROVE  \A s \in Sids : services[s] # None =>
               svc'[services[s]].client = IF s = r THEN NoClient ELSE svc[services[s]].client
<1> SUFFICES ASSUME NEW s \in Sids, services[s] # None
             PROVE  svc'[services[s]].client = IF s = r THEN NoClient ELSE svc[services[s]].client
  OBVIOUS
<1>1. svc \in Seq(Services) /\ services[s] \in DOMAIN svc /\ svc[services[s]].sid = s
  BY DEF TypeInv, ObjectsBound
<1>2. services[r] # None => services[r] \in DOMAIN svc /\ svc[services[r]].sid = r
  BY DEF TypeInv, ObjectsBound
<1>3. CASE s = r
  <2>1. svc' = [svc EXCEPT ![services[r]].client = NoClient] /\ svc[services[r]] \in Services
    BY <1>1, <1>3 DEF ResetClient
  <2> QED BY <1>1, <1>3, <2>1 DEF Services
<1>4. CASE s # r
  <2>1. services[r] # services[s]
    BY <1>1, <1>2, <1>4
  <2> QED BY <1>1, <1>4, <2>1 DEF ResetClient
<1> QED BY <1>3, <1>4

\* A key is replaced or removed, and the client built from it is reset.
LEMMA KeyChanged ==
    ASSUME OneAtATime, TypeInv, ClientsCurrent, NEW h \in Handlers, Provider(h)
    PROVE  ClientsCurrent'
<1>1. /\ pc \in [Handlers -> Steps] /\ job \in [Handlers -> Jobs]
      /\ key \in [Sids -> Keys \cup {NoKey}]
  BY DEF TypeInv, HandlersTyped, DataTyped
<1>2. CASE \E k : \E asked \in Sids : BeginConnect(h, asked, k)
  <2>0. PICK k : \E asked \in Sids : BeginConnect(h, asked, k)
    BY <1>2
  <2>1. PICK asked \in Sids : BeginConnect(h, asked, k)
    BY <2>0
  <2> DEFINE r == Resolved(asked)
  <2>2. /\ pc[h] = "idle" /\ pc'[h] = "connect" /\ job'[h].sid = r
        /\ key' = [key EXCEPT ![r] = k] /\ services' = services /\ svc' = svc
    BY <1>1, <2>1 DEF BeginConnect, Begin, Goto, objects, NoJob, Jobs
  <2>3. ASSUME NEW s \in Sids PROVE ClientFits(s)'
    <3>1. CASE s = r
      <4>1. Connecting(s)'
        BY <2>2, <3>1 DEF Connecting
      <4> QED BY <4>1 DEF ClientFits
    <3>2. CASE s # r
      <4>1. ~Connecting(s)
        BY <2>2 DEF OneAtATime, Connecting
      <4> QED BY <1>1, <2>2, <3>2, <4>1 DEF ClientsCurrent, ClientFits, Cached
    <3> QED BY <3>1, <3>2
  <2>4. KeyHeld(h)'
    BY <2>2 DEF KeyHeld
  <2> QED BY <2>3, <2>4 DEF OneAtATime, ClientsCurrent
<1>3. CASE FinishConnect(h)
  <2>1. /\ pc[h] = "connect" /\ pc'[h] = "idle" /\ key' = key /\ services' = services
        /\ ResetClient(job[h].sid) /\ job[h].sid \in Sids
    BY <1>1, <1>3, IdleOrCalled DEF FinishConnect, Return, Goto, state
  <2>2. ASSUME NEW s \in Sids PROVE ClientFits(s)'
    <3>1. s # job[h].sid => ~Connecting(s)
      BY DEF OneAtATime, Connecting
    <3>2. services[s] # None => svc'[services[s]].client =
                               IF s = job[h].sid THEN NoClient ELSE svc[services[s]].client
      BY <2>1, ClientReset
    <3> QED BY <2>1, <3>1, <3>2 DEF ClientsCurrent, ClientFits, Cached
  <2>3. KeyHeld(h)'
    BY <2>1 DEF KeyHeld
  <2> QED BY <2>2, <2>3 DEF OneAtATime, ClientsCurrent
<1>4. CASE \E asked \in Sids : BeginDisconnect(h, asked)
  <2>1. PICK asked \in Sids : BeginDisconnect(h, asked)
    BY <1>4
  <2> DEFINE r == Resolved(asked)
  <2>2. /\ pc[h] = "idle" /\ pc'[h] = "disconnect" /\ job'[h].sid = r
        /\ key' = key /\ services' = services /\ ResetClient(r)
    BY <1>1, <2>1 DEF BeginDisconnect, Begin, Goto, state, NoJob, Jobs
  <2>3. r \in Sids
    BY <2>1, ResolvedIsHeld DEF BeginDisconnect, TypeInv
  <2> HIDE DEF r
  <2>4. \A s \in Sids : services[s] # None =>
            svc'[services[s]].client = IF s = r THEN NoClient ELSE svc[services[s]].client
    BY <2>2, <2>3, ClientReset
  <2>5. KeyHeld(h)'
    BY <2>2, <2>3, <2>4 DEF KeyHeld, Cached
  <2> QED BY <2>2, <2>4, <2>5, ClientsStay
<1>5. CASE FinishDisconnect(h)
  <2> DEFINE r == job[h].sid
  <2>1. /\ pc[h] = "disconnect" /\ pc'[h] = "idle" /\ key' = [key EXCEPT ![r] = NoKey]
        /\ services' = services /\ svc' = svc
    BY <1>1, <1>5 DEF FinishDisconnect, Return, Goto, objects
  <2>2. services[r] # None => svc[services[r]].client = NoClient
    BY <2>1 DEF ClientsCurrent, KeyHeld, Cached
  <2>3. KeyHeld(h)'
    BY <2>1 DEF KeyHeld
  <2> HIDE DEF r
  <2>4. \A s \in Sids : s # r => key'[s] = key[s]
    BY <1>1, <2>1
  <2> QED BY <2>1, <2>2, <2>3, <2>4, ClientsStay
<1> QED BY <1>2, <1>3, <1>4, <1>5 DEF Provider

\* Callbacks one after the other keep every cached client in step with its key.
LEMMA ClientsStep ==
    ASSUME OneAtATime, TypeInv, RenewalsBounded, ServicesCurrent, ClientsCurrent, [Next]_vars
    PROVE  ClientsCurrent'
<1>1. ASSUME NEW h \in Handlers, Chat(h) \/ Clear(h) \/ End(h)
      PROVE  ClientsCurrent'
  <2>1. pc \in [Handlers -> Steps] /\ job \in [Handlers -> Jobs]
    BY DEF TypeInv, HandlersTyped
  <2>2. ASSUME services' = services, svc' = svc, key' = key, pc[h] # "connect",
               pc'[h] \notin {"cache_client", "disconnect"}
        PROVE  ClientsCurrent'
    <3>1. KeyHeld(h)'
      BY <2>2 DEF KeyHeld
    <3> QED BY <2>2, <3>1, ClientsStay
  <2>3. CASE BindRuntime(h) \/ AttachRuntime(h)
    <3>1. PICK a : CacheService(h, job[h].at, a) /\ a \in {brain[job[h].at], job[h].adapter}
      BY <2>3 DEF BindRuntime, AttachRuntime
    <3>2. pc[h] \in {"construct", "attach"} /\ pc'[h] = "append" /\ key' = key
      BY <2>1, <2>3 DEF BindRuntime, AttachRuntime, Goto, state
    <3>3. a \in Nat
      BY <3>1, <3>2 DEF TypeInv, HandlersTyped, ObjectsBound, LocalsBound, LocalsOf, Jobs
    <3> QED BY <3>1, <3>2, <3>3, NewServiceKeyless
  <2>4. CASE CacheClient(h)
    BY <2>4, ClientCached
  <2>5. CASE BuildClient(h)
    <3>1. /\ services' = services /\ svc' = svc /\ key' = key /\ pc[h] = "provider"
          /\ pc'[h] = "cache_client" /\ job'[h].client = key[Home(h)] /\ job'[h].svc = job[h].svc
      BY <2>1, <2>5 DEF BuildClient, Goto, objects, state, Jobs
    <3>2. Home(h)' = Home(h)
      BY <3>1 DEF Home
    <3>3. KeyHeld(h)'
      BY <3>1, <3>2 DEF KeyHeld
    <3> QED BY <3>1, <3>3, ClientsStay
  <2>6. CASE RenewRuntime(h)
    <3>1. /\ pc[h] = "renew" /\ pc'[h] = "idle" /\ services' = services /\ key' = key
          /\ svc' = [svc EXCEPT ![job[h].svc].adapter = Len(adapters')]
      BY <2>1, <2>6 DEF RenewRuntime, Return, Goto
    <3>2. \A i \in DOMAIN svc : svc'[i].client = svc[i].client
      <4>1. svc \in Seq(Services)
        BY DEF TypeInv, ObjectsBound
      <4> QED BY <3>1, <4>1 DEF Services
    <3>3. \A s \in Sids : services[s] # None => services[s] \in DOMAIN svc
      BY DEF TypeInv, ObjectsBound
    <3>4. KeyHeld(h)'
      BY <3>1 DEF KeyHeld
    <3> QED BY <3>1, <3>2, <3>3, <3>4, ClientsStay
  <2>7. CASE \E asked \in Sids : BeginEnd(h, asked)
    <3>1. PICK asked \in Sids : BeginEnd(h, asked)
      BY <2>7
    <3>2. /\ pc[h] = "idle" /\ pc'[h] = "end_rows" /\ svc' = svc /\ key' = key
          /\ services' = [services EXCEPT ![asked] = None] /\ services \in [Sids -> Nat]
      BY <2>1, <3>1 DEF BeginEnd, Begin, Goto, state, TypeInv, ObjectsBound
    <3>3. KeyHeld(h)'
      BY <3>2 DEF KeyHeld
    <3> QED BY <3>2, <3>3, ClientsStay
  <2>8. CASE EndSession(h)
    <3> DEFINE old == job[h].sid
    <3>1. /\ pc[h] = "end" /\ pc'[h] = "idle" /\ svc' = svc /\ services' = services
          /\ key' \in {key, [key EXCEPT ![old] = NoKey]}
      BY <2>1, <2>8 DEF EndSession, Return, Goto, objects, state
    <3>2. services[old] = None
      BY <3>1 DEF ServicesCurrent, HoldsCached, Ends
    <3>3. \A s \in Sids : s # old => key'[s] = key[s]
      BY <3>1 DEF TypeInv, DataTyped
    <3>4. KeyHeld(h)'
      BY <3>1 DEF KeyHeld
    <3> HIDE DEF old
    <3> QED BY <3>1, <3>2, <3>3, <3>4, ClientsStay
  <2>9. CASE \/ \E asked \in Sids :
                   BeginChat(h, asked) \/ BeginClear(h, asked) \/ BeginForget(h, asked)
             \/ Refuse(h) \/ ServiceFound(h) \/ ServiceMissing(h) \/ NewRuntime(h)
             \/ RuntimeUnavailable(h) \/ AppendUser(h) \/ BuildContext(h) \/ SkipProvider(h)
             \/ Generate(h) \/ CachedClient(h) \/ ProviderFails(h) \/ Raise(h) \/ AppendReply(h)
             \/ FinishChat(h)
    <3>1. services' = services /\ svc' = svc /\ key' = key
      BY <2>9 DEF BeginChat, BeginClear, BeginForget, Refuse, ServiceFound, ServiceMissing,
         NewRuntime, RuntimeUnavailable, AppendUser, BuildContext, SkipProvider, Generate,
         CachedClient, ProviderFails, Raise, AppendReply, FinishChat, objects, state
    <3>2. pc[h] # "connect" /\ pc'[h] \notin {"cache_client", "disconnect"}
      BY <2>1, <2>9 DEF BeginChat, BeginClear, BeginForget, Begin, Refuse, ServiceFound,
         ServiceMissing, NewRuntime, RuntimeUnavailable, AppendUser, BuildContext, SkipProvider,
         Generate, CachedClient, ProviderFails, Raise, AppendReply, FinishChat, Return, Goto
    <3> QED BY <2>2, <3>1, <3>2
  <2>10. CASE \/ ClearWithoutService(h) \/ ClearTranscript(h)
              \/ ForgetWithoutService(h) \/ ForgetWithService(h)
              \/ \E b \in BOOLEAN : ObserveUser(h, b) \/ Reply(h, b) \/ ObserveReply(h, b)
              \/ \E ok \in Outcomes : \/ PersistUser(h, ok) \/ PersistReply(h, ok)
                                      \/ PersistMemories(h, ok)
                                      \/ DeleteConversation(h, ok) \/ ClearMirror(h, ok)
                                      \/ EndConversations(h, ok) \/ EndMirror(h, ok)
    <3>1. services' = services /\ svc' = svc /\ key' = key
      BY <2>10 DEF ClearWithoutService, ClearTranscript, ForgetWithoutService, ForgetWithService,
         ObserveUser, Reply, ObserveReply, PersistUser, PersistReply, PersistMemories,
         DeleteConversation, ClearMirror, EndConversations, EndMirror, objects, state
    <3>2. pc[h] # "connect" /\ pc'[h] \notin {"cache_client", "disconnect"}
      BY <2>1, <2>10 DEF ClearWithoutService, ClearTranscript, ForgetWithoutService,
         ForgetWithService, ObserveUser, Reply, ObserveReply, PersistUser, PersistReply,
         PersistMemories, DeleteConversation, ClearMirror, EndConversations, EndMirror,
         Return, Goto
    <3> QED BY <2>2, <3>1, <3>2
  <2> QED BY <1>1, <2>3, <2>4, <2>5, <2>6, <2>7, <2>8, <2>9, <2>10 DEF Chat, Clear, End
<1>2. ASSUME NEW h \in Handlers, Provider(h) PROVE ClientsCurrent'
  BY <1>2, KeyChanged
<1>3. CASE UNCHANGED vars
  <2>1. UNCHANGED <<services, svc, key, pc, job>>
    BY <1>3 DEF vars, objects, state
  <2>2. \A s : Connecting(s)' = Connecting(s)
    BY <2>1 DEF Connecting
  <2>3. \A h \in Handlers : KeyHeld(h)' = KeyHeld(h)
    BY <2>1 DEF KeyHeld, Home, Cached
  <2> QED BY <2>1, <2>2, <2>3 DEF ClientsCurrent, ClientFits, Cached
<1> QED BY <1>1, <1>2, <1>3 DEF Next, Rest

\* What a handler runs is the only thing that runs, so what a session caches is its own.
SerialInv == MessagesEarlier /\ ServicesCurrent /\ ClientsCurrent

\* While callbacks run one after the other, every session has at most one service, with
\* the session's key, and every turn is the latest.
LEMMA SerialHolds ==
    ASSUME OneAtATime
    PROVE  Spec => [](TypeInv /\ RenewalsBounded /\ TracesPlaced /\ TurnsPlaced
                          /\ TranscriptInv /\ SerialInv)
<1>1. Init => SerialInv
  <2> SUFFICES ASSUME Init PROVE SerialInv
    OBVIOUS
  <2>1. /\ \A h \in Handlers : pc[h] = "idle" /\ job[h] = NoJob
        /\ svc = <<>> /\ \A s \in Sids : services[s] = None /\ messages[s] = <<>>
    BY DEF Init
  <2>2. DOMAIN svc = {} /\ \A s \in Sids : Said(s) = {}
    BY <2>1 DEF Said
  <2>3. MessagesEarlier
    BY <2>1, <2>2 DEF MessagesEarlier, SaidByNow, TurnLatest, NoJob, Adding
  <2>4. ServicesCurrent
    BY <2>1, <2>2 DEF ServicesCurrent, OneService, HoldsCached, Ends, InService, Running, Clearing
  <2>5. ClientsCurrent
    BY <2>1 DEF ClientsCurrent, ClientFits, KeyHeld
  <2> QED BY <2>3, <2>4, <2>5 DEF SerialInv
<1>2. TypeInv /\ RenewalsBounded /\ TranscriptInv /\ SerialInv /\ [Next]_vars => SerialInv'
  BY EarlierStep, ServicesStep, ClientsStep DEF SerialInv, TranscriptInv
<1>3. TypeInv /\ RenewalsBounded /\ [Next]_vars => TypeInv' /\ RenewalsBounded'
  BY TypeStep
<1>4. TypeInv /\ RenewalsBounded /\ TracesPlaced /\ TurnsPlaced /\ [Next]_vars
          => TracesPlaced' /\ TurnsPlaced'
  BY IsolationStep
<1>5. TypeInv /\ RenewalsBounded /\ TracesPlaced /\ TurnsPlaced /\ TranscriptInv /\ [Next]_vars
          => TranscriptInv'
  BY TranscriptStep
<1> QED BY <1>1, <1>2, <1>3, <1>4, <1>5, TypeInit, IsolationInit, TranscriptInit, PTL DEF Spec

\* If the callbacks of a process run one after the other, the history in a prompt is of
\* earlier turns only (handle_user_message takes the last message to be its own).
THEOREM HistoriesAreEarlier ==
    ASSUME OneAtATime
    PROVE  Spec => []HistoryIsEarlier
<1>1. TypeInv /\ SerialInv => HistoryIsEarlier
  <2> SUFFICES ASSUME TypeInv, SerialInv, NEW h \in Handlers, NEW t \in job[h].history
               PROVE  t < job[h].call
    BY DEF HistoryIsEarlier
  <2>1. TurnLatest(h)
    BY DEF SerialInv, MessagesEarlier
  <2>2. pc[h] # "idle"
    BY IdleOrCalled
  <2> QED BY <2>1, <2>2 DEF TurnLatest
<1> QED BY <1>1, SerialHolds, PTL

\* And what is cached for a session, its service, its runtime and its client, is the
\* session's present one (reset_provider, reset_memory, end_session).
THEOREM CachesStayCurrent ==
    ASSUME OneAtATime
    PROVE  Spec => []CachesCurrent
<1>1. SerialInv => CachesCurrent
  <2> SUFFICES ASSUME SerialInv PROVE CachesCurrent
    OBVIOUS
  <2>1. OneRuntimePerSession /\ ServicesOfOpenSessions
    BY DEF SerialInv, ServicesCurrent, OneService, OneRuntimePerSession, ServicesOfOpenSessions
  <2>2. ClientHasCurrentKey
    BY DEF SerialInv, ClientsCurrent, ClientFits, Cached, Connecting, ClientHasCurrentKey, Quiet
  <2> QED BY <2>1, <2>2 DEF CachesCurrent, OneLiveRuntime
<1> QED BY <1>1, SerialHolds, PTL

-------------------------------------------------------------------------------
(* What is forgotten.  A session without a service holds nothing, and one  *)
(* with a service nothing that was wiped, unless a clear or an end is just *)
(* emptying it.                                                            *)

NoRows(s) == \A r \in convRows \cup memRows : r.sid # s

Empty(s) == services[s] = None /\ brain[s] = None /\ messages[s] = <<>> /\ NoRows(s)

ConversationClean(s) ==
    /\ Said(s) \cap wiped = {}
    /\ \A r \in convRows : r.sid = s => r.conv = conv[s] /\ r.turn \notin wiped

MemoryClean(s) ==
    /\ services[s] # None /\ brain[s] = svc[services[s]].adapter
    /\ adapters[brain[s]].holds \cap wiped = {}
    /\ \A r \in memRows : r.sid = s => r.turn \in adapters[brain[s]].holds

Clean(s) == ConversationClean(s) /\ MemoryClean(s)

\* What is done between the steps of a clear, of an end, and of building a service.
ClearedSoFar(h) ==
    LET s == job[h].sid IN
    /\ pc[h] = "clear_rows" => /\ messages[s] = <<>>
                               /\ \A r \in convRows : r.sid = s => r.conv = job[h].conv
    /\ pc[h] \in {"clear_mirror", "renew"} => ConversationClean(s)
    /\ pc[h] = "renew" => \A r \in memRows : r.sid # s

EndedSoFar(h) ==
    LET s == job[h].sid IN
    /\ pc[h] \in Ends /\ s \notin live => Empty(s)
    /\ pc[h] \in {"end_mirror", "end"} => \A r \in convRows : r.sid # s
    /\ pc[h] = "end" => \A r \in memRows : r.sid # s

RuntimeFresh(h) == pc[h] = "attach" => adapters[job[h].adapter].holds = {}

SoFar(h) == ClearedSoFar(h) /\ EndedSoFar(h) /\ RuntimeFresh(h)

Emptying(s) == \E h \in Handlers : pc[h] \in Clearing \cup Ends /\ job[h].sid = s

WipedEarlier ==
    \A t \in wiped : t <= calls /\ \A h \in Handlers : pc[h] # "idle" => t < calls

EndedClosed == ended \cap live = {} /\ \A s \in ended : key[s] = NoKey

Tidy == /\ \A s \in Sids : Empty(s) \/ Clean(s) \/ Emptying(s)
        /\ \A h \in Handlers : SoFar(h)

ForgettingInv == Tidy /\ WipedEarlier /\ EndedClosed

\* A session that a step leaves alone stays as empty or as clean as it is, also when the
\* turns of another session are wiped.
LEMMA SessionStays ==
    ASSUME TypeInv, TracesPlaced, NEW s \in Sids,
           services'[s] = services[s], brain'[s] = brain[s],
           messages'[s] = messages[s], conv'[s] = conv[s],
           services[s] # None => svc'[services[s]].adapter = svc[services[s]].adapter,
           brain[s] # None => adapters'[brain[s]].holds = adapters[brain[s]].holds,
           \A r \in convRows' : r.sid = s => r \in convRows,
           \A r \in memRows' : r.sid = s => r \in memRows,
           \A t \in wiped' : t \in wiped \/ ranIn[t] # s
    PROVE  /\ Empty(s) => Empty(s)'
           /\ ConversationClean(s) => ConversationClean(s)'
           /\ Clean(s) => Clean(s)'
<1>1. Empty(s) => Empty(s)'
  BY DEF Empty, NoRows
<1>2. Said(s)' = Said(s) /\ \A t \in Said(s) : ranIn[t] = s
  BY DEF Said, TracesPlaced, MessagesPlaced
<1>3. \A r \in convRows : r.sid = s => ranIn[r.turn] = s
  BY DEF TracesPlaced, RowsPlaced
<1>4. ConversationClean(s) => ConversationClean(s)'
  BY <1>2, <1>3 DEF ConversationClean
<1>5. ASSUME MemoryClean(s) PROVE MemoryClean(s)'
  <2>1. brain[s] \in DOMAIN adapters /\ brain[s] # None /\ adapters[brain[s]].sid = s
    BY <1>5 DEF MemoryClean, TypeInv, ObjectsBound, None
  <2>2. \A t \in adapters[brain[s]].holds : ranIn[t] = s
    BY <2>1 DEF TracesPlaced, MemoriesPlaced
  <2> QED BY <1>5, <2>1, <2>2 DEF MemoryClean
<1> QED BY <1>1, <1>4, <1>5 DEF Clean

\* A session that no handler is emptying is empty or clean.
LEMMA TidyElsewhere ==
    ASSUME OneAtATime, Tidy, NEW h \in Handlers, NEW s \in Sids,
           pc[h] \notin Clearing \cup Ends \/ job[h].sid # s
    PROVE  Empty(s) \/ Clean(s)
BY DEF OneAtATime, Tidy, Emptying

\* A step that touches no session's data leaves it tidy.
LEMMA DataUntouched ==
    ASSUME OneAtATime, TypeInv, TracesPlaced, Tidy, NEW h \in Handlers,
           pc[h] \notin Clearing \cup Ends,
           UNCHANGED <<services, brain, messages, conv, convRows, memRows, wiped>>,
           \A i \in DOMAIN svc : svc'[i].adapter = svc[i].adapter,
           \A a \in DOMAIN adapters : adapters'[a].holds = adapters[a].holds,
           SoFar(h)'
    PROVE  Tidy'
<1>1. ASSUME NEW s \in Sids PROVE Empty(s)' \/ Clean(s)'
  <2>1. /\ services[s] # None => services[s] \in DOMAIN svc
        /\ brain[s] # None => brain[s] \in DOMAIN adapters
    BY DEF TypeInv, ObjectsBound
  <2> QED BY <2>1, TidyElsewhere, SessionStays
<1> QED BY <1>1 DEF OneAtATime, Tidy

\* A turn leaves its traces in a session that has a service, and it was not wiped.
LEMMA TracesTidy ==
    ASSUME OneAtATime, TypeInv, TracesPlaced, ServicesCurrent, MessagesEarlier, Tidy,
           WipedEarlier, NEW h \in Handlers,
           \/ AppendUser(h) \/ AppendReply(h)
           \/ \E ok \in Outcomes : \/ PersistUser(h, ok) \/ PersistReply(h, ok)
                                   \/ PersistMemories(h, ok)
           \/ \E b \in BOOLEAN : ObserveUser(h, b) \/ ObserveReply(h, b)
    PROVE  Tidy'
<1> USE DEF objects, state, rows, history
<1>1. /\ pc \in [Handlers -> Steps] /\ job \in [Handlers -> Jobs]
      /\ messages \in [Sids -> Seq(Messages)] /\ adapters \in Seq(Adapters)
  BY DEF TypeInv, HandlersTyped, DataTyped, ObjectsBound
<1>2. /\ pc[h] \in InService /\ pc[h] \in Serving /\ pc[h] \notin Clearing \cup Ends
      /\ pc[h] # "idle"
      /\ pc'[h] \notin Clearing \cup Ends \cup {"attach"}
  BY <1>1 DEF AppendUser, AppendReply, PersistUser, PersistReply, PersistMemories, ObserveUser,
     ObserveReply, Goto, InService, Serving, Running, Clearing, Ends
<1>3. PICK s0 \in Sids, t0 \in Calls : s0 = Home(h) /\ t0 = job[h].call
  BY <1>2, ServingTyped
<1>4. UNCHANGED <<services, svc, brain, conv, wiped>>
  BY DEF AppendUser, AppendReply, PersistUser, PersistReply, PersistMemories, ObserveUser,
     ObserveReply
<1>5. /\ s0 \in Sids /\ services[s0] = job[h].svc /\ services[s0] # None
      /\ Runtime(h) \in DOMAIN adapters /\ adapters[Runtime(h)].sid = s0
      /\ Runtime(h) = svc[services[s0]].adapter
  BY <1>2, <1>3, ServingTyped DEF ServicesCurrent, HoldsCached, TypeInv, ObjectsBound, Runtime, None
<1>6. Clean(s0) /\ brain[s0] = Runtime(h)
  BY <1>2, <1>5, TidyElsewhere DEF Empty, Clean, MemoryClean
<1>7. t0 \notin wiped
  BY <1>1, <1>2, <1>3, BoundsTyped DEF MessagesEarlier, TurnLatest, WipedEarlier, TypeInv, HandlersTyped
<1>8. ASSUME NEW s \in Sids, s # s0 PROVE Empty(s)' \/ Clean(s)'
  <2>1. messages'[s] = messages[s]
    BY <1>1, <1>3, <1>8 DEF AppendUser, AppendReply, PersistUser, PersistReply, PersistMemories,
       ObserveUser, ObserveReply, Say
  <2>2. /\ \A r \in convRows' : r.sid = s => r \in convRows
        /\ \A r \in memRows' : r.sid = s => r \in memRows
    BY <1>3, <1>8 DEF AppendUser, AppendReply, PersistUser, PersistReply, PersistMemories,
       ObserveUser, ObserveReply, Persist
  <2>3. brain[s] # None => brain[s] \in DOMAIN adapters /\ brain[s] # Runtime(h)
    BY <1>5, <1>8 DEF TypeInv, ObjectsBound
  <2>4. brain[s] # None => adapters'[brain[s]].holds = adapters[brain[s]].holds
    BY <1>1, <2>3 DEF AppendUser, AppendReply, PersistUser, PersistReply, PersistMemories,
       ObserveUser, ObserveReply, Observe
  <2> QED BY <1>2, <1>4, <2>1, <2>2, <2>4, TidyElsewhere, SessionStays
<1>9. ASSUME Clean(s0)' PROVE Tidy'
  BY <1>2, <1>8, <1>9 DEF OneAtATime, Tidy, SoFar, ClearedSoFar, EndedSoFar, RuntimeFresh,
     Clearing, Ends
<1>10. CASE AppendUser(h) \/ AppendReply(h)
  <2>1. PICK role \in Roles : Say(h, role)
    BY <1>10 DEF AppendUser, AppendReply, Roles
  <2>2. Said(s0)' \subseteq Said(s0) \cup {t0}
    BY <1>2, <1>3, <1>5, <2>1, SaidGrows
  <2>3. UNCHANGED <<adapters, convRows, memRows>>
    BY <1>10 DEF AppendUser, AppendReply
  <2>4. Clean(s0)'
    BY <1>4, <1>6, <1>7, <2>2, <2>3 DEF Clean, ConversationClean, MemoryClean
  <2> QED BY <1>9, <2>4
<1>11. CASE \E ok \in Outcomes : PersistUser(h, ok) \/ PersistReply(h, ok)
  <2>1. \A r \in convRows' : r \in convRows \/ (r.conv = conv[s0] /\ r.turn = t0)
    BY <1>3, <1>11 DEF PersistUser, PersistReply, Persist
  <2>2. UNCHANGED <<adapters, messages, memRows>>
    BY <1>11 DEF PersistUser, PersistReply
  <2>3. Clean(s0)'
    BY <1>4, <1>6, <1>7, <2>1, <2>2 DEF Clean, ConversationClean, MemoryClean, Said
  <2> QED BY <1>9, <2>3
<1>12. CASE \E ok \in Outcomes : PersistMemories(h, ok)
  <2>1. \A r \in memRows' : r \in memRows \/ r.turn \in adapters[Runtime(h)].holds
    BY <1>12 DEF PersistMemories
  <2>2. UNCHANGED <<adapters, messages, convRows>>
    BY <1>12 DEF PersistMemories
  <2>3. Clean(s0)'
    BY <1>4, <1>6, <2>1, <2>2 DEF Clean, ConversationClean, MemoryClean, Said
  <2> QED BY <1>9, <2>3
<1>13. CASE \E b \in BOOLEAN : ObserveUser(h, b) \/ ObserveReply(h, b)
  <2>1. /\ adapters[Runtime(h)].holds \subseteq adapters'[Runtime(h)].holds
        /\ adapters'[Runtime(h)].holds \subseteq adapters[Runtime(h)].holds \cup {t0}
    <3>1. PICK b \in BOOLEAN : Observe(h, b)
      BY <1>13 DEF ObserveUser, ObserveReply
    <3>2. adapters' = adapters \/ adapters'[Runtime(h)].holds = adapters[Runtime(h)].holds \cup {t0}
      BY <1>1, <1>3, <1>5, <3>1 DEF Observe, Adapters
    <3> QED BY <3>2
  <2>2. UNCHANGED <<messages, convRows, memRows>>
    BY <1>13 DEF ObserveUser, ObserveReply
  <2>3. Clean(s0)'
    BY <1>4, <1>6, <1>7, <2>1, <2>2 DEF Clean, ConversationClean, MemoryClean, Said
  <2> QED BY <1>9, <2>3
<1> QED BY <1>10, <1>11, <1>12, <1>13

\* A session that had no service and held nothing gets a fresh runtime and its service.
LEMMA ServiceTidy ==
    ASSUME OneAtATime, TypeInv, TracesPlaced, ServicesCurrent, Tidy, NEW h \in Handlers,
           BindRuntime(h) \/ NewRuntime(h) \/ AttachRuntime(h)
    PROVE  Tidy'
<1> USE DEF objects, state, rows, history
<1>1. /\ pc \in [Handlers -> Steps] /\ job \in [Handlers -> Jobs] /\ svc \in Seq(Services)
      /\ services \in [Sids -> Nat] /\ brain \in [Sids -> Nat] /\ adapters \in Seq(Adapters)
  BY DEF TypeInv, HandlersTyped, ObjectsBound
<1>2. pc[h] \in {"construct", "attach"} /\ pc[h] \notin Clearing \cup Ends
  BY DEF BindRuntime, NewRuntime, AttachRuntime, Goto, Clearing, Ends
<1>3. PICK s0 \in Sids : s0 = job[h].at
  BY <1>2 DEF TypeInv, LocalsBound, LocalsOf
<1>4. Empty(s0)
  BY <1>2, <1>3, TidyElsewhere DEF ServicesCurrent, HoldsCached, Clean, MemoryClean
<1>5. CASE BindRuntime(h)
  BY <1>3, <1>4, <1>5 DEF BindRuntime, Empty
<1>6. CASE NewRuntime(h)
  <2>1. /\ Len(adapters') \in DOMAIN adapters' /\ Len(adapters') = Len(adapters) + 1
        /\ \A a \in DOMAIN adapters : adapters'[a] = adapters[a]
    BY <1>3, <1>6, NewAdapterBound DEF NewRuntime, TypeInv
  <2>2. adapters'[Len(adapters')].holds = {}
    BY <1>1, <1>6, <2>1 DEF NewRuntime, NewAdapter
  <2>3. pc'[h] = "attach" /\ job'[h].adapter = Len(adapters')
    BY <1>1, <1>6 DEF NewRuntime, Goto, Jobs
  <2>4. SoFar(h)'
    BY <2>2, <2>3 DEF SoFar, ClearedSoFar, EndedSoFar, RuntimeFresh, Ends
  <2> QED BY <1>2, <1>6, <2>1, <2>4, DataUntouched DEF NewRuntime
<1>7. CASE AttachRuntime(h)
  <2> DEFINE e == [sid |-> s0, adapter |-> job[h].adapter, client |-> NoClient]
  <2>1. /\ pc[h] = "attach" /\ pc'[h] = "append" /\ adapters[job[h].adapter].holds = {}
        /\ UNCHANGED <<messages, conv, adapters, convRows, memRows, wiped>>
    BY <1>1, <1>7 DEF AttachRuntime, Goto, Tidy, SoFar, RuntimeFresh
  <2>2. /\ svc' = Append(svc, e) /\ e \in Services /\ services' = [services EXCEPT ![s0] = Len(svc')]
        /\ brain' = [brain EXCEPT ![s0] = job[h].adapter]
    BY <1>1, <1>3, <1>7 DEF AttachRuntime, CacheService, Services, Jobs, Clients
  <2>3. e.adapter = job[h].adapter
    OBVIOUS
  <2> HIDE DEF e
  <2>4. /\ DOMAIN svc = 1..Len(svc) /\ Len(svc) \in Nat /\ Len(svc') = Len(svc) + 1
        /\ svc'[Len(svc')] = e /\ \A i \in DOMAIN svc : svc'[i] = svc[i]
    BY <1>1, <2>2, AppendTyped
  <2>5. /\ services'[s0] = Len(svc') /\ brain'[s0] = svc'[services'[s0]].adapter
        /\ brain'[s0] = job[h].adapter
    BY <1>1, <2>2, <2>3, <2>4
  <2>6. Clean(s0)'
    <3>1. Said(s0)' = {} /\ \A r \in convRows' \cup memRows' : r.sid # s0
      BY <1>4, <2>1 DEF Empty, NoRows, Said
    <3>2. services'[s0] # None /\ adapters'[brain'[s0]].holds = {}
      BY <2>1, <2>4, <2>5 DEF None
    <3> QED BY <2>5, <3>1, <3>2 DEF Clean, ConversationClean, MemoryClean
  <2>7. ASSUME NEW s \in Sids, s # s0 PROVE Empty(s)' \/ Clean(s)'
    <3>1. services'[s] = services[s] /\ brain'[s] = brain[s]
      BY <1>1, <2>2, <2>7
    <3>2. services[s] # None => svc'[services[s]] = svc[services[s]]
      BY <2>4 DEF TypeInv, ObjectsBound
    <3> QED BY <1>2, <2>1, <3>1, <3>2, TidyElsewhere, SessionStays
  <2>8. SoFar(h)'
    BY <2>1 DEF SoFar, ClearedSoFar, EndedSoFar, RuntimeFresh, Ends
  <2> QED BY <2>6, <2>7, <2>8 DEF OneAtATime, Tidy
<1> QED BY <1>5, <1>6, <1>7

\* What is taken from one session leaves the others as they are.
LEMMA OthersTidy ==
    ASSUME OneAtATime, TypeInv, TracesPlaced, Tidy, NEW h \in Handlers, NEW s0 \in Sids,
           pc[h] \notin Clearing \cup Ends \/ job[h].sid = s0,
           \A s \in Sids \ {s0} : /\ services'[s] = services[s] /\ brain'[s] = brain[s]
                                  /\ messages'[s] = messages[s] /\ conv'[s] = conv[s],
           \A i \in DOMAIN svc : svc[i].sid # s0 => svc'[i].adapter = svc[i].adapter,
           \A a \in DOMAIN adapters : adapters'[a].holds = adapters[a].holds,
           convRows' \subseteq convRows, memRows' \subseteq memRows,
           wiped' \subseteq wiped \cup Said(s0)
    PROVE  \A s \in Sids \ {s0} : Empty(s)' \/ Clean(s)'
<1> SUFFICES ASSUME NEW s \in Sids, s # s0 PROVE Empty(s)' \/ Clean(s)'
  OBVIOUS
<1>1. Empty(s) \/ Clean(s)
  BY TidyElsewhere
<1>2. /\ services[s] # None => services[s] \in DOMAIN svc /\ svc[services[s]].sid = s
      /\ brain[s] # None => brain[s] \in DOMAIN adapters
  BY DEF TypeInv, ObjectsBound
<1>3. \A t \in Said(s0) : ranIn[t] = s0
  BY DEF Said, TracesPlaced, MessagesPlaced
<1> QED BY <1>1, <1>2, <1>3, SessionStays

\* A clear empties the conversation of its session, then its rows, and gives it a new
\* runtime.
LEMMA ClearTidy ==
    ASSUME OneAtATime, StoreOutcomes = {TRUE}, TypeInv, TracesPlaced, ServicesCurrent, Tidy,
           NEW h \in Handlers,
           \/ ClearWithoutService(h) \/ ClearTranscript(h)
           \/ ForgetWithoutService(h) \/ ForgetWithService(h) \/ RenewRuntime(h)
           \/ \E ok \in Outcomes : DeleteConversation(h, ok) \/ ClearMirror(h, ok)
    PROVE  Tidy'
<1> USE DEF objects, state, rows, history
<1>1. /\ pc \in [Handlers -> Steps] /\ job \in [Handlers -> Jobs] /\ svc \in Seq(Services)
      /\ brain \in [Sids -> Nat] /\ messages \in [Sids -> Seq(Messages)]
      /\ adapters \in Seq(Adapters) /\ conv \in [Sids -> Nat]
  BY DEF TypeInv, HandlersTyped, ObjectsBound, DataTyped
<1>2. pc[h] \in Clearing \cup {"clear", "forget"} /\ pc[h] \notin Ends
  BY DEF ClearWithoutService, ClearTranscript, ForgetWithoutService, ForgetWithService,
     RenewRuntime, DeleteConversation, ClearMirror, Return, Goto, Clearing, Ends
<1>3. PICK s0 \in Sids : s0 = job[h].sid
  BY <1>2, IdleOrCalled DEF Clearing
<1>4. pc[h] \notin Clearing =>
          IF services[s0] = None THEN Empty(s0) ELSE Clean(s0)
  BY <1>2, TidyElsewhere DEF Empty, Clean, MemoryClean
<1>5. ClearedSoFar(h) /\ Outcomes = {TRUE}
  BY DEF Tidy, SoFar, Outcomes
<1>6. ASSUME \A s \in Sids \ {s0} : Empty(s)' \/ Clean(s)',
             \/ pc'[h] = "idle" /\ (Empty(s0)' \/ Clean(s0)')
             \/ pc'[h] \in Clearing /\ job'[h].sid = s0 /\ ClearedSoFar(h)'
      PROVE  Tidy'
  <2>1. Empty(s0)' \/ Clean(s0)' \/ Emptying(s0)'
    BY <1>6 DEF Emptying
  <2>2. SoFar(h)'
    BY <1>6 DEF SoFar, ClearedSoFar, EndedSoFar, RuntimeFresh, Clearing, Ends
  <2> QED BY <1>6, <2>1, <2>2 DEF OneAtATime, Tidy
<1>7. CASE ClearWithoutService(h)
  <2>1. /\ pc[h] = "clear" /\ pc'[h] = "idle" /\ services[s0] = None /\ ClearState(s0)
        /\ UNCHANGED <<services, svc, adapters, convRows, memRows>>
    BY <1>1, <1>3, <1>7 DEF ClearWithoutService, Return, Goto
  <2>2. Empty(s0)'
    BY <1>1, <1>4, <2>1 DEF Clearing, Empty, NoRows, ClearState, None
  <2>3. \A s \in Sids \ {s0} : Empty(s)' \/ Clean(s)'
    BY <1>1, <1>3, <2>1, OthersTidy DEF ClearState
  <2> QED BY <1>6, <2>1, <2>2, <2>3
<1>8. CASE ClearTranscript(h)
  <2>1. /\ pc[h] = "clear" /\ pc'[h] = "clear_rows" /\ services[s0] # None /\ ClearState(s0)
        /\ job'[h].sid = s0 /\ job'[h].conv = conv[s0]
        /\ UNCHANGED <<services, svc, adapters, convRows, memRows>>
    BY <1>1, <1>3, <1>8 DEF ClearTranscript, Goto, Jobs
  <2>2. ClearedSoFar(h)'
    BY <1>1, <1>4, <2>1 DEF Clearing, ClearedSoFar, ClearState, Clean, ConversationClean
  <2>3. \A s \in Sids \ {s0} : Empty(s)' \/ Clean(s)'
    BY <1>1, <1>3, <2>1, OthersTidy DEF ClearState
  <2> QED BY <1>6, <2>1, <2>2, <2>3 DEF Clearing
<1>9. CASE ForgetWithoutService(h)
  <2>1. /\ pc[h] = "forget" /\ pc'[h] = "idle" /\ services[s0] = None
        /\ brain' = [brain EXCEPT ![s0] = None]
        /\ UNCHANGED <<services, svc, adapters, messages, conv, convRows, memRows, wiped>>
    BY <1>1, <1>3, <1>9 DEF ForgetWithoutService, Return, Goto
  <2>2. Empty(s0)'
    BY <1>1, <1>4, <2>1 DEF Clearing, Empty, NoRows
  <2>3. \A s \in Sids \ {s0} : Empty(s)' \/ Clean(s)'
    BY <1>1, <1>3, <2>1, OthersTidy
  <2> QED BY <1>6, <2>1, <2>2, <2>3
<1>10. CASE ForgetWithService(h)
  <2>1. /\ pc[h] = "forget" /\ pc'[h] = "clear_mirror" /\ services[s0] # None
        /\ job'[h].sid = s0
        /\ UNCHANGED <<services, svc, adapters, brain, messages, conv, convRows, memRows, wiped>>
    BY <1>1, <1>3, <1>10 DEF ForgetWithService, Goto, Jobs
  <2>2. ClearedSoFar(h)'
    BY <1>4, <2>1 DEF Clearing, ClearedSoFar, Clean, ConversationClean, Said
  <2>3. \A s \in Sids \ {s0} : Empty(s)' \/ Clean(s)'
    BY <1>3, <2>1, OthersTidy
  <2> QED BY <1>6, <2>1, <2>2, <2>3 DEF Clearing
<1>11. CASE \E ok \in Outcomes : DeleteConversation(h, ok)
  <2>1. /\ pc[h] = "clear_rows" /\ pc'[h] = "clear_mirror" /\ job' = job
        /\ convRows' = {r \in convRows : ~(r.sid = s0 /\ r.conv = job[h].conv)}
        /\ UNCHANGED <<services, svc, adapters, brain, messages, conv, memRows, wiped>>
    BY <1>1, <1>3, <1>5, <1>11 DEF DeleteConversation, Goto
  <2>2. messages[s0] = <<>> /\ \A r \in convRows' : r.sid # s0
    BY <1>3, <1>5, <2>1 DEF ClearedSoFar
  <2>3. ConversationClean(s0)'
    BY <2>1, <2>2 DEF ConversationClean, Said
  <2>4. ClearedSoFar(h)'
    BY <1>3, <2>1, <2>3 DEF ClearedSoFar
  <2>5. \A s \in Sids \ {s0} : Empty(s)' \/ Clean(s)'
    BY <1>3, <2>1, OthersTidy
  <2> QED BY <1>3, <1>6, <2>1, <2>4, <2>5 DEF Clearing
<1>12. CASE \E ok \in Outcomes : ClearMirror(h, ok)
  <2>1. /\ pc[h] = "clear_mirror" /\ pc'[h] = "renew" /\ job' = job
        /\ memRows' = {r \in memRows : r.sid # s0}
        /\ UNCHANGED <<services, svc, adapters, brain, messages, conv, convRows, wiped>>
    BY <1>1, <1>3, <1>5, <1>12 DEF ClearMirror, Goto
  <2>2. ConversationClean(s0)'
    BY <1>3, <1>5, <2>1 DEF ClearedSoFar, ConversationClean, Said
  <2>3. ClearedSoFar(h)'
    BY <1>3, <2>1, <2>2 DEF ClearedSoFar
  <2>4. \A s \in Sids \ {s0} : Empty(s)' \/ Clean(s)'
    BY <1>3, <2>1, OthersTidy
  <2> QED BY <1>3, <1>6, <2>1, <2>3, <2>4 DEF Clearing
<1>13. CASE RenewRuntime(h)
  <2>1. /\ pc[h] = "renew" /\ pc'[h] = "idle" /\ NewAdapter(s0)
        /\ svc' = [svc EXCEPT ![job[h].svc].adapter = Len(adapters')]
        /\ brain' = [brain EXCEPT ![s0] = Len(adapters')]
        /\ UNCHANGED <<services, messages, conv, convRows, memRows, wiped>>
    BY <1>1, <1>3, <1>13 DEF RenewRuntime, Return, Goto
  <2>2. /\ Len(adapters') = Len(adapters) + 1 /\ Len(adapters) \in Nat
        /\ \A a \in DOMAIN adapters : adapters'[a] = adapters[a]
    BY <1>3, <2>1, NewAdapterBound DEF TypeInv
  <2>3. adapters'[Len(adapters')].holds = {}
    BY <1>1, <2>1, <2>2 DEF NewAdapter
  <2>4. services[s0] = job[h].svc /\ job[h].svc \in DOMAIN svc /\ svc[job[h].svc].sid = s0
    BY <1>3, <2>1 DEF ServicesCurrent, HoldsCached, Clearing, Serving, TypeInv, LocalsBound, LocalsOf
  <2>5. /\ services'[s0] # None /\ brain'[s0] = svc'[services'[s0]].adapter
        /\ brain'[s0] = Len(adapters')
    <3>1. brain'[s0] = Len(adapters') /\ job[h].svc # None
      BY <1>1, <2>1, <2>4 DEF None
    <3>2. svc[job[h].svc] \in Services
      BY <1>1, <2>4
    <3>3. svc'[job[h].svc].adapter = Len(adapters')
      BY <1>1, <2>1, <2>4, <3>2 DEF Services
    <3> QED BY <2>1, <2>4, <3>1, <3>3
  <2>6. ConversationClean(s0)' /\ \A r \in memRows' : r.sid # s0
    BY <1>3, <1>5, <2>1 DEF ClearedSoFar, ConversationClean, Said
  <2>7. Clean(s0)'
    BY <2>3, <2>5, <2>6 DEF Clean, MemoryClean
  <2>8. \A i \in DOMAIN svc : svc[i].sid # s0 => svc'[i].adapter = svc[i].adapter
    BY <1>1, <2>1, <2>4
  <2>9. \A s \in Sids \ {s0} : Empty(s)' \/ Clean(s)'
    BY <1>1, <1>3, <2>1, <2>2, <2>8, OthersTidy
  <2> QED BY <1>6, <2>1, <2>7, <2>9
<1> QED BY <1>7, <1>8, <1>9, <1>10, <1>11, <1>12, <1>13

\* An end empties its session, whose service it has dropped.
LEMMA EndTidy ==
    ASSUME OneAtATime, StoreOutcomes = {TRUE}, TypeInv, TracesPlaced, ServicesCurrent, Tidy,
           NEW h \in Handlers, End(h)
    PROVE  Tidy'
<1> USE DEF objects, state, rows, history, registry
<1>1. /\ pc \in [Handlers -> Steps] /\ job \in [Handlers -> Jobs]
      /\ brain \in [Sids -> Nat] /\ messages \in [Sids -> Seq(Messages)]
      /\ services \in [Sids -> Nat] /\ conv \in [Sids -> Nat]
  BY DEF TypeInv, HandlersTyped, ObjectsBound, DataTyped
<1>2. EndedSoFar(h) /\ Outcomes = {TRUE}
  BY DEF Tidy, SoFar, Outcomes
<1>3. ASSUME NEW s0 \in Sids, \A s \in Sids \ {s0} : Empty(s)' \/ Clean(s)',
             \/ pc'[h] = "idle" /\ Empty(s0)'
             \/ pc'[h] \in Ends /\ job'[h].sid = s0 /\ EndedSoFar(h)'
      PROVE  Tidy'
  <2>1. Empty(s0)' \/ Emptying(s0)'
    BY <1>3 DEF Emptying
  <2>2. SoFar(h)'
    BY <1>3 DEF SoFar, ClearedSoFar, EndedSoFar, RuntimeFresh, Ends
  <2> QED BY <1>3, <2>1, <2>2 DEF OneAtATime, Tidy
<1>4. CASE \E asked \in Sids : BeginEnd(h, asked)
  <2>1. PICK asked \in Sids : BeginEnd(h, asked)
    BY <1>4
  <2>2. /\ pc[h] = "idle" /\ pc'[h] = "end_rows" /\ job'[h].sid = asked
        /\ services' = [services EXCEPT ![asked] = None]
        /\ UNCHANGED <<live, svc, adapters, brain, messages, conv, convRows, memRows, wiped>>
    BY <1>1, <2>1 DEF BeginEnd, Begin, Goto, NoJob, Jobs
  <2>3. pc[h] \notin Clearing \cup Ends
    BY <2>2 DEF Clearing, Ends
  <2>4. asked \notin live => Empty(asked)
    BY <2>3, TidyElsewhere DEF ServicesCurrent, OneService, Clean, MemoryClean
  <2>5. EndedSoFar(h)'
    BY <1>1, <2>2, <2>4 DEF EndedSoFar, Empty, NoRows, Ends
  <2>6. \A s \in Sids \ {asked} : Empty(s)' \/ Clean(s)'
    BY <1>1, <2>2, <2>3, OthersTidy
  <2> QED BY <1>3, <2>2, <2>5, <2>6 DEF Ends
<1>5. CASE \E ok \in Outcomes : EndConversations(h, ok) \/ EndMirror(h, ok)
  <2>1. PICK s0 \in Sids : s0 = job[h].sid
    BY <1>1, <1>5, IdleOrCalled DEF EndConversations, EndMirror, Goto
  <2>2. /\ pc[h] \in Ends /\ pc'[h] \in Ends /\ job' = job
        /\ convRows' \subseteq convRows /\ memRows' \subseteq memRows
        /\ UNCHANGED <<live, services, svc, adapters, brain, messages, conv, wiped>>
    BY <1>1, <1>5 DEF EndConversations, EndMirror, Goto, Ends
  <2>3. \A s \in Sids \ {s0} : Empty(s)' \/ Clean(s)'
    BY <2>1, <2>2, OthersTidy
  <2>4. s0 \notin live' => Empty(s0)'
    BY <1>2, <2>1, <2>2 DEF EndedSoFar, Empty, NoRows
  <2>5. CASE \E ok \in Outcomes : EndConversations(h, ok)
    <3>1. /\ pc'[h] = "end_mirror" /\ \A r \in convRows' : r.sid # s0
      BY <1>1, <1>2, <2>1, <2>5 DEF EndConversations, Goto
    <3> QED BY <1>3, <2>1, <2>2, <2>3, <2>4, <3>1 DEF EndedSoFar
  <2>6. CASE \E ok \in Outcomes : EndMirror(h, ok)
    <3>1. /\ pc[h] = "end_mirror" /\ convRows' = convRows /\ \A r \in memRows' : r.sid # s0
      BY <1>1, <1>2, <2>1, <2>6 DEF EndMirror, Goto
    <3>2. \A r \in convRows' : r.sid # s0
      BY <1>2, <2>1, <3>1 DEF EndedSoFar
    <3> QED BY <1>3, <2>1, <2>2, <2>3, <2>4, <3>1, <3>2 DEF EndedSoFar
  <2> QED BY <1>5, <2>5, <2>6
<1>6. CASE EndSession(h)
  <2>1. PICK s0 \in Sids : s0 = job[h].sid
    BY <1>1, <1>6, IdleOrCalled DEF EndSession, Return, Goto
  <2>2. /\ pc[h] = "end" /\ pc'[h] = "idle"
        /\ UNCHANGED <<services, svc, adapters, convRows, memRows>>
        /\ IF s0 \in live THEN ClearState(s0) ELSE UNCHANGED <<brain, messages, conv, wiped>>
    BY <1>1, <1>6, <2>1 DEF EndSession, Return, Goto
  <2>3. services[s0] = None /\ NoRows(s0) /\ (s0 \notin live => Empty(s0))
    BY <1>2, <2>1, <2>2 DEF ServicesCurrent, HoldsCached, EndedSoFar, NoRows, Ends
  <2>4. Empty(s0)'
    BY <1>1, <2>2, <2>3 DEF Empty, NoRows, ClearState, None
  <2>5. \A s \in Sids \ {s0} : Empty(s)' \/ Clean(s)'
    BY <1>1, <2>1, <2>2, OthersTidy DEF ClearState
  <2> QED BY <1>3, <2>2, <2>4, <2>5
<1> QED BY <1>4, <1>5, <1>6 DEF End

\* What is wiped was said before the present turn.
LEMMA WipedStep ==
    ASSUME OneAtATime, TypeInv, MessagesEarlier, WipedEarlier, [Next]_vars
    PROVE  WipedEarlier'
<1> USE DEF state, history
<1>1. /\ pc \in [Handlers -> Steps] /\ calls \in Nat /\ wiped \subseteq Nat
  BY BoundsTyped DEF TypeInv, HandlersTyped, DataTyped, Calls
<1>2. ASSUME NEW h \in Handlers, Chat(h) \/ Clear(h) \/ End(h) \/ Provider(h)
      PROVE  WipedEarlier'
  <2>1. CASE \E asked \in Sids :
                 \/ BeginChat(h, asked) \/ BeginClear(h, asked) \/ BeginForget(h, asked)
                 \/ BeginEnd(h, asked) \/ BeginDisconnect(h, asked)
                 \/ \E k : BeginConnect(h, asked, k)
    <3>1. wiped' = wiped /\ calls' = calls + 1
      BY <2>1 DEF BeginChat, BeginClear, BeginForget, BeginEnd, BeginDisconnect, BeginConnect, Begin
    <3> QED BY <1>1, <3>1 DEF WipedEarlier
  <2>2. CASE ClearWithoutService(h) \/ ClearTranscript(h) \/ EndSession(h)
    <3>1. /\ pc[h] \in {"clear", "end"} /\ calls' = calls
          /\ wiped' = wiped \/ wiped' = wiped \cup Said(job[h].sid)
      BY <2>2 DEF ClearWithoutService, ClearTranscript, EndSession, Return, Goto, ClearState
    <3>2. job[h].sid \in Sids
      BY <3>1, IdleOrCalled
    <3>3. \A t \in Said(job[h].sid) : t \in Nat /\ t <= calls /\ t # calls
      BY <3>1, <3>2, SaidTyped DEF MessagesEarlier, SaidByNow, TurnLatest, Running, TypeInv, Calls
    <3>4. \A t \in wiped : t < calls
      BY <3>1 DEF WipedEarlier
    <3>5. ASSUME NEW t \in wiped' PROVE t < calls /\ t <= calls
      <4>1. CASE t \in wiped
        <5>1. t < calls /\ t \in Nat
          BY <1>1, <3>4, <4>1
        <5> QED BY <1>1, <5>1
      <4>2. CASE t \in Said(job[h].sid)
        BY <1>1, <3>3, <4>2
      <4> QED BY <3>1, <3>5, <4>1, <4>2
    <3> QED BY <3>1, <3>5 DEF WipedEarlier
  <2>3. ASSUME wiped' = wiped, calls' = calls, pc[h] # "idle" PROVE WipedEarlier'
    BY <2>3 DEF OneAtATime, WipedEarlier
  <2>4. CASE \/ Refuse(h) \/ ServiceFound(h) \/ ServiceMissing(h) \/ BindRuntime(h)
             \/ NewRuntime(h) \/ RuntimeUnavailable(h) \/ AttachRuntime(h) \/ AppendUser(h)
             \/ BuildContext(h) \/ SkipProvider(h) \/ Generate(h) \/ CachedClient(h)
             \/ BuildClient(h) \/ CacheClient(h) \/ ProviderFails(h) \/ Raise(h)
             \/ AppendReply(h) \/ FinishChat(h)
    BY <2>3, <2>4 DEF Refuse, ServiceFound, ServiceMissing, BindRuntime, NewRuntime,
       RuntimeUnavailable, AttachRuntime, AppendUser, BuildContext, SkipProvider, Generate,
       CachedClient, BuildClient, CacheClient, ProviderFails, Raise, AppendReply, FinishChat,
       Return, Goto
  <2>5. CASE \/ \E b \in BOOLEAN : ObserveUser(h, b) \/ Reply(h, b) \/ ObserveReply(h, b)
             \/ \E ok \in Outcomes : \/ PersistUser(h, ok) \/ PersistReply(h, ok)
                                     \/ PersistMemories(h, ok)
                                     \/ DeleteConversation(h, ok) \/ ClearMirror(h, ok)
                                     \/ EndConversations(h, ok) \/ EndMirror(h, ok)
             \/ ForgetWithoutService(h) \/ ForgetWithService(h) \/ RenewRuntime(h)
             \/ FinishConnect(h) \/ FinishDisconnect(h)
    BY <2>3, <2>5 DEF ObserveUser, Reply, ObserveReply, PersistUser, PersistReply,
       PersistMemories, DeleteConversation, ClearMirror, EndConversations, EndMirror,
       ForgetWithoutService, ForgetWithService, RenewRuntime, FinishConnect, FinishDisconnect,
       Return, Goto
  <2> QED BY <1>2, <2>1, <2>2, <2>4, <2>5 DEF Chat, Clear, End, Provider
<1>3. CASE UNCHANGED vars
  BY <1>3 DEF vars, WipedEarlier
<1> QED BY <1>2, <1>3 DEF Next, Rest

\* An ended session stays closed, without a key.
LEMMA ClosedStep ==
    ASSUME TypeInv, RenewalsBounded, EndedClosed, [Next]_vars
    PROVE  EndedClosed'
<1> USE DEF state, history, registry
<1>1. /\ pc \in [Handlers -> Steps] /\ key \in [Sids -> Keys \cup {NoKey}]
      /\ live \subseteq used /\ ended \subseteq used /\ used \subseteq Sids
      /\ live' \cap used \subseteq live
  BY TypeStep DEF TypeInv, HandlersTyped, DataTyped, RegistryTyped, RegistryGrows
<1>2. ASSUME ended' = ended, key' = key PROVE EndedClosed'
  BY <1>1, <1>2 DEF EndedClosed
<1>3. ASSUME NEW h \in Handlers, NEW asked \in Sids, NEW k, BeginConnect(h, asked, k)
      PROVE  EndedClosed'
  <2>1. Resolved(asked) \in live' /\ Resolved(asked) \in Sids
    BY <1>3, ResolvedIsHeld DEF BeginConnect, TypeInv
  <2>2. ended' = ended /\ key' = [key EXCEPT ![Resolved(asked)] = k]
    BY <1>3 DEF BeginConnect
  <2>3. ended \cap live' = {} /\ Resolved(asked) \notin ended
    BY <1>1, <2>1 DEF EndedClosed
  <2> QED BY <1>1, <2>1, <2>2, <2>3 DEF EndedClosed
<1>4. ASSUME NEW h \in Handlers, EndSession(h) PROVE EndedClosed'
  <2>1. /\ NewSid \notin used /\ live' = (live \ {job[h].sid}) \cup {NewSid}
        /\ \/ ended' = ended /\ key' = key
           \/ /\ ended' = ended \cup {job[h].sid} /\ job[h].sid \in live
              /\ key' = [key EXCEPT ![job[h].sid] = NoKey]
    BY <1>4 DEF EndSession, Start
  <2> QED BY <1>1, <2>1 DEF EndedClosed
<1>5. ASSUME NEW h \in Handlers, FinishDisconnect(h) PROVE EndedClosed'
  <2>1. ended' = ended /\ key' = [key EXCEPT ![job[h].sid] = NoKey]
    BY <1>5 DEF FinishDisconnect
  <2> QED BY <1>1, <2>1 DEF EndedClosed
<1>6. ASSUME NEW h \in Handlers, Chat(h) PROVE EndedClosed'
  BY <1>2, <1>6 DEF Chat, BeginChat, Refuse, ServiceFound, ServiceMissing, BindRuntime,
     NewRuntime, RuntimeUnavailable, AttachRuntime, AppendUser, PersistUser, ObserveUser,
     BuildContext, SkipProvider, Generate, CachedClient, BuildClient, CacheClient, Reply,
     ProviderFails, Raise, AppendReply, ObserveReply, PersistReply, PersistMemories, FinishChat
<1>7. ASSUME NEW h \in Handlers, Clear(h) PROVE EndedClosed'
  BY <1>2, <1>7 DEF Clear, BeginClear, BeginForget, ClearWithoutService, ClearTranscript,
     ForgetWithoutService, ForgetWithService, DeleteConversation, ClearMirror, RenewRuntime,
     ClearState
<1>8. ASSUME NEW h \in Handlers, End(h) PROVE EndedClosed'
  BY <1>2, <1>4, <1>8 DEF End, BeginEnd, EndConversations, EndMirror
<1>9. ASSUME NEW h \in Handlers, Provider(h) PROVE EndedClosed'
  BY <1>2, <1>3, <1>5, <1>9 DEF Provider, BeginDisconnect, FinishConnect
<1>10. CASE UNCHANGED vars
  BY <1>2, <1>10 DEF vars
<1> QED BY <1>6, <1>7, <1>8, <1>9, <1>10 DEF Next, Rest

\* The steps of a turn leave every session tidy.
LEMMA TidyStep ==
    ASSUME OneAtATime, StoreOutcomes = {TRUE}, TypeInv, TracesPlaced, ServicesCurrent,
           MessagesEarlier, Tidy, WipedEarlier, [Next]_vars
    PROVE  Tidy'
<1> USE DEF objects, state, rows, history
<1>1. /\ pc \in [Handlers -> Steps] /\ job \in [Handlers -> Jobs] /\ svc \in Seq(Services)
  BY DEF TypeInv, HandlersTyped, ObjectsBound
<1>2. ASSUME NEW h \in Handlers, Chat(h) \/ Clear(h) \/ End(h) \/ Provider(h)
      PROVE  Tidy'
  <2>1. ASSUME pc[h] \notin Clearing \cup Ends, pc'[h] \notin Clearing \cup Ends \cup {"attach"},
               UNCHANGED <<services, brain, messages, conv, adapters, convRows, memRows, wiped>>,
               \A i \in DOMAIN svc : svc'[i].adapter = svc[i].adapter
        PROVE  Tidy'
    <3>1. SoFar(h)'
      BY <2>1 DEF SoFar, ClearedSoFar, EndedSoFar, RuntimeFresh, Clearing, Ends
    <3> QED BY <2>1, <3>1, DataUntouched
  <2> USE DEF Clearing, Ends
  <2>2. CASE \E asked \in Sids :
                 \/ BeginChat(h, asked) \/ BeginClear(h, asked) \/ BeginForget(h, asked)
                 \/ \E k : BeginConnect(h, asked, k)
    BY <1>1, <2>1, <2>2 DEF BeginChat, BeginClear, BeginForget, BeginConnect, Begin, Goto
  <2>3. CASE \/ Refuse(h) \/ ServiceFound(h) \/ ServiceMissing(h) \/ RuntimeUnavailable(h)
             \/ BuildContext(h) \/ SkipProvider(h) \/ Generate(h) \/ CachedClient(h)
             \/ BuildClient(h) \/ ProviderFails(h) \/ Raise(h) \/ FinishChat(h)
             \/ FinishDisconnect(h) \/ \E b \in BOOLEAN : Reply(h, b)
    BY <1>1, <2>1, <2>3 DEF Refuse, ServiceFound, ServiceMissing, RuntimeUnavailable, BuildContext,
       SkipProvider, Generate, CachedClient, BuildClient, ProviderFails, Raise, FinishChat,
       FinishDisconnect, Reply, Return, Goto
  <2>4. CASE \/ CacheClient(h) \/ FinishConnect(h)
             \/ \E asked \in Sids : BeginDisconnect(h, asked)
    <3>1. /\ pc[h] \notin Clearing \cup Ends /\ pc'[h] \notin Clearing \cup Ends \cup {"attach"}
          /\ UNCHANGED <<services, brain, messages, conv, adapters, convRows, memRows, wiped>>
      BY <1>1, <2>4 DEF CacheClient, FinishConnect, BeginDisconnect, Begin, Return, Goto
    <3>2. svc' = svc \/ \E j : \E c : svc' = [svc EXCEPT ![j].client = c]
      BY <2>4 DEF CacheClient, FinishConnect, BeginDisconnect, ResetClient
    <3>3. \A i \in DOMAIN svc : svc[i] \in Services
      BY <1>1
    <3>4. \A i \in DOMAIN svc : svc'[i].adapter = svc[i].adapter
      BY <3>2, <3>3 DEF Services
    <3> QED BY <2>1, <3>1, <3>4
  <2>5. CASE BindRuntime(h) \/ NewRuntime(h) \/ AttachRuntime(h)
    BY <2>5, ServiceTidy
  <2>6. CASE \/ AppendUser(h) \/ AppendReply(h)
             \/ \E ok \in Outcomes : \/ PersistUser(h, ok) \/ PersistReply(h, ok)
                                     \/ PersistMemories(h, ok)
             \/ \E b \in BOOLEAN : ObserveUser(h, b) \/ ObserveReply(h, b)
    BY <2>6, TracesTidy
  <2>7. CASE \/ ClearWithoutService(h) \/ ClearTranscript(h)
             \/ ForgetWithoutService(h) \/ ForgetWithService(h) \/ RenewRuntime(h)
             \/ \E ok \in Outcomes : DeleteConversation(h, ok) \/ ClearMirror(h, ok)
    BY <2>7, ClearTidy
  <2>8. CASE End(h)
    BY <2>8, EndTidy
  <2> QED BY <1>2, <2>2, <2>3, <2>4, <2>5, <2>6, <2>7, <2>8 DEF Chat, Clear, Provider
<1>3. CASE UNCHANGED vars
  <2>1. UNCHANGED <<live, services, svc, adapters, brain, messages, conv, convRows, memRows, wiped,
                    pc, job>>
    BY <1>3 DEF vars, registry
  <2>2. \A s : /\ Empty(s)' = Empty(s) /\ Clean(s)' = Clean(s) /\ Emptying(s)' = Emptying(s)
              /\ ConversationClean(s)' = ConversationClean(s)
    BY <2>1 DEF Empty, NoRows, Clean, ConversationClean, MemoryClean, Said, Emptying
  <2>3. \A h \in Handlers : SoFar(h)' = SoFar(h)
    BY <2>1, <2>2 DEF SoFar, ClearedSoFar, EndedSoFar, RuntimeFresh
  <2> QED BY <2>2, <2>3 DEF Tidy
<1> QED BY <1>2, <1>3 DEF Next, Rest

\* While callbacks run one after the other and the stores do not fail, every session is
\* empty or clean unless it is being emptied.
LEMMA ForgettingHolds ==
    ASSUME OneAtATime, StoreOutcomes = {TRUE}
    PROVE  Spec => [](TypeInv /\ SerialInv /\ ForgettingInv)
<1>1. Init => ForgettingInv
  <2> SUFFICES ASSUME Init PROVE ForgettingInv
    OBVIOUS
  <2>1. \A s \in Sids : Empty(s)
    BY DEF Init, Empty, NoRows
  <2>2. \A h \in Handlers : SoFar(h)
    BY DEF Init, SoFar, ClearedSoFar, EndedSoFar, RuntimeFresh, Ends
  <2> QED BY <2>1, <2>2 DEF Init, ForgettingInv, Tidy, WipedEarlier, EndedClosed
<1>2. TypeInv /\ RenewalsBounded /\ TracesPlaced /\ SerialInv /\ ForgettingInv /\ [Next]_vars
          => ForgettingInv'
  BY TidyStep, WipedStep, ClosedStep DEF SerialInv, ForgettingInv
<1> QED BY <1>1, <1>2, SerialHolds, PTL DEF Spec

\* If callbacks run one after the other and the stores do not fail, what was cleared is in
\* no transcript, row or mirror, a mirror forgets what its runtime forgets, and an ended
\* session leaves nothing (clear_conversation, reset_memory, end_session).
THEOREM ForgottenStays ==
    ASSUME OneAtATime, StoreOutcomes = {TRUE}
    PROVE  Spec => []ForgottenStaysForgotten
<1>1. TypeInv /\ SerialInv /\ ForgettingInv => ForgottenStaysForgotten
  <2> SUFFICES ASSUME TypeInv, SerialInv, ForgettingInv PROVE ForgottenStaysForgotten
    OBVIOUS
  <2>1. ASSUME Quiet, NEW s \in Sids PROVE Empty(s) \/ Clean(s)
    BY <2>1 DEF Quiet, ForgettingInv, Tidy, Emptying, Clearing, Ends
  <2>2. \A r \in convRows \cup memRows : r.sid \in Sids
    BY DEF TypeInv, DataTyped
  <2>3. ASSUME NEW s \in Sids, Clean(s) PROVE brain[s] # None
    BY <2>3 DEF Clean, MemoryClean, TypeInv, ObjectsBound, None
  <2>4. MirrorForgets
    BY <2>1, <2>2, <2>3 DEF MirrorForgets, Empty, NoRows, Clean, MemoryClean, Remembered
  <2>5. ClearedStaysCleared
    <3> SUFFICES ASSUME Quiet, NEW t \in wiped
                 PROVE  /\ \A s \in Sids : t \notin Said(s)
                        /\ \A r \in convRows \cup memRows : r.turn # t
      BY DEF ClearedStaysCleared
    <3>1. ASSUME NEW s \in Sids
          PROVE  /\ t \notin Said(s)
                 /\ \A r \in convRows \cup memRows : r.sid = s => r.turn # t
      <4>1. CASE Empty(s)
        BY <4>1 DEF Empty, NoRows, Said
      <4>2. CASE Clean(s)
        BY <4>2 DEF Clean, ConversationClean, MemoryClean
      <4> QED BY <2>1, <4>1, <4>2
    <3> QED BY <2>2, <3>1
  <2>6. EndedLeavesNothing
    <3> SUFFICES ASSUME NEW s \in ended
                 PROVE  /\ key[s] = NoKey /\ messages[s] = <<>>
                        /\ \A r \in convRows \cup memRows : r.sid # s
      BY DEF EndedLeavesNothing
    <3>1. s \in Sids /\ s \notin live /\ key[s] = NoKey
      BY DEF TypeInv, RegistryTyped, ForgettingInv, EndedClosed
    <3>2. services[s] = None
      BY <3>1 DEF SerialInv, ServicesCurrent, OneService
    <3>3. ASSUME NEW h \in Handlers, pc[h] \in Clearing \cup Ends, job[h].sid = s PROVE Empty(s)
      <4>1. pc[h] \notin Clearing
        BY <3>2, <3>3 DEF SerialInv, ServicesCurrent, HoldsCached, TypeInv, LocalsBound, LocalsOf,
           ObjectsBound, Serving, None
      <4> QED BY <3>1, <3>3, <4>1 DEF ForgettingInv, Tidy, SoFar, EndedSoFar
    <3>4. Empty(s)
      BY <3>1, <3>2, <3>3 DEF ForgettingInv, Tidy, Emptying, Clean, MemoryClean
    <3> QED BY <3>1, <3>4 DEF Empty, NoRows
  <2> QED BY <2>4, <2>5, <2>6 DEF ForgottenStaysForgotten
<1> QED BY <1>1, ForgettingHolds, PTL

-------------------------------------------------------------------------------
(* The refinement: seen by the turns it holds, a session does what         *)
(* SessionData promises.                                                   *)

Phase == [s \in Sids |-> IF s \in live THEN "open"
                         ELSE IF s \in used THEN "ended" ELSE "unborn"]
Holdings == [s \in Sids |-> Held(s)]
RowsOf(s) == {r \in convRows \cup memRows : r.sid = s}

\* A step of SessionData, or none.
Promised == [Promise!Next]_(Promise!vars)

\* A step that opens at most one fresh session and takes nothing from any.
LEMMA PromisedOpening ==
    ASSUME RegistryTyped, \A s \in Sids : Held(s)' = Held(s),
           \/ live' = live /\ used' = used
           \/ \E s \in Sids : s \notin used /\ live' = live \cup {s} /\ used' = used \cup {s}
    PROVE  Promised
<1>1. Holdings' = Holdings
  BY DEF Holdings
<1>2. CASE live' = live /\ used' = used
  <2>1. Phase' = Phase
    BY <1>2 DEF Phase
  <2> QED BY <1>1, <2>1 DEF Promised, Promise!vars, Phase, Holdings
<1>3. CASE \E s \in Sids : s \notin used /\ live' = live \cup {s} /\ used' = used \cup {s}
  <2>1. PICK s \in Sids : s \notin used /\ live' = live \cup {s} /\ used' = used \cup {s}
    BY <1>3
  <2>2. Phase[s] = "unborn" /\ Phase' = [Phase EXCEPT ![s] = "open"]
    BY <2>1 DEF Phase, RegistryTyped
  <2>3. Promise!Open(s)
    BY <1>1, <2>2 DEF Promise!Open, Phase, Holdings
  <2> QED BY <2>3 DEF Promised, Promise!Next
<1> QED BY <1>2, <1>3

\* A step that adds a turn to what an open session holds, or takes some away.
LEMMA PromisedChange ==
    ASSUME NEW s \in Sids, UNCHANGED <<live, used>>,
           \A r \in Sids \ {s} : Held(r)' = Held(r),
           Held(s)' # Held(s) => s \in live,
           \/ Held(s)' \subseteq Held(s)
           \/ \E t \in Calls : Held(s) \subseteq Held(s)' /\ Held(s)' \subseteq Held(s) \cup {t}
    PROVE  Promised
<1>1. Phase' = Phase
  BY DEF Phase
<1>2. Holdings' = [Holdings EXCEPT ![s] = Held(s)'] /\ Holdings[s] = Held(s)
  BY DEF Holdings
<1>3. CASE Held(s)' = Held(s)
  <2>1. Holdings' = Holdings
    BY <1>3 DEF Holdings
  <2> QED BY <1>1, <2>1 DEF Promised, Promise!vars, Phase, Holdings
<1>4. CASE Held(s)' # Held(s)
  <2>1. Phase[s] = "open"
    BY <1>4 DEF Phase
  <2>2. CASE Held(s)' \subseteq Held(s)
    <3>1. PICK gone : gone = Held(s) \ Held(s)'
      OBVIOUS
    <3>2. gone \in SUBSET Holdings[s] /\ Held(s)' = Holdings[s] \ gone
      BY <1>2, <2>2, <3>1
    <3>3. Promise!Drop(s, gone)
      BY <1>1, <1>2, <2>1, <3>2 DEF Promise!Drop, Phase, Holdings
    <3> QED BY <3>2, <3>3 DEF Promised, Promise!Next, Holdings
  <2>3. CASE \E t \in Calls : Held(s) \subseteq Held(s)' /\ Held(s)' \subseteq Held(s) \cup {t}
    <3>1. PICK t \in Calls : Held(s) \subseteq Held(s)' /\ Held(s)' \subseteq Held(s) \cup {t}
      BY <2>3
    <3>2. Held(s)' = Holdings[s] \cup {t}
      BY <1>2, <1>4, <3>1
    <3>3. Promise!Hold(s, t)
      BY <1>1, <1>2, <2>1, <3>2 DEF Promise!Hold, Phase, Holdings
    <3> QED BY <3>1, <3>3 DEF Promised, Promise!Next
  <2> QED BY <2>2, <2>3
<1> QED BY <1>3, <1>4

\* What a session holds depends on its own transcript, runtime and rows.
LEMMA HeldStays ==
    ASSUME NEW s \in Sids, messages'[s] = messages[s], RowsOf(s)' = RowsOf(s),
           Remembered(s)' = Remembered(s)
    PROVE  Held(s)' = Held(s)
<1>1. Said(s)' = Said(s)
  BY DEF Said
<1>2. Held(s) = Said(s) \cup Remembered(s) \cup {r.turn : r \in RowsOf(s)}
  BY DEF Held, RowsOf
<1>3. Held(s)' = Said(s)' \cup Remembered(s)' \cup {r.turn : r \in RowsOf(s)'}
  BY DEF Held, RowsOf
<1> QED BY <1>1, <1>2, <1>3

\* The runtime of a session remembers the same while the runtimes there are stay.
LEMMA RememberedStays ==
    ASSUME TypeInv, NEW s \in Sids, brain'[s] = brain[s],
           brain[s] # None => adapters'[brain[s]].holds = adapters[brain[s]].holds
    PROVE  Remembered(s)' = Remembered(s)
BY DEF Remembered

\* Less is held when less is said, remembered and on record.
LEMMA HeldShrinks ==
    ASSUME NEW s \in Sids, messages'[s] \in {messages[s], <<>>},
           RowsOf(s)' \subseteq RowsOf(s), Remembered(s)' \subseteq Remembered(s)
    PROVE  Held(s)' \subseteq Held(s)
<1>1. Said(s)' \subseteq Said(s)
  BY DEF Said
<1>2. Held(s) = Said(s) \cup Remembered(s) \cup {r.turn : r \in RowsOf(s)}
  BY DEF Held, RowsOf
<1>3. Held(s)' = Said(s)' \cup Remembered(s)' \cup {r.turn : r \in RowsOf(s)'}
  BY DEF Held, RowsOf
<1> QED BY <1>1, <1>2, <1>3

\* Ending an open session takes all it holds and opens a fresh one.
LEMMA PromisedEnd ==
    ASSUME RegistryTyped, NEW s \in Sids, NEW next \in Sids, s \in live, next \notin used,
           live' = (live \ {s}) \cup {next}, used' = used \cup {next},
           Held(s)' = {}, \A r \in Sids \ {s} : Held(r)' = Held(r)
    PROVE  Promised
<1>1. Phase[s] = "open" /\ Phase[next] = "unborn"
  BY DEF Phase, RegistryTyped
<1>2. Phase' = [Phase EXCEPT ![s] = "ended", ![next] = "open"]
  BY DEF Phase, RegistryTyped
<1>3. Holdings' = [Holdings EXCEPT ![s] = {}]
  BY DEF Holdings
<1>4. Promise!End(s, next)
  BY <1>1, <1>2, <1>3 DEF Promise!End, Phase, Holdings
<1> QED BY <1>4 DEF Promised, Promise!Next

\* A turn adds itself to what its session holds.
LEMMA TracesPromised ==
    ASSUME OneAtATime, TypeInv, TracesPlaced, ServicesCurrent, Tidy, NEW h \in Handlers,
           \/ AppendUser(h) \/ AppendReply(h)
           \/ \E ok \in Outcomes : \/ PersistUser(h, ok) \/ PersistReply(h, ok)
                                   \/ PersistMemories(h, ok)
           \/ \E b \in BOOLEAN : ObserveUser(h, b) \/ ObserveReply(h, b)
    PROVE  Promised
<1> USE DEF objects, state, rows, history, registry
<1>1. /\ pc \in [Handlers -> Steps] /\ job \in [Handlers -> Jobs]
      /\ messages \in [Sids -> Seq(Messages)] /\ adapters \in Seq(Adapters)
  BY DEF TypeInv, HandlersTyped, DataTyped, ObjectsBound
<1>2. pc[h] \in InService /\ pc[h] \in Serving /\ pc[h] \notin Clearing \cup Ends
  BY <1>1 DEF AppendUser, AppendReply, PersistUser, PersistReply, PersistMemories, ObserveUser,
     ObserveReply, Goto, InService, Serving, Running, Clearing, Ends
<1>3. PICK s0 \in Sids, t0 \in Calls : s0 = Home(h) /\ t0 = job[h].call
  BY <1>2, ServingTyped
<1>4. UNCHANGED <<live, used, brain>>
  BY DEF AppendUser, AppendReply, PersistUser, PersistReply, PersistMemories, ObserveUser,
     ObserveReply
<1>5. /\ services[s0] = job[h].svc /\ services[s0] # None
      /\ Runtime(h) \in DOMAIN adapters /\ adapters[Runtime(h)].sid = s0
      /\ Runtime(h) = svc[services[s0]].adapter /\ Runtime(h) # None
      /\ adapters[Runtime(h)] \in Adapters
  BY <1>2, <1>3, ServingTyped DEF ServicesCurrent, HoldsCached, TypeInv, ObjectsBound, Runtime, None
<1>6. s0 \in live /\ brain[s0] = Runtime(h)
  BY <1>2, <1>5, TidyElsewhere DEF ServicesCurrent, OneService, Empty, Clean, MemoryClean
<1>7. ASSUME NEW s \in Sids, s # s0 PROVE Held(s)' = Held(s)
  <2>1. messages'[s] = messages[s]
    BY <1>1, <1>3, <1>7 DEF AppendUser, AppendReply, PersistUser, PersistReply, PersistMemories,
       ObserveUser, ObserveReply, Say
  <2>2. RowsOf(s)' = RowsOf(s)
    BY <1>3, <1>7 DEF AppendUser, AppendReply, PersistUser, PersistReply, PersistMemories,
       ObserveUser, ObserveReply, Persist, RowsOf
  <2>3. brain[s] # None => brain[s] \in DOMAIN adapters /\ brain[s] # Runtime(h)
    BY <1>5, <1>7 DEF TypeInv, ObjectsBound
  <2>4. brain[s] # None => adapters'[brain[s]].holds = adapters[brain[s]].holds
    BY <1>1, <2>3 DEF AppendUser, AppendReply, PersistUser, PersistReply, PersistMemories,
       ObserveUser, ObserveReply, Observe
  <2> QED BY <1>4, <2>1, <2>2, <2>4, HeldStays, RememberedStays
<1>8. ASSUME Held(s0) \subseteq Held(s0)', Held(s0)' \subseteq Held(s0) \cup {t0} PROVE Promised
  BY <1>4, <1>6, <1>7, <1>8, PromisedChange
<1>9. Remembered(s0) = adapters[Runtime(h)].holds
  BY <1>5, <1>6 DEF Remembered
<1>10. CASE AppendUser(h) \/ AppendReply(h)
  <2>1. PICK role \in Roles : Say(h, role)
    BY <1>10 DEF AppendUser, AppendReply, Roles
  <2>2. Said(s0)' \subseteq Said(s0) \cup {t0} /\ Said(s0) \subseteq Said(s0)'
    <3>1. Said(s0)' \subseteq Said(s0) \cup {t0}
      BY <1>2, <1>3, <2>1, SaidGrows
    <3>2. \A i \in DOMAIN messages[s0] : i \in DOMAIN messages'[s0]
                                         /\ messages'[s0][i] = messages[s0][i]
      <4>1. PICK e \in Messages : /\ messages'[s0] = Append(messages[s0], e)
                                  /\ messages[s0] \in Seq(Messages)
        BY <1>2, <1>3, <2>1, SayTyped
      <4> QED BY <4>1, AppendTyped
    <3> QED BY <3>1, <3>2 DEF Said
  <2>3. RowsOf(s0)' = RowsOf(s0) /\ Remembered(s0)' = Remembered(s0)
    BY <1>4, <1>10 DEF AppendUser, AppendReply, RowsOf, Remembered
  <2> QED BY <1>8, <2>2, <2>3 DEF Held, RowsOf
<1>11. CASE \E ok \in Outcomes : PersistUser(h, ok) \/ PersistReply(h, ok)
  <2>1. /\ RowsOf(s0) \subseteq RowsOf(s0)'
        /\ \A r \in RowsOf(s0)' : r \in RowsOf(s0) \/ r.turn = t0
    BY <1>3, <1>11 DEF PersistUser, PersistReply, Persist, RowsOf
  <2>2. Said(s0)' = Said(s0) /\ Remembered(s0)' = Remembered(s0)
    BY <1>4, <1>11 DEF PersistUser, PersistReply, Said, Remembered
  <2> QED BY <1>8, <2>1, <2>2 DEF Held, RowsOf
<1>12. CASE \E ok \in Outcomes : PersistMemories(h, ok)
  <2>1. /\ RowsOf(s0) \subseteq RowsOf(s0)'
        /\ \A r \in RowsOf(s0)' : r \in RowsOf(s0) \/ r.turn \in Remembered(s0)
    BY <1>3, <1>9, <1>12 DEF PersistMemories, RowsOf
  <2>2. Said(s0)' = Said(s0) /\ Remembered(s0)' = Remembered(s0)
    BY <1>4, <1>12 DEF PersistMemories, Said, Remembered
  <2> QED BY <1>8, <2>1, <2>2 DEF Held, RowsOf
<1>13. CASE \E b \in BOOLEAN : ObserveUser(h, b) \/ ObserveReply(h, b)
  <2>1. /\ Remembered(s0) \subseteq Remembered(s0)'
        /\ Remembered(s0)' \subseteq Remembered(s0) \cup {t0}
    <3>1. PICK b \in BOOLEAN : Observe(h, b)
      BY <1>13 DEF ObserveUser, ObserveReply
    <3>2. \/ adapters' = adapters
          \/ adapters'[Runtime(h)].holds = adapters[Runtime(h)].holds \cup {t0}
      BY <1>1, <1>3, <1>5, <3>1 DEF Observe, Adapters
    <3> QED BY <1>4, <1>5, <1>6, <3>2 DEF Remembered
  <2>2. Said(s0)' = Said(s0) /\ RowsOf(s0)' = RowsOf(s0)
    BY <1>13 DEF ObserveUser, ObserveReply, Said, RowsOf
  <2> QED BY <1>8, <2>1, <2>2 DEF Held, RowsOf
<1> QED BY <1>10, <1>11, <1>12, <1>13

\* Another session than the one a handler empties keeps what it holds.
LEMMA OthersHold ==
    ASSUME TypeInv, NEW s0 \in Sids, NEW s \in Sids, s # s0,
           brain'[s] = brain[s], messages'[s] = messages[s],
           \A a \in DOMAIN adapters : adapters'[a].holds = adapters[a].holds,
           \A r \in convRows : r.sid = s => r \in convRows',
           \A r \in memRows : r.sid = s => r \in memRows',
           convRows' \subseteq convRows, memRows' \subseteq memRows
    PROVE  Held(s)' = Held(s)
<1>1. RowsOf(s)' = RowsOf(s)
  BY DEF RowsOf
<1>2. brain[s] # None => brain[s] \in DOMAIN adapters
  BY DEF TypeInv, ObjectsBound
<1> QED BY <1>1, <1>2, HeldStays, RememberedStays

\* A clear takes from its session, which is open unless there was nothing to take.
LEMMA ClearPromised ==
    ASSUME OneAtATime, TypeInv, ServicesCurrent, Tidy, NEW h \in Handlers,
           \/ ClearWithoutService(h) \/ ClearTranscript(h)
           \/ ForgetWithoutService(h) \/ ForgetWithService(h) \/ RenewRuntime(h)
           \/ \E ok \in Outcomes : DeleteConversation(h, ok) \/ ClearMirror(h, ok)
    PROVE  Promised
<1> USE DEF objects, state, rows, history, registry
<1>1. /\ pc \in [Handlers -> Steps] /\ brain \in [Sids -> Nat]
      /\ messages \in [Sids -> Seq(Messages)] /\ adapters \in Seq(Adapters)
  BY DEF TypeInv, HandlersTyped, ObjectsBound, DataTyped
<1>2. pc[h] \in Clearing \cup {"clear", "forget"} /\ pc[h] \notin Ends
  BY DEF ClearWithoutService, ClearTranscript, ForgetWithoutService, ForgetWithService,
     RenewRuntime, DeleteConversation, ClearMirror, Return, Goto, Clearing, Ends
<1>3. PICK s0 \in Sids : s0 = job[h].sid
  BY <1>2, IdleOrCalled DEF Clearing
<1>4. UNCHANGED <<live, used>>
  BY DEF ClearWithoutService, ClearTranscript, ForgetWithoutService, ForgetWithService,
     RenewRuntime, DeleteConversation, ClearMirror
<1>5. s0 \in live \/ Empty(s0)
  <2>1. CASE pc[h] \in Clearing
    BY <1>3, <2>1 DEF ServicesCurrent, OneService, HoldsCached, TypeInv, LocalsBound, LocalsOf,
       ObjectsBound, Serving, None
  <2>2. CASE pc[h] \notin Clearing
    BY <1>2, <1>3, <2>2, TidyElsewhere DEF ServicesCurrent, OneService, Clean, MemoryClean
  <2> QED BY <2>1, <2>2
<1>6. messages' = messages \/ messages' = [messages EXCEPT ![s0] = <<>>]
  BY <1>3 DEF ClearWithoutService, ClearTranscript, ForgetWithoutService, ForgetWithService,
     RenewRuntime, DeleteConversation, ClearMirror, ClearState
<1>7. \/ adapters' = adapters /\ brain' \in {brain, [brain EXCEPT ![s0] = None]}
      \/ NewAdapter(s0) /\ brain' = [brain EXCEPT ![s0] = Len(adapters')]
  BY <1>3 DEF ClearWithoutService, ClearTranscript, ForgetWithoutService, ForgetWithService,
     RenewRuntime, DeleteConversation, ClearMirror, ClearState
<1>8. /\ convRows' \subseteq convRows /\ \A r \in convRows : r.sid # s0 => r \in convRows'
      /\ memRows' \subseteq memRows /\ \A r \in memRows : r.sid # s0 => r \in memRows'
  BY <1>3 DEF ClearWithoutService, ClearTranscript, ForgetWithoutService, ForgetWithService,
     RenewRuntime, DeleteConversation, ClearMirror
<1>9. \A a \in DOMAIN adapters : adapters'[a].holds = adapters[a].holds
  BY <1>7, NewAdapterBound DEF TypeInv
<1>10. ASSUME NEW s \in Sids, s # s0 PROVE Held(s)' = Held(s)
  <2>1. messages'[s] = messages[s] /\ brain'[s] = brain[s]
    BY <1>1, <1>6, <1>7, <1>10
  <2> QED BY <1>8, <1>9, <1>10, <2>1, OthersHold
<1>11. Held(s0)' \subseteq Held(s0)
  <2>1. messages'[s0] \in {messages[s0], <<>>}
    BY <1>1, <1>6
  <2>2. Remembered(s0)' \subseteq Remembered(s0)
    <3>1. CASE adapters' = adapters /\ brain' \in {brain, [brain EXCEPT ![s0] = None]}
      BY <1>1, <3>1 DEF Remembered
    <3>2. CASE NewAdapter(s0) /\ brain' = [brain EXCEPT ![s0] = Len(adapters')]
      <4>1. Len(adapters') = Len(adapters) + 1 /\ Len(adapters) \in Nat
        BY <3>2, NewAdapterBound DEF TypeInv
      <4>2. adapters'[Len(adapters')].holds = {}
        BY <1>1, <3>2, <4>1 DEF NewAdapter
      <4>3. brain'[s0] = Len(adapters')
        BY <1>1, <3>2
      <4>4. Remembered(s0)' = {}
        BY <4>2, <4>3 DEF Remembered
      <4> QED BY <4>4
    <3> QED BY <1>7, <3>1, <3>2
  <2>3. RowsOf(s0)' \subseteq RowsOf(s0)
    BY <1>8 DEF RowsOf
  <2> QED BY <2>1, <2>2, <2>3, HeldShrinks
<1>12. Empty(s0) => Held(s0) = {}
  BY DEF Empty, NoRows, Held, Said, Remembered
<1> QED BY <1>4, <1>5, <1>10, <1>11, <1>12, PromisedChange

\* An end takes all that its session holds and replaces it by a fresh one.
LEMMA EndPromised ==
    ASSUME OneAtATime, TypeInv, ServicesCurrent, Tidy, NEW h \in Handlers,
           \/ \E ok \in Outcomes : EndConversations(h, ok) \/ EndMirror(h, ok)
           \/ EndSession(h)
    PROVE  Promised
<1> USE DEF objects, state, rows, history, registry
<1>1. /\ pc \in [Handlers -> Steps] /\ brain \in [Sids -> Nat]
      /\ messages \in [Sids -> Seq(Messages)]
  BY DEF TypeInv, HandlersTyped, ObjectsBound, DataTyped
<1>2. pc[h] \in Ends /\ pc[h] # "idle"
  BY DEF EndConversations, EndMirror, EndSession, Return, Goto, Ends
<1>3. PICK s0 \in Sids : s0 = job[h].sid
  BY <1>2, IdleOrCalled
<1>4. s0 \in live \/ Empty(s0)
  BY <1>2, <1>3 DEF Tidy, SoFar, EndedSoFar
<1>5. \A s \in Sids : Empty(s) => Held(s) = {}
  BY DEF Empty, NoRows, Held, Said, Remembered
<1>6. CASE \E ok \in Outcomes : EndConversations(h, ok) \/ EndMirror(h, ok)
  <2>1. /\ UNCHANGED <<live, used, messages, brain, adapters>>
        /\ convRows' \subseteq convRows /\ \A r \in convRows : r.sid # s0 => r \in convRows'
        /\ memRows' \subseteq memRows /\ \A r \in memRows : r.sid # s0 => r \in memRows'
    BY <1>3, <1>6 DEF EndConversations, EndMirror
  <2>2. \A s \in Sids \ {s0} : Held(s)' = Held(s)
    BY <2>1, OthersHold
  <2>3. Held(s0)' \subseteq Held(s0)
    BY <2>1, HeldShrinks DEF RowsOf, Remembered
  <2> QED BY <1>4, <1>5, <2>1, <2>2, <2>3, PromisedChange
<1>7. CASE EndSession(h)
  <2>1. /\ pc[h] = "end" /\ NewSid \notin used /\ used' = used \cup {NewSid}
        /\ live' = (live \ {s0}) \cup {NewSid}
        /\ UNCHANGED <<services, adapters, convRows, memRows>>
        /\ IF s0 \in live THEN ClearState(s0) ELSE UNCHANGED <<messages, brain>>
    BY <1>1, <1>3, <1>7 DEF EndSession, Return, Goto, Start
  <2>2. NewSid \in Sids
    BY <1>3, NewSidTyped DEF TypeInv
  <2>3. ASSUME NEW s \in Sids, s # s0 PROVE Held(s)' = Held(s)
    <3>1. messages'[s] = messages[s] /\ brain'[s] = brain[s]
      BY <1>1, <2>1, <2>3 DEF ClearState
    <3> QED BY <2>1, <2>3, <3>1, OthersHold
  <2>4. CASE s0 \in live
    <3>1. \A r \in convRows' \cup memRows' : r.sid # s0
      BY <1>3, <2>1 DEF Tidy, SoFar, EndedSoFar
    <3>2. messages'[s0] = <<>> /\ brain'[s0] = None
      BY <1>1, <2>1, <2>4 DEF ClearState, None
    <3>3. Held(s0)' = {}
      BY <3>1, <3>2 DEF Held, Said, Remembered
    <3> QED BY <2>1, <2>2, <2>3, <2>4, <3>3, PromisedEnd DEF TypeInv
  <2>5. CASE s0 \notin live
    <3>1. RowsOf(s0)' = RowsOf(s0) /\ Remembered(s0)' = Remembered(s0)
      BY <2>1, <2>5 DEF RowsOf, Remembered
    <3>2. \A s \in Sids : Held(s)' = Held(s)
      BY <2>1, <2>3, <2>5, <3>1, HeldStays
    <3> QED BY <2>1, <2>2, <2>5, <3>2, PromisedOpening DEF TypeInv
  <2> QED BY <2>4, <2>5
<1> QED BY <1>6, <1>7

\* A step that touches no transcript, row or memory takes nothing and adds nothing.
LEMMA NothingHeld ==
    ASSUME TypeInv, UNCHANGED <<messages, brain, convRows, memRows>>,
           \A a \in DOMAIN adapters : adapters'[a].holds = adapters[a].holds,
           UNCHANGED registry \/ \E asked \in Sids : EnsureSession(asked)
    PROVE  Promised
<1>1. ASSUME NEW s \in Sids PROVE Held(s)' = Held(s)
  <2>1. RowsOf(s)' = RowsOf(s)
    BY DEF RowsOf
  <2>2. brain[s] # None => brain[s] \in DOMAIN adapters
    BY DEF TypeInv, ObjectsBound
  <2> QED BY <2>1, <2>2, HeldStays, RememberedStays
<1>2. \A asked \in Sids : NewSid \in Sids
  BY NewSidTyped DEF TypeInv
<1> QED BY <1>1, <1>2, PromisedOpening DEF EnsureSession, Start, registry, TypeInv

\* A runtime is attached to a session that held nothing before it has seen any turn.
LEMMA AttachPromised ==
    ASSUME OneAtATime, TypeInv, ServicesCurrent, Tidy, NEW h \in Handlers, AttachRuntime(h)
    PROVE  Promised
<1>1. /\ pc[h] = "attach" /\ adapters[job[h].adapter].holds = {}
      /\ brain' = [brain EXCEPT ![job[h].at] = job[h].adapter]
      /\ UNCHANGED <<live, used, messages, adapters, convRows, memRows>>
  BY DEF AttachRuntime, Goto, registry, rows, Tidy, SoFar, RuntimeFresh
<1>2. PICK s0 \in Sids : s0 = job[h].at
  BY <1>1 DEF TypeInv, LocalsBound, LocalsOf
<1>3. Empty(s0)
  BY <1>1, <1>2, TidyElsewhere DEF ServicesCurrent, HoldsCached, Clean, MemoryClean, Clearing, Ends
<1>4. brain \in [Sids -> Nat]
  BY DEF TypeInv, ObjectsBound
<1>5. ASSUME NEW s \in Sids PROVE Held(s)' = Held(s)
  <2>1. RowsOf(s)' = RowsOf(s)
    BY <1>1 DEF RowsOf
  <2>2. Remembered(s)' = Remembered(s)
    <3>1. CASE s = s0
      BY <1>1, <1>2, <1>3, <1>4, <3>1 DEF Remembered, Empty
    <3>2. CASE s # s0
      BY <1>1, <1>2, <1>4, <3>2 DEF Remembered
    <3> QED BY <3>1, <3>2
  <2> QED BY <1>1, <2>1, <2>2, HeldStays
<1> QED BY <1>1, <1>5, PromisedOpening DEF TypeInv

\* Every step of ChatSession is one of SessionData, or changes nothing it speaks of.
LEMMA PromiseStep ==
    ASSUME OneAtATime, TypeInv, TracesPlaced, ServicesCurrent, Tidy, [Next]_vars
    PROVE  Promised
<1> USE DEF objects, state, rows, history
<1>1. ASSUME NEW h \in Handlers, Chat(h) \/ Clear(h) \/ End(h) \/ Provider(h)
      PROVE  Promised
  <2>1. pc \in [Handlers -> Steps]
    BY DEF TypeInv, HandlersTyped
  <2>2. CASE \E asked \in Sids :
                 \/ BeginChat(h, asked) \/ BeginClear(h, asked) \/ BeginForget(h, asked)
                 \/ BeginEnd(h, asked) \/ BeginDisconnect(h, asked)
                 \/ \E k : BeginConnect(h, asked, k)
    BY <2>2, NothingHeld DEF BeginChat, BeginClear, BeginForget, BeginEnd, BeginDisconnect,
       BeginConnect
  <2>3. CASE \/ Refuse(h) \/ ServiceFound(h) \/ BindRuntime(h) \/ RuntimeUnavailable(h)
             \/ BuildContext(h) \/ SkipProvider(h) \/ Generate(h) \/ CachedClient(h)
             \/ BuildClient(h) \/ CacheClient(h) \/ ProviderFails(h) \/ Raise(h)
             \/ FinishChat(h) \/ FinishConnect(h) \/ FinishDisconnect(h)
             \/ \E b \in BOOLEAN : Reply(h, b)
    BY <2>3, NothingHeld DEF Refuse, ServiceFound, BindRuntime, RuntimeUnavailable, BuildContext,
       SkipProvider, Generate, CachedClient, BuildClient, CacheClient, ProviderFails, Raise,
       FinishChat, FinishConnect, FinishDisconnect, Reply
  <2>4. CASE ServiceMissing(h)
    <3>1. job[h].sid \in Sids
      BY <2>1, <2>4, IdleOrCalled DEF ServiceMissing, Goto
    <3> QED BY <2>4, <3>1, NothingHeld DEF ServiceMissing
  <2>5. CASE NewRuntime(h)
    <3>1. job[h].at \in Sids
      BY <2>1, <2>5 DEF NewRuntime, Goto, TypeInv, LocalsBound, LocalsOf
    <3>2. \A a \in DOMAIN adapters : adapters'[a] = adapters[a]
      BY <2>5, <3>1, NewAdapterBound DEF NewRuntime, TypeInv
    <3> QED BY <2>5, <3>2, NothingHeld DEF NewRuntime
  <2>6. CASE AttachRuntime(h)
    BY <2>6, AttachPromised
  <2>7. CASE \/ AppendUser(h) \/ AppendReply(h)
             \/ \E ok \in Outcomes : \/ PersistUser(h, ok) \/ PersistReply(h, ok)
                                     \/ PersistMemories(h, ok)
             \/ \E b \in BOOLEAN : ObserveUser(h, b) \/ ObserveReply(h, b)
    BY <2>7, TracesPromised
  <2>8. CASE \/ ClearWithoutService(h) \/ ClearTranscript(h)
             \/ ForgetWithoutService(h) \/ ForgetWithService(h) \/ RenewRuntime(h)
             \/ \E ok \in Outcomes : DeleteConversation(h, ok) \/ ClearMirror(h, ok)
    BY <2>8, ClearPromised
  <2>9. CASE \/ \E ok \in Outcomes : EndConversations(h, ok) \/ EndMirror(h, ok)
             \/ EndSession(h)
    BY <2>9, EndPromised
  <2> QED BY <1>1, <2>2, <2>3, <2>4, <2>5, <2>6, <2>7, <2>8, <2>9 DEF Chat, Clear, End, Provider
<1>2. CASE UNCHANGED vars
  BY <1>2, NothingHeld DEF vars
<1> QED BY <1>1, <1>2 DEF Next, Rest

\* If callbacks run one after the other and the stores do not fail, the application
\* implements SessionData: a session holds turns only while it is open, clearing only takes
\* away, and an ended session leaves nothing behind for good.
THEOREM PromiseKept ==
    ASSUME OneAtATime, StoreOutcomes = {TRUE}
    PROVE  Spec => KeepsPromise
<1>1. Init => Promise!Init
  <2> SUFFICES ASSUME Init PROVE Promise!Init
    OBVIOUS
  <2>1. Phase \in [Sids -> {"unborn", "open"}]
    BY DEF Init, Phase
  <2>2. \A s \in Sids : Held(s) = {}
    BY DEF Init, Held, Said, Remembered
  <2> QED BY <2>1, <2>2 DEF Promise!Init, Phase
<1>2. TypeInv /\ TracesPlaced /\ SerialInv /\ ForgettingInv /\ [Next]_vars
          => [Promise!Next]_(Promise!vars)
  BY PromiseStep DEF SerialInv, ForgettingInv, Promised
<1> QED BY <1>1, <1>2, SerialHolds, ForgettingHolds, PTL DEF Spec, KeepsPromise, Promise!Spec
===============================================================================
