------------------------------ MODULE ChatBudget ------------------------------
(***************************************************************************)
(* Cost control of the chat path: app/limits.py, and the part of           *)
(* app/controller.py and app/state.py that creates, checks, charges and    *)
(* drops a session's ChatBudget.  Several handler threads may run the chat *)
(* callback of one session at the same time (the Send button and the text  *)
(* box's submit are two events), so checking a ceiling and counting        *)
(* against it are separate steps.                                          *)
(*                                                                         *)
(* A limit of 0 means "no ceiling", as in the code.                        *)
(***************************************************************************)
EXTENDS Naturals, FiniteSets

CONSTANTS
    Handlers,         \* handler threads that can run a callback at once
    Sids,             \* sessions
    LimitSets,        \* the ChatLimits an operator or a visitor configures
    PromptCosts,      \* sizes, in tokens, of the prompts build_context returns
    CompletionCosts,  \* sizes, in tokens, a provider reports for a completion
    MaxCost,          \* the most one turn can cost: a prompt and a completion
    MaxChats,         \* bound: chat calls in a behaviour
    MaxBudgets,       \* bound: ChatBudget objects in a behaviour
    MaxUpdates        \* bound: update_costs calls in a behaviour

Limits == [turns: Nat, requests: Nat, tokens: Nat, input: Nat]

ASSUME HandlersFinite  == IsFiniteSet(Handlers)
ASSUME LimitSetsTyped  == LimitSets \subseteq Limits
ASSUME CostsTyped      == PromptCosts \subseteq Nat /\ CompletionCosts \subseteq Nat
ASSUME CostsBounded    == MaxCost \in Nat /\ \A p \in PromptCosts, c \in CompletionCosts :
                                                p + c <= MaxCost
ASSUME NoUsageReported == 0 \in CompletionCosts
ASSUME BoundsTyped     == MaxChats \in Nat /\ MaxBudgets \in Nat /\ MaxUpdates \in Nat

NoBudget  == 0
BudgetIds == 1..MaxBudgets

VARIABLES
    limits,   \* UIController.limits: one object for every session
    usage,    \* SessionState.usage of each session: its budget or NoBudget
    budget,   \* the ChatBudget objects
    made,     \* how many ChatBudget objects exist
    pc,       \* where each handler stands in UIController.chat
    job,      \* the locals of that call: session, budget, prompt, completion
    chats,    \* chat calls so far (bound only)
    updates   \* update_costs calls so far (bound only)

vars == <<limits, usage, budget, made, pc, job, chats, updates>>

-------------------------------------------------------------------------------
(* ChatBudget's counters and methods.                                      *)

Counters == [limits: Limits, turns: Nat, requests: Nat, tokens: Nat,
             refused: Nat, timeouts: Nat]

FreshBudget(l) == [limits |-> l, turns |-> 0, requests |-> 0, tokens |-> 0,
                   refused |-> 0, timeouts |-> 0]

\* Mutant: the ceiling itself is still allowed.
Reached_Above(limit, used) == limit # 0 /\ used > limit

Reached(limit, used) == limit # 0 /\ used >= limit

\* Mutants: a check_turn that forgets one ceiling.
Exhausted_NoRequests(c, l) == Reached(l.turns, c.turns) \/ Reached(l.tokens, c.tokens)
Exhausted_NoTokens(c, l) == Reached(l.turns, c.turns) \/ Reached(l.requests, c.requests)

\* check_turn raises ChatLimitExceeded exactly when a ceiling is reached.
Exhausted(c, l) == \/ Reached(l.turns, c.turns)
                   \/ Reached(l.requests, c.requests)
                   \/ Reached(l.tokens, c.tokens)

FitsPrompt(l, prompt) == l.input = 0 \/ prompt <= l.input

RecordedTurn(c)    == [c EXCEPT !.turns = @ + 1]
RecordedRefusal(c) == [c EXCEPT !.refused = @ + 1]

\* Mutant: the prompt's estimate is given back instead of spent.
Charged_Refund(c, prompt, completion, timedOut) ==
    [c EXCEPT !.requests = @ + 1, !.tokens = @ + completion - prompt]

Charged(c, prompt, completion, timedOut) ==
    [c EXCEPT !.requests = @ + 1,
              !.tokens   = @ + prompt + completion,
              !.timeouts = @ + (IF timedOut THEN 1 ELSE 0)]

-------------------------------------------------------------------------------
(* The chat callback, as far as the budget is concerned.                   *)

Steps == {"idle", "ensure", "create", "check", "serve", "turn", "built",
          "sent", "answered", "charged"}

Jobs == [sid: Sids, budget: {NoBudget} \cup BudgetIds, prompt: Nat,
         completion: Nat, timedOut: BOOLEAN]

TypeOK ==
    /\ limits \in Limits
    /\ usage \in [Sids -> {NoBudget} \cup BudgetIds]
    /\ budget \in [BudgetIds -> Counters]
    /\ made \in 0..MaxBudgets
    /\ pc \in [Handlers -> Steps]
    /\ job \in [Handlers -> Jobs]
    /\ chats \in 0..MaxChats
    /\ updates \in 0..MaxUpdates

Init ==
    /\ limits \in LimitSets
    /\ usage = [s \in Sids |-> NoBudget]
    /\ budget = [b \in BudgetIds |-> FreshBudget(limits)]
    /\ made = 0
    /\ pc = [h \in Handlers |-> "idle"]
    /\ \E s \in Sids : job = [h \in Handlers |-> [sid |-> s, budget |-> NoBudget,
                              prompt |-> 0, completion |-> 0, timedOut |-> FALSE]]
    /\ chats = 0
    /\ updates = 0

Goto(h, from, to) == pc[h] = from /\ pc' = [pc EXCEPT ![h] = to]

\* A message that is neither empty nor too long starts a turn on a session.
Begin(h, s) ==
    /\ chats < MaxChats
    /\ Goto(h, "idle", "ensure")
    /\ job' = [job EXCEPT ![h] = [sid |-> s, budget |-> NoBudget, prompt |-> 0,
                                  completion |-> 0, timedOut |-> FALSE]]
    /\ chats' = chats + 1
    /\ UNCHANGED <<limits, usage, budget, made, updates>>

\* _ensure_budget reads state.usage ...
EnsureFound(h) ==
    /\ Goto(h, "ensure", "check")
    /\ usage[job[h].sid] # NoBudget
    /\ job' = [job EXCEPT ![h].budget = usage[job[h].sid]]
    /\ UNCHANGED <<limits, usage, budget, made, chats, updates>>

EnsureMissing(h) ==
    /\ Goto(h, "ensure", "create")
    /\ usage[job[h].sid] = NoBudget
    /\ UNCHANGED <<limits, usage, budget, made, job, chats, updates>>

\* ... and, having seen none, stores a new one, whatever another handler did.
EnsureCreate(h) ==
    /\ Goto(h, "create", "check")
    /\ made < MaxBudgets
    /\ made' = made + 1
    /\ budget' = [budget EXCEPT ![made'] = FreshBudget(limits)]
    /\ usage' = [usage EXCEPT ![job[h].sid] = made']
    /\ job' = [job EXCEPT ![h].budget = made']
    /\ UNCHANGED <<limits, chats, updates>>

Mine(h) == budget[job[h].budget]

Refuse(h) ==
    /\ Goto(h, "check", "idle")
    /\ Exhausted(Mine(h), Mine(h).limits)
    /\ budget' = [budget EXCEPT ![job[h].budget] = RecordedRefusal(@)]
    /\ UNCHANGED <<limits, usage, made, job, chats, updates>>

Admit(h) ==
    /\ Goto(h, "check", "serve")
    /\ ~Exhausted(Mine(h), Mine(h).limits)
    /\ UNCHANGED <<limits, usage, budget, made, job, chats, updates>>

\* The session's service cannot be built (BrainOS missing): no turn counted.
ServiceUnavailable(h) ==
    /\ Goto(h, "serve", "idle")
    /\ UNCHANGED <<limits, usage, budget, made, job, chats, updates>>

RecordTurn(h) ==
    /\ Goto(h, "serve", "turn")
    /\ budget' = [budget EXCEPT ![job[h].budget] = RecordedTurn(@)]
    /\ UNCHANGED <<limits, usage, made, job, chats, updates>>

\* handle_user_message assembles the prompt; nothing compares it to a ceiling.
Build(h, prompt) ==
    /\ Goto(h, "turn", "built")
    /\ job' = [job EXCEPT ![h].prompt = prompt]
    /\ UNCHANGED <<limits, usage, budget, made, chats, updates>>

Send(h) ==
    /\ Goto(h, "built", "sent")
    /\ UNCHANGED <<limits, usage, budget, made, job, chats, updates>>

\* _can_generate is false: the turn ends without a reply and is still charged.
SkipProvider(h) ==
    /\ Goto(h, "built", "answered")
    /\ UNCHANGED <<limits, usage, budget, made, job, chats, updates>>

\* The provider answered; what it does not report is counted as 0.  A reported
\* prompt size replaces the estimate.
Answer(h, prompt, completion) ==
    /\ Goto(h, "sent", "answered")
    /\ job' = [job EXCEPT ![h].prompt = prompt, ![h].completion = completion]
    /\ UNCHANGED <<limits, usage, budget, made, chats, updates>>

\* A timeout or a ProviderError: usage says failed, the prompt is charged.
Fail(h, timedOut) ==
    /\ Goto(h, "sent", "answered")
    /\ job' = [job EXCEPT ![h].timedOut = timedOut]
    /\ UNCHANGED <<limits, usage, budget, made, chats, updates>>

\* Any other exception leaves chat before the budget is charged.
Raise(h) ==
    /\ pc[h] \in {"turn", "sent"}
    /\ pc' = [pc EXCEPT ![h] = "idle"]
    /\ UNCHANGED <<limits, usage, budget, made, job, chats, updates>>

\* Mutant: the budget is read again, after the session may have got another.
Charge_Reread(h) ==
    /\ Goto(h, "answered", "charged")
    /\ budget' = IF usage[job[h].sid] = NoBudget THEN budget
                 ELSE [budget EXCEPT ![usage[job[h].sid]] =
                           Charged(@, job[h].prompt, job[h].completion, job[h].timedOut)]
    /\ UNCHANGED <<limits, usage, made, job, chats, updates>>

Charge(h) ==
    /\ Goto(h, "answered", "charged")
    /\ budget' = [budget EXCEPT ![job[h].budget] =
                      Charged(@, job[h].prompt, job[h].completion, job[h].timedOut)]
    /\ UNCHANGED <<limits, usage, made, job, chats, updates>>

\* The controller's current limits, not the budget's, decide the last check.
FlagLargePrompt(h) ==
    /\ Goto(h, "charged", "idle")
    /\ budget' = IF FitsPrompt(limits, job[h].prompt)
                 THEN budget
                 ELSE [budget EXCEPT ![job[h].budget] = RecordedRefusal(@)]
    /\ UNCHANGED <<limits, usage, made, job, chats, updates>>

Chat(h) ==
    \/ \E s \in Sids : Begin(h, s)
    \/ EnsureFound(h) \/ EnsureMissing(h) \/ EnsureCreate(h)
    \/ Refuse(h) \/ Admit(h)
    \/ ServiceUnavailable(h) \/ RecordTurn(h)
    \/ \E p \in PromptCosts : Build(h, p)
    \/ Send(h) \/ SkipProvider(h)
    \/ \E p \in PromptCosts, c \in CompletionCosts : Answer(h, p, c)
    \/ \E timedOut \in BOOLEAN : Fail(h, timedOut)
    \/ Raise(h)
    \/ Charge(h) \/ FlagLargePrompt(h)

-------------------------------------------------------------------------------
(* The other callbacks that touch budgets.                                 *)

\* SessionState.clear_conversation (also reached through end_session).
ClearConversation(s) ==
    /\ usage' = [usage EXCEPT ![s] = NoBudget]
    /\ UNCHANGED <<limits, budget, made, pc, job, chats, updates>>

\* Mutant: existing budgets get the new limits too.
UpdateCosts_Live(tokens, input) ==
    /\ updates < MaxUpdates
    /\ limits' = [limits EXCEPT !.tokens = tokens, !.input = input]
    /\ budget' = [b \in BudgetIds |-> [budget[b] EXCEPT !.limits = limits']]
    /\ updates' = updates + 1
    /\ UNCHANGED <<usage, made, pc, job, chats>>

\* update_costs replaces the controller's limits; the turn and request
\* ceilings are carried over, existing budgets keep the limits they have.
UpdateCosts(tokens, input) ==
    /\ updates < MaxUpdates
    /\ limits' = [limits EXCEPT !.tokens = tokens, !.input = input]
    /\ updates' = updates + 1
    /\ UNCHANGED <<usage, budget, made, pc, job, chats>>

Next ==
    \/ \E h \in Handlers : Chat(h)
    \/ \E s \in Sids : ClearConversation(s)
    \/ \E l \in LimitSets : UpdateCosts(l.tokens, l.input)

Spec == Init /\ [][Next]_vars

-------------------------------------------------------------------------------
(* What the ceilings guarantee.                                            *)

Width == Cardinality(Handlers)

\* A turn is admitted and counted in two steps, so several handlers can pass
\* check_turn together.  The count still ends less than one turn per handler
\* beyond max_turns, and never beyond it when callbacks run one at a time.
TurnsBounded ==
    \A b \in BudgetIds : budget[b].limits.turns # 0 =>
        budget[b].turns < budget[b].limits.turns + Width

\* The same for max_session_requests, whose count is only raised by charge,
\* after the provider has answered.
RequestsBounded ==
    \A b \in BudgetIds : budget[b].limits.requests # 0 =>
        budget[b].requests < budget[b].limits.requests + Width

\* Tokens are known only after they are spent: the session total passes
\* max_session_tokens by less than one whole turn per handler.
TokensBounded ==
    \A b \in BudgetIds : budget[b].limits.tokens # 0 =>
        budget[b].tokens < budget[b].limits.tokens + Width * MaxCost

\* A request is charged only for a turn that was counted, on the same budget,
\* even if the budget was dropped or replaced while the turn ran.
NoRequestWithoutTurn ==
    \A b \in BudgetIds : budget[b].requests <= budget[b].turns

\* "exhausting max_turns ... refuses subsequent turns until the user clears
\* the conversation": nothing, update_costs included, reopens a budget.
ExhaustionIsFinal ==
    [][\A b \in BudgetIds : b <= made /\ Exhausted(budget[b], budget[b].limits)
            => Exhausted(budget'[b], budget'[b].limits)]_vars

\* app/limits.py: a turn whose prompt exceeds max_input_tokens is "refused
\* before the provider is called".
LargePromptNotSent ==
    \A h \in Handlers : pc[h] = "sent" => FitsPrompt(Mine(h).limits, job[h].prompt)
===============================================================================
