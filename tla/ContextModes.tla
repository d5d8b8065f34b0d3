------------------------------ MODULE ContextModes ------------------------------
(***************************************************************************)
(* The context strategies (baselines/modes.py, baselines/ablations.py),    *)
(* the settings of one session that name one of them (ContextSettings,     *)
(* app/state.py), and the two clients that change the settings: the        *)
(* Gradio sidebar, with its mode selector and its form of sliders, and the *)
(* REST API, which switches the mode before a message.                     *)
(*                                                                         *)
(* Budgets are tokens and messages in small units; the six knobs that an   *)
(* ablation overrides have the value of the defaults, one the visitor      *)
(* chose, or the one that removes the component.                           *)
(***************************************************************************)
EXTENDS Integers, FiniteSets, Functions

CONSTANTS
    Offered,       \* the modes the clients ask for
    RecentTurns, RecentBudget, SlidingTurns, Evidence, \* baselines/modes.py
    DefaultCeiling, \* ContextSettings.max_tokens
    Ceilings,      \* bound: the values of the max_tokens slider
    Windows,       \* bound: the values of the recent-history slider
    EvidenceSizes, \* bound: the values of the memory and chunk sliders
    MaxRequests,   \* bound: requests of the sidebar served at a time
    MaxEvents,     \* bound: clicks and edits of a visitor
    Unlimited      \* no turn limit

ASSUME BudgetsTyped ==
    {RecentTurns, RecentBudget, SlidingTurns, Evidence, DefaultCeiling}
        \cup Ceilings \cup Windows \cup EvidenceSizes \subseteq Nat

Baselines == {"full_context", "sliding_window", "rag", "brainos", "brainos_rag"}
Knobs == {"weight_recency", "relevance_floor", "relative_relevance_ratio",
          "resolve_conflicts", "drop_stale_memories", "heuristic_conflict_detection"}

\* policy_overrides: what each ablation switches off.
Overrides ==
    [brainos_no_temporal  |-> {"weight_recency"},
     brainos_no_relevance |-> {"relevance_floor", "relative_relevance_ratio"},
     brainos_no_conflict  |-> {"resolve_conflicts", "drop_stale_memories",
                               "heuristic_conflict_detection"},
     brainos_no_memory    |-> {}]
Ablations == DOMAIN Overrides
Modes     == Baselines \cup Ablations

\* The alias of an earlier version is still understood.
ASSUME OfferedTyped == Offered \subseteq Modes \cup {"no_memory"}

\* resolve_mode: the mode an old selector value stands for.
Resolve(m) == IF m = "no_memory" THEN "sliding_window" ELSE m

UsesMemory(m) == Resolve(m) \in {"brainos", "brainos_rag"} \cup (Ablations \ {"brainos_no_memory"})
UsesRag(m)    == Resolve(m) \in {"rag", "brainos_rag"}

\* The fields of b over those of s.
Over(b, s) == [f \in DOMAIN b \cup DOMAIN s |-> IF f \in DOMAIN b THEN b[f] ELSE s[f]]

\* Mutant: the two memory-free modes keep whatever evidence budgets they find.
BudgetOverrides_Narrow(m, max) ==
    Over([turns  |-> CASE m = "full_context" -> Unlimited
                       [] m = "sliding_window" -> SlidingTurns
                       [] OTHER -> RecentTurns,
          window |-> IF m \in {"full_context", "sliding_window"} THEN max ELSE RecentBudget],
         IF UsesMemory(m) \/ UsesRag(m)
         THEN [memory |-> IF UsesMemory(m) THEN Evidence ELSE 0,
               chunk  |-> IF UsesRag(m) THEN Evidence ELSE 0]
         ELSE <<>>)

\* budget_overrides(): the settings a mode fixes.  Modes A and B take their history
\* budget from the ceiling; the hybrid halves the evidence budget.
BudgetOverrides(m, max) ==
    [turns  |-> CASE m = "full_context" -> Unlimited
                  [] m = "sliding_window" -> SlidingTurns
                  [] OTHER -> RecentTurns,
     window |-> IF m \in {"full_context", "sliding_window"} THEN max ELSE RecentBudget,
     memory |-> CASE m = "brainos_rag" -> Evidence \div 2
                  [] UsesMemory(m) /\ ~UsesRag(m) -> Evidence
                  [] OTHER -> 0,
     chunk  |-> CASE m = "brainos_rag" -> Evidence - Evidence \div 2
                  [] UsesRag(m) /\ ~UsesMemory(m) -> Evidence
                  [] OTHER -> 0]

Defaults == [k \in Knobs |-> "default"]

\* Settings as ContextSettings() makes them: Mode D.
NewSettings ==
    Over(BudgetOverrides("brainos", DefaultCeiling),
         [mode |-> "brainos", max |-> DefaultCeiling, knobs |-> Defaults])

\* with_mode_defaults(): an ablation's knobs are removed on the way in; on the way
\* from an ablation to a baseline they get their defaults back.
WithModeDefaults(s, m) ==
    LET knobs == CASE m \in Ablations ->
                          [k \in Knobs |-> IF k \in Overrides[m] THEN "removed" ELSE s.knobs[k]]
                   [] m \notin Ablations /\ s.mode \in Ablations -> Defaults
                   [] OTHER -> s.knobs
    IN  Over(BudgetOverrides(m, s.max), [s EXCEPT !.mode = m, !.knobs = knobs])

SettingsType ==
    [mode : Modes \cup {"no_memory"}, max : Nat, turns : Nat \cup {Unlimited}, window : Nat,
     memory : Nat, chunk : Nat, knobs : [Knobs -> {"default", "tuned", "removed"}]]

\* The form's sliders, and the knobs among them.
Sliders   == {"max", "turns", "window", "memory", "chunk"}
FormKnobs == {"relevance_floor", "resolve_conflicts", "drop_stale_memories"}

VARIABLES
    settings, \* SessionState.context
    form,     \* what the sidebar shows
    edited,   \* the form shows values that were not applied
    requests, \* the sidebar's requests the server has not answered
    tuned,    \* history: the visitor set the evidence budgets by hand
    changed,  \* history: the settings were replaced since the turn in flight began
    events    \* bound: clicks and edits left

modeVars == <<settings, form, edited, requests, tuned, changed, events>>

\* A request names the fields it sets; read is its copy of the settings, once it has one.
NoCopy == [mode |-> ""]
Request(kind, fields) == [kind |-> kind, fields |-> fields, read |-> NoCopy]

ModesInit(s) ==
    /\ settings = s
    /\ form = [s EXCEPT !.knobs = Restrict(s.knobs, FormKnobs)]
    /\ edited = FALSE /\ requests = {}
    /\ tuned = FALSE /\ changed = FALSE /\ events = MaxEvents

Clicked == events > 0 /\ events' = events - 1
Free    == Cardinality(requests) < MaxRequests

\* The visitor moves a slider.
EditForm ==
    /\ Clicked /\ edited' = TRUE
    /\ \/ \E v \in Ceilings : form' = [form EXCEPT !.max = v]
       \/ \E v \in Windows : form' = [form EXCEPT !.window = v]
       \/ \E v \in EvidenceSizes : form' = [form EXCEPT !.memory = v]
       \/ \E v \in EvidenceSizes : form' = [form EXCEPT !.chunk = v]
       \/ \E k \in FormKnobs : form' = [form EXCEPT !.knobs[k] = "tuned"]
    /\ UNCHANGED <<settings, requests, tuned, changed>>

\* The selector's change event, whose answer moves the sliders.
SelectMode ==
    /\ Clicked /\ Free
    /\ \E m \in Offered \ {form.mode} :
         /\ form' = [form EXCEPT !.mode = m]
         /\ requests' = requests \cup {Request("mode", [mode |-> m])}
    /\ UNCHANGED <<settings, edited, tuned, changed>>

\* The Apply button submits the mode together with every slider.
SubmitForm ==
    /\ Clicked /\ Free
    /\ requests' = requests \cup {Request("form", form)}
    /\ edited' = FALSE
    /\ UNCHANGED <<settings, form, tuned, changed>>

\* replace(state.context, **fields)
Replaced(s, fields) ==
    [f \in DOMAIN s |-> IF f \notin DOMAIN fields THEN s[f]
                         ELSE IF f = "knobs" THEN Over(fields.knobs, s.knobs)
                         ELSE fields[f]]

Rewrites(now, fields) == Resolve(fields.mode) # now.mode

\* update_context: the fields are set on a copy; if the mode they name is not the
\* session's, which is read again, its values win over the fields.
Requested(read, now, fields) ==
    IF Rewrites(now, fields)
    THEN WithModeDefaults(Replaced(read, fields), Resolve(fields.mode))
    ELSE Replaced(read, fields)

\* A handler takes its copy of the settings.
ReadSettings ==
    \E r \in requests :
        /\ r.read = NoCopy
        /\ requests' = (requests \ {r}) \cup {[r EXCEPT !.read = settings]}
        /\ UNCHANGED <<settings, form, edited, tuned, changed, events>>

\* What the sidebar shows of the settings: the mode is the selector's own value.
Shown(s) == [s EXCEPT !.mode = form.mode, !.knobs = form.knobs]

\* Mutant: the selector's answer shows the settings as they were.
WriteSettings_OldSliders ==
    \E r \in requests :
        /\ r.read # NoCopy
        /\ settings' = Requested(r.read, settings, r.fields)
        /\ requests' = requests \ {r}
        /\ form' = IF r.kind = "mode" THEN Shown(settings) ELSE form
        /\ tuned' = IF Rewrites(settings, r.fields) THEN FALSE
                    ELSE tuned \/ r.kind = "form"
        /\ changed' = TRUE
        /\ UNCHANGED <<edited, events>>

\* The settings are replaced.  The selector's answer shows them in the form, the form's
\* is a line of status.
WriteSettings ==
    \E r \in requests :
        /\ r.read # NoCopy
        /\ settings' = Requested(r.read, settings, r.fields)
        /\ requests' = requests \ {r}
        /\ form' = IF r.kind = "mode" THEN Shown(settings') ELSE form
        /\ tuned' = IF Rewrites(settings, r.fields) THEN FALSE
                    ELSE tuned \/ r.kind = "form"
        /\ changed' = TRUE
        /\ UNCHANGED <<edited, events>>

\* The API applies the mode of a message before it chats; an unknown one is ignored.
ApiMode(m) ==
    /\ settings' = Requested(settings, settings, [mode |-> m])
    /\ changed' = TRUE
    /\ tuned' = IF Rewrites(settings, [mode |-> m]) THEN FALSE ELSE tuned
    /\ UNCHANGED <<form, edited, requests>>

Sidebar == EditForm \/ SelectMode \/ SubmitForm \/ ReadSettings \/ WriteSettings

-----------------------------------------------------------------------------
\* A session that is not in an ablation runs with none of the components removed: the
\* label is the system (with_mode_defaults, state.py:124).
LabelledSystemRuns ==
    settings.mode \notin Ablations => \A k \in Knobs : settings.knobs[k] # "removed"
===============================================================================
