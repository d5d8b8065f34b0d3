----------------------------- MODULE ExperimentRun -----------------------------
(***************************************************************************)
(* One controlled comparison: run_controlled_experiment                    *)
(* (evaluation/experiment.py) replays every task through every mode, trial *)
(* after trial, and sends each prompt through the budgeted generator       *)
(* (evaluation/generation.py) under the run's ceilings                     *)
(* (evaluation/limits.py).  A ceiling stops the run in the middle and what *)
(* was collected until then becomes a partial result; a failing provider   *)
(* or a prompt that is too large costs one record.                         *)
(*                                                                         *)
(* Task texts, prompts and answers are abstracted to their tokens, to the  *)
(* model the response names and to a credential an answer may echo.        *)
(***************************************************************************)
EXTENDS Integers, FiniteSets, Sequences, FiniteSetsExt, Functions

CONSTANTS
    PromptSizes, \* counted prompts
    UsageSizes,  \* token counts of a response, reported or counted
    LeakKinds,   \* credentials an answer may echo, see Pipeline
    None         \* a limit that is not set; no run

Limit == Nat \cup {None}
RunLimits == [tasks : Limit, requests : Limit, input : Limit, total : Limit, failures : Limit]

\* A prompt holds a question, and no text is free (brain/tokenizers.py).
ASSUME SizesTyped ==
    PromptSizes \subseteq Nat \ {0} /\ UsageSizes \subseteq Nat /\ None \notin Nat

VARIABLES
    plan,      \* ExperimentPlan: name, resolved modes, trials, limits, tasks of the dataset
    dry,       \* no model and no provider were supplied
    step,      \* where run_controlled_experiment stands
    at,        \* the loops' trial, task and mode
    prompt,    \* the tokens of the prompt built for the task's question
    collected, \* the records of each mode and trial
    budget,    \* RunBudget
    aborted,   \* a BudgetExceeded ended the loops
    calls,     \* history: provider.generate calls
    leak,      \* history: a credential an answer echoed, its record, where it is quoted
    run        \* the ExperimentRun, or None

counters == <<collected, budget>>
expVars  == <<plan, dry, step, at, prompt, counters, aborted, calls, leak, run>>

\* The modes are numbered in plan order.
Modes    == Len(plan.modes)
Trials   == plan.trials
limits   == plan.limits
ModeIds  == 1..Modes
TrialIds == 1..Trials

\* A limit that is not set admits everything.
Within(used, limit) == limit # None => used < limit

\* The dataset is cut to max_tasks.
Selected == IF Within(plan.available, limits.tasks) THEN plan.available ELSE limits.tasks

FreshBudget == [requests |-> 0, tokens |-> 0, failures |-> 0, skips |-> 0]
NoLeak == [kind |-> None, mode |-> 0, trial |-> 0, quoted |-> "record"]
First  == [trial |-> 1, task |-> 1, mode |-> 1]

ExpInit(p, d) ==
    /\ plan = p
    /\ dry = d
    /\ step = "idle"
    /\ at = First
    /\ prompt = 0
    /\ collected = [m \in ModeIds |-> [t \in TrialIds |-> <<>>]]
    /\ budget = FreshBudget
    /\ aborted = FALSE
    /\ calls = 0
    /\ leak = NoLeak
    /\ run = None

Proceed(from, to) == step = from /\ step' = to

BeginExperiment ==
    /\ Proceed("idle", "replay")
    /\ Selected > 0
    /\ UNCHANGED <<plan, dry, at, prompt, counters, aborted, calls, leak, run>>

\* The locals of run_controlled_experiment, the budget among them, are gone.
Unwind ==
    /\ collected' = [m \in ModeIds |-> [t \in TrialIds |-> <<>>]]
    /\ at' = First /\ prompt' = 0
    /\ budget' = FreshBudget /\ aborted' = FALSE

\* There is no task to run, or a replay raises anything but BudgetExceeded: no run,
\* every record is lost.
ExperimentRaises ==
    /\ \/ Proceed("idle", "raised") /\ Selected = 0
       \/ Proceed("replay", "raised")
    /\ Unwind
    /\ leak' = NoLeak
    /\ UNCHANGED <<plan, dry, calls, run>>

\* Mutant: the modes of the second task go on where those of the first ended.
Successor_NoReset(c) ==
    IF c.mode < Modes THEN [c EXCEPT !.mode = @ + 1]
    ELSE IF c.task < Selected THEN [c EXCEPT !.mode = @ + 1, !.task = @ + 1]
    ELSE [trial |-> c.trial + 1, task |-> 1, mode |-> 1]

\* Trial outermost, then the task, then the mode.
Successor(c) ==
    IF c.mode < Modes THEN [c EXCEPT !.mode = @ + 1]
    ELSE IF c.task < Selected THEN [trial |-> c.trial, task |-> c.task + 1, mode |-> 1]
    ELSE [trial |-> c.trial + 1, task |-> 1, mode |-> 1]

\* Mutant: the records of one mode are collected before those of the next.
Collect_ModeOuter(kind, model) ==
    /\ collected' = [collected EXCEPT ![at.mode][at.trial] =
                        Append(@, [task |-> at.task, kind |-> kind, model |-> model])]
    /\ at' = IF at.task < Selected THEN [at EXCEPT !.task = @ + 1]
             ELSE IF at.mode < Modes THEN [at EXCEPT !.mode = @ + 1, !.task = 1]
             ELSE [trial |-> at.trial + 1, task |-> 1, mode |-> 1]
    /\ step' = IF at'.trial > Trials THEN "finish" ELSE "replay"

\* The record joins those of its mode and trial; the loops go on.
Collect(kind, model) ==
    /\ collected' = [collected EXCEPT ![at.mode][at.trial] =
                        Append(@, [task |-> at.task, kind |-> kind, model |-> model])]
    /\ at' = Successor(at)
    /\ step' = IF Successor(at).trial > Trials THEN "finish" ELSE "replay"

\* replay_task without a generator: the prompt is measured, nothing is sent.
Measure ==
    /\ step = "replay" /\ dry
    /\ Collect("measured", "requested")
    /\ UNCHANGED <<plan, dry, prompt, budget, aborted, calls, leak, run>>

\* replay_task builds the prompt and hands it to the generator.
Replay(tokens) ==
    /\ Proceed("replay", "gate") /\ ~dry
    /\ prompt' = tokens
    /\ UNCHANGED <<plan, dry, at, counters, aborted, calls, leak, run>>

FitsPrompt == limits.input # None => prompt <= limits.input

\* The prompt is over the ceiling of one request: refused, not sent, free.
Skip ==
    /\ step = "gate" /\ ~FitsPrompt
    /\ Collect("skipped", "requested")
    /\ budget' = [budget EXCEPT !.skips = @ + 1]
    /\ UNCHANGED <<plan, dry, prompt, aborted, calls, leak, run>>

\* check_request.  A prompt may use up the allowance; the completion is unknown.
MayRequest ==
    /\ Within(budget.requests, limits.requests)
    /\ Within(budget.failures, limits.failures)
    /\ Within(budget.tokens, limits.total)
    /\ limits.total # None => budget.tokens + prompt <= limits.total

\* BudgetExceeded leaves all three loops.
Stop ==
    /\ Proceed("gate", "finish")
    /\ FitsPrompt /\ ~MayRequest
    /\ aborted' = TRUE
    /\ UNCHANGED <<plan, dry, at, prompt, counters, calls, leak, run>>

\* Mutant: generate_answer tries a failed request twice.
Attempts_Two == 2

\* The runner's max_attempts: a request that fails is not tried again.
Attempts == 1

\* generate_answer: a call that raises is repeated while attempts are left.
Send ==
    /\ Proceed("gate", "sent")
    /\ FitsPrompt /\ MayRequest
    /\ \E tries \in 1..Attempts : calls' = calls + tries
    /\ UNCHANGED <<plan, dry, at, prompt, counters, aborted, leak, run>>

\* charge: one request, with the tokens reported or else counted.
Charged(input, output, failed) ==
    [requests |-> budget.requests + 1,
     tokens   |-> budget.tokens + input + output,
     failures |-> budget.failures + (IF failed THEN 1 ELSE 0),
     skips    |-> budget.skips]

\* A completion arrives, possibly from another model than the one requested.  Its
\* text stays in its record; graded wrong it is a failure as well, and one failure
\* of each type is quoted as an example.
Answer(input, output, model) ==
    /\ step = "sent"
    /\ budget' = Charged(input, output, FALSE)
    /\ Collect("answered", model)
    /\ \/ UNCHANGED leak
       \/ /\ leak = NoLeak
          /\ \E k \in LeakKinds, q \in {"record", "failure", "example"} :
                 leak' = [kind |-> k, mode |-> at.mode, trial |-> at.trial, quoted |-> q]
    /\ UNCHANGED <<plan, dry, prompt, aborted, calls, run>>

\* The provider raised, or its completion was empty.
Fail(input, output, model) ==
    /\ step = "sent"
    /\ budget' = Charged(input, output, TRUE)
    /\ Collect("failed", model)
    /\ UNCHANGED <<plan, dry, prompt, aborted, calls, leak, run>>

-------------------------------------------------------------------------------
(* What the loops left behind.                                             *)

Elements(records) == {records[i] : i \in DOMAIN records}
Records(m) == UNION {Elements(collected[m][t]) : t \in TrialIds}
TaskIds    == 1..Selected

\* check_constants: what makes a comparison uncontrolled.  Questions, system
\* instructions, settings and counters are the same for every mode here.
Violations ==
    {v \in {"modes", "tasks", "model"} :
        \E m \in ModeIds :
            \/ v = "modes" /\ Records(m) = {}
            \/ v = "tasks" /\ {r.task : r \in Records(m)} \notin {{}, TaskIds}
            \/ v = "model" /\ \E r \in Records(m) :
                   r.kind \in {"answered", "failed"} /\ r.model = "other"}

\* generation_usage: what one mode cost.  A prompt that was skipped is counted among
\* its requests, though the budget counts it apart; a dry run has no generations.
GenerationUsage(records) ==
    LET number(kinds) == Cardinality({i \in DOMAIN records : records[i].kind \in kinds})
    IN  [requests  |-> number({"skipped", "answered", "failed"}),
         generated |-> number({"answered"}),
         failures  |-> number({"failed"}),
         skips     |-> number({"skipped"})]

\* aggregate_scores: only an answer can be graded, and accuracy is a share of those.
Headline(m, t) ==
    LET usage == GenerationUsage(collected[m][t])
    IN  [mode |-> m, trial |-> t, tasks |-> Len(collected[m][t]), graded |-> usage.generated,
         failures |-> usage.failures, skips |-> usage.skips]

\* A mode and trial without records has no result.
Replayed == {x \in ModeIds \X TrialIds : collected[x[1]][x[2]] # <<>>}

\* headline_rows: the table of the artifact.
HeadlineRows == {Headline(x[1], x[2]) : x \in Replayed}

Remaining(limit, used) == IF limit = None THEN None ELSE Max({0, limit - used})

\* snapshot: the cost report of the artifact.
BudgetSnapshot ==
    LET allowed(used, limit) == limit # None => used <= limit
    IN  [requests |-> budget.requests, tokens |-> budget.tokens,
         failures |-> budget.failures, skips |-> budget.skips,
         remaining |-> [requests |-> Remaining(limits.requests, budget.requests),
                        tokens   |-> Remaining(limits.total, budget.tokens),
                        failures |-> Remaining(limits.failures, budget.failures)],
         within   |-> /\ allowed(budget.requests, limits.requests)
                      /\ allowed(budget.tokens, limits.total)
                      /\ allowed(budget.failures, limits.failures)]

Complete(m, t) == Len(collected[m][t]) = Selected

ModeResults ==
    {[mode |-> x[1], trial |-> x[2], complete |-> Complete(x[1], x[2])] : x \in Replayed}

\* The ExperimentRun is assembled.
Finish ==
    /\ Proceed("finish", "done")
    /\ run' = [violations |-> Violations, aborted |-> aborted, results |-> ModeResults,
               requests |-> budget.requests, skips |-> budget.skips,
               graded |-> \E r \in HeadlineRows : r.graded > 0]
    /\ Unwind
    /\ UNCHANGED <<plan, dry, calls, leak>>

Passed(r) == r.violations = {} /\ ~r.aborted

\* The loops, in which a ceiling has not been reached.
Loops ==
    \/ BeginExperiment \/ ExperimentRaises \/ Measure
    \/ \E tokens \in PromptSizes : Replay(tokens)
    \/ Skip \/ Send
    \/ \E input, output \in UsageSizes, model \in {"requested", "other"} :
           Answer(input, output, model) \/ Fail(input, output, model)
    \/ Fail(prompt, 0, "requested")
    \/ Finish

ExpNext == Loops \/ Stop

-------------------------------------------------------------------------------
Kinds == {"measured", "skipped", "answered", "failed"}
Record == [task : Nat, kind : Kinds, model : {"requested", "other"}]
Result == [mode : Nat, trial : Nat, complete : BOOLEAN]
Summaries == [violations : SUBSET {"modes", "tasks", "model"}, aborted : BOOLEAN,
              results : SUBSET Result, requests : Nat, skips : Nat, graded : BOOLEAN]
ASSUME NoRun == None \notin Summaries

ExpTypeOK ==
    /\ limits \in RunLimits /\ Trials \in Nat \ {0} /\ plan.available \in Nat
    /\ dry \in BOOLEAN /\ aborted \in BOOLEAN
    /\ step \in {"idle", "replay", "gate", "sent", "finish", "done", "raised"}
    /\ at \in [trial : Nat, task : Nat, mode : ModeIds \cup {1}]
    /\ prompt \in Nat /\ calls \in Nat
    /\ collected \in [ModeIds -> [TrialIds -> Seq(Record)]]
    /\ budget \in [requests : Nat, tokens : Nat, failures : Nat, skips : Nat]
    /\ leak.mode \in 0..Modes
    /\ run = None \/ run \in Summaries

\* Whatever the provider does, the run keeps the ceilings it was given: the
\* requests and failures exactly, the tokens up to what the last request's
\* response cost beyond its prompt.  Every call of the provider is charged as
\* one request, and nothing else is: a skipped prompt is free.
CeilingsHold ==
    /\ limits.requests = None \/ calls <= limits.requests
    /\ limits.failures = None \/ budget.failures <= limits.failures
    /\ \A top \in UsageSizes :
           limits.total # None /\ (\A u \in UsageSizes : u <= top) =>
               budget.tokens <= limits.total + 2 * top
    /\ step \in {"replay", "gate", "sent", "finish"} =>
           calls = budget.requests + (IF step = "sent" THEN 1 ELSE 0)

\* What the artifact says of the money agrees: the rows of the modes add up to the
\* budget, every task of a row is graded, failed or skipped, and the report calls the
\* run over its limits only for the tokens of its last response.
TotalsAgree ==
    LET rows     == HeadlineRows
        total(f) == SumFunctionOnSet([r \in rows |-> r[f]], rows)
        report   == BudgetSnapshot
    IN  step = "finish" =>
            /\ total("failures") = report.failures
            /\ total("skips") = report.skips
            /\ total("graded") + report.failures = report.requests
            /\ \A r \in rows : IF dry THEN r.graded + r.failures + r.skips = 0
                                ELSE r.graded + r.failures + r.skips = r.tasks
            /\ ~report.within => report.remaining.tokens = 0
            /\ aborted => \/ 0 \in {report.remaining.requests, report.remaining.failures}
                          \/ report.remaining.tokens # None /\ report.remaining.tokens < prompt

\* At any moment, and so in a run a ceiling stopped as well, the modes have
\* records of the same tasks in the same order, except that the modes after the
\* one at work lag by one task; and every record collected is one of the budget's
\* requests or skips.
RecordsPaired ==
    LET size(m, t) == Len(collected[m][t])
        spent == budget.requests + budget.skips
    IN  /\ \A m \in ModeIds, t \in TrialIds :
              /\ \A i \in DOMAIN collected[m][t] : collected[m][t][i].task = i
              /\ \A n \in m..Modes : size(m, t) - size(n, t) \in {0, 1}
              /\ t < at.trial => size(m, t) = Selected
              /\ t > at.trial => size(m, t) = 0
        /\ ~dry /\ step \in {"replay", "gate", "sent"} =>
              spent = ((at.trial - 1) * Selected + at.task - 1) * Modes + at.mode - 1

\* A run passes only if every mode recorded every task in every trial, answered by
\* the requested model; one that a ceiling stopped never does, and then some
\* mode result, or a missing one, says that it is partial.
PassedIsWhole ==
    run # None =>
        LET whole == /\ \A r \in run.results : r.complete
                     /\ Cardinality(run.results) = Modes * Trials
        IN  (Passed(run) => whole) /\ (run.aborted => ~Passed(run) /\ ~whole)
===============================================================================
