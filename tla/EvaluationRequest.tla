--------------------------- MODULE EvaluationRequest ---------------------------
(***************************************************************************)
(* An evaluation from the request to the receipt.  The Evaluation tab      *)
(* (app/evaluation.py, app/controller.py) checks a visitor's form against  *)
(* the policy of the deployment and runs the pipeline with the session's   *)
(* key; the commands evaluation.pipeline, evaluation.experiment and        *)
(* evaluation.run check their flags and use a key of the environment; a    *)
(* caller of run_pipeline brings its own plan and stages.  The requests    *)
(* run as Pipeline and ExperimentRun say, and end in a receipt or an       *)
(* artifact.                                                               *)
(***************************************************************************)
EXTENDS Pipeline

CONSTANTS
    Presets,        \* preset name -> [modes, trials, limits]
    ModeOrder,      \* the baselines, in order
    AblationOrder,  \* the full system and its ablations
    Canonical,      \* mode name or alias -> mode
    Contents,       \* dataset that can be read -> number of its tasks
    Inside,         \* the datasets under benchmarks/
    DefaultPolicy,  \* EvaluationPolicy()
    Deployments,    \* settings of the environment: some fields of a policy
    Asked           \* requests

VARIABLES
    request, \* the form or the command line
    policy,  \* EvaluationPolicy of the deployment
    stand,   \* where the request stands
    view     \* what its author is told

vars == <<expVars, pipeVars, request, policy, stand, view>>
frontVars == <<request, policy, stand, view>>

-------------------------------------------------------------------------------
(* The plan a request describes.                                           *)

FromEnvironment(env) ==
    [f \in DOMAIN DefaultPolicy |-> IF f \in DOMAIN env THEN env[f] ELSE DefaultPolicy[f]]

\* __post_init__: a policy that cannot be obeyed keeps the server from starting.
Obeyable(p) ==
    /\ p.presets # {} /\ p.presets \subseteq DOMAIN Presets
    /\ p.tasks > 0 /\ p.requests > 0 /\ p.runs > 0

\* Each mode where it is named first.
Distinct(s) ==
    LET firsts == {i \in DOMAIN s : \A j \in 1..(i - 1) : s[j] # s[i]}
        nth(n) == CHOOSE i \in firsts : Cardinality({j \in firsts : j <= i}) = n
    IN  [n \in 1..Cardinality(firsts) |-> s[nth(n)]]

\* A keyword among the tab's modes stands for all of them; a command's is alone.
Keyword(r, word) ==
    IF r.client = "browser" THEN word \in Range(r.modes) ELSE r.modes = <<word>>

ModesKnown(r) == \/ Keyword(r, "all") \/ Keyword(r, "ablations")
                 \/ Range(r.modes) \subseteq DOMAIN Canonical

\* No selection is the preset's.
ModesOf(r) ==
    IF r.modes = <<>> THEN Presets[r.preset].modes
    ELSE IF Keyword(r, "all") THEN ModeOrder
    ELSE IF Keyword(r, "ablations") THEN AblationOrder
    ELSE Distinct([i \in DOMAIN r.modes |-> Canonical[r.modes[i]]])

\* --limit 0 is no limit; the tab ignores a negative one as well.
Given(r) ==
    {f \in DOMAIN r.limits :
        f = "tasks" => IF r.client = "browser" THEN r.limits.tasks > 0 ELSE r.limits.tasks # 0}

Overridden(base, r) == [f \in DOMAIN base |-> IF f \in Given(r) THEN r.limits[f] ELSE base[f]]

NoLimits == [f \in {"tasks", "requests", "input", "total", "failures"} |-> None]

\* apply only ever tightens.
Tightened(l) ==
    [l EXCEPT !.tasks    = IF @ = None \/ @ > policy.tasks THEN policy.tasks ELSE @,
              !.requests = IF @ = None \/ @ > policy.requests THEN policy.requests ELSE @]

\* from_preset, and the policy on top for the tab; evaluation.run has no presets.
PlanOf(r) ==
    LET base  == IF r.client = "single" THEN NoLimits ELSE Presets[r.preset].limits
        asked == Overridden(base, r)
    IN  [name      |-> r.preset,
         modes     |-> ModesOf(r),
         trials    |-> IF r.client = "single" THEN 1
                       ELSE IF r.trials = None THEN Presets[r.preset].trials ELSE r.trials,
         limits    |-> IF r.client = "browser" THEN Tightened(asked) ELSE asked,
         available |-> Contents[r.dataset]]

NoPlan == [name |-> None, modes |-> <<>>, trials |-> 1, limits |-> NoLimits, available |-> 0]

\* The cost estimate: a prompt per task, mode and trial.
Planned == Selected * Modes * Trials

\* PresetView: what a preset is said to cost before anything is chosen.
PresetViews ==
    [p \in DOMAIN Presets |->
        [allowed |-> p \in policy.presets,
         planned |-> IF Presets[p].limits.tasks = None THEN None
                     ELSE Presets[p].limits.tasks * Len(Presets[p].modes) * Presets[p].trials]]

\* _preview_warnings
Warnings(r) ==
    {w \in {"cut", "retrieval only", "billed", "stochastic", "one trial"} :
        CASE w = "cut"            -> Selected < plan.available
          [] w = "retrieval only" -> ~r.generate
          [] w = "billed"         -> r.generate
          [] w = "stochastic"     -> r.generate /\ r.warm /\ Trials = 1
          [] w = "one trial"      -> Trials = 1}

\* CostPreview: what the tab shows before anything is paid for.
Announced == [tasks |-> Selected, requests |-> Planned, limits |-> limits,
              warnings |-> Warnings(request)]

-------------------------------------------------------------------------------
(* What the constants are.                                                 *)

\* The built-in presets set every limit.
ASSUME PresetsTyped ==
    \A p \in DOMAIN Presets :
        /\ Presets[p] \in [modes : Seq(STRING), trials : Nat \ {0}, limits : RunLimits]
        /\ Presets[p].modes # <<>>
        /\ Presets[p].limits.tasks # None /\ Presets[p].limits.requests # None

ASSUME ModesTyped == {ModeOrder, AblationOrder} \subseteq Seq(STRING) \ {<<>>}

\* Keywords stand for modes and are none; the orders name each mode once, as it is called
\* when an alias is resolved.
ASSUME ModesCanonical ==
    /\ \A m \in DOMAIN Canonical :
          /\ Canonical[m] \in DOMAIN Canonical \ {"all", "ablations"}
          /\ Canonical[Canonical[m]] = Canonical[m]
    /\ \A order \in {ModeOrder, AblationOrder} :
          /\ \A m \in Range(order) : m \in DOMAIN Canonical /\ Canonical[m] = m
          /\ \A i, j \in DOMAIN order : order[i] = order[j] => i = j

ASSUME ContentsTyped == \A d \in DOMAIN Contents : Contents[d] \in Nat

\* The environment may set any whole number.
Policies == [presets : SUBSET STRING, generation : BOOLEAN, tasks : Int, requests : Int,
             runs : Int]
ASSUME PoliciesTyped ==
    DefaultPolicy \in Policies /\ \A env \in Deployments : FromEnvironment(env) \in Policies

ASSUME RequestsTyped ==
    \A r \in Asked :
        /\ DOMAIN r = {"client", "preset", "modes", "trials", "limits", "dataset", "baseline",
                       "generate", "key", "warm", "earlier", "stages"}
        /\ r.modes \in Seq(STRING) /\ r.trials \in Int \cup {None}
        /\ \A f \in DOMAIN r.limits : r.limits[f] \in Int
        /\ r.generate \in BOOLEAN /\ r.key \in BOOLEAN

-------------------------------------------------------------------------------
(* What the form and the commands have fields and flags for.               *)

FormSays(r) == r.trials = None /\ r.stages = {} /\ DOMAIN r.limits \subseteq {"tasks"}

PipelineSays(r) == DOMAIN r.limits \subseteq DOMAIN NoLimits

ExperimentSays(r) == DOMAIN r.limits \subseteq DOMAIN NoLimits /\ r.stages = {}

SingleSays(r) == /\ DOMAIN r.limits \subseteq DOMAIN NoLimits
                 /\ r.trials = None /\ r.stages = {} /\ Len(r.modes) = 1

ASSUME RequestsSayable ==
    \A r \in Asked : CASE r.client = "browser"    -> FormSays(r)
                       [] r.client = "pipeline"   -> PipelineSays(r)
                       [] r.client = "experiment" -> ExperimentSays(r)
                       [] r.client = "single"     -> SingleSays(r)
                       [] OTHER                   -> r.client = "caller"

-------------------------------------------------------------------------------
(* Refusals.                                                               *)

\* What from_preset, resolved_modes, RunLimits and resolve_mode raise.
PlanInvalid(r) ==
    \/ r.preset \notin DOMAIN Presets \/ ~ModesKnown(r) \/ r.baseline \notin DOMAIN Canonical
    \/ \E f \in Given(r) : r.limits[f] < 0

\* resolve_dataset: under benchmarks/, there, and with tasks in it.
Runnable == {d \in Inside \cap DOMAIN Contents : Contents[d] > 0}

PolicyRefuses(r) == \/ r.preset \notin policy.presets \/ r.earlier >= policy.runs
                    \/ r.generate /\ ~policy.generation

\* Nobody asks a server that did not start.
BrowserRefuses(r) ==
    \/ ~Obeyable(policy) \/ PolicyRefuses(r)
    \/ r.generate /\ ~r.key
    \/ r.dataset \notin Runnable
    \/ PlanInvalid(r)

\* preset_choices, mode_choices and baseline_choices: what the form lets choose.
Offered(r) == /\ r.preset \in {p \in DOMAIN Presets : PresetViews[p].allowed}
              /\ Range(r.modes) \subseteq Range(ModeOrder) \cup Range(AblationOrder)
              /\ r.baseline \in Range(ModeOrder)

\* policy_notice
PolicyNotice ==
    {n \in {"retrieval only", "presets"} :
        IF n = "presets" THEN policy.presets # DOMAIN Presets ELSE ~policy.generation}

\* A dataset without tasks is not noticed before the experiment.
PipelineRefuses(r) ==
    \/ r.trials # None /\ r.trials < 1
    \/ r.dataset \notin DOMAIN Contents
    \/ ~(r.stages \subseteq Stages)
    \/ PlanInvalid(r)
    \/ r.generate /\ ~r.key

ExperimentRefuses(r) ==
    \/ r.trials # None /\ r.trials < 1
    \/ r.dataset \notin DOMAIN Contents
    \/ PlanInvalid(r)
    \/ r.generate /\ ~r.key

\* The mode is one of the parser's choices, no alias.
SingleRefuses(r) ==
    \/ r.modes[1] \notin Range(ModeOrder) \cup Range(AblationOrder)
    \/ r.dataset \notin DOMAIN Contents
    \/ \E f \in Given(r) : r.limits[f] < 0
    \/ r.generate /\ ~r.key

Refused(r) == CASE r.client = "browser"    -> BrowserRefuses(r)
                [] r.client = "experiment" -> ExperimentRefuses(r)
                [] r.client = "single"     -> SingleRefuses(r)
                [] OTHER                   -> PipelineRefuses(r)

\* The command adds the stages its selection needs, a caller runs what it names.
StagesOf(r) ==
    LET named == r.stages \cap Stages
    IN  IF named = {} \/ r.client = "browser" THEN Stages
        ELSE IF r.client = "pipeline" THEN Expanded(named)
        ELSE named

-------------------------------------------------------------------------------
NoView == [shown |-> FALSE, ok |-> FALSE, exit |-> 0, dry |-> TRUE, requests |-> 0,
           notes |-> {}]

Init ==
    /\ request \in Asked
    /\ \E env \in Deployments : policy = FromEnvironment(env)
    /\ request.client # "browser" => policy = DefaultPolicy
    /\ ExpInit(IF Refused(request) THEN NoPlan ELSE PlanOf(request), ~request.generate)
    /\ PipeInit(StagesOf(request))
    /\ stand = "asked"
    /\ view = NoView

\* _evaluation_refusal, or the command's message.
Refuse ==
    /\ stand = "asked" /\ Refused(request)
    /\ stand' = "refused"
    /\ view' = [NoView EXCEPT !.shown = TRUE]
    /\ UNCHANGED <<expVars, pipeVars, request, policy>>

\* evaluation_preview makes the same checks, and nothing happens.
Preview ==
    /\ stand = "asked" /\ request.client = "browser" /\ ~Refused(request)
    /\ stand' = "previewed"
    /\ UNCHANGED <<expVars, pipeVars, request, policy, view>>

Begin ==
    /\ stand \in {"asked", "previewed"} /\ ~Refused(request)
    /\ stand' = "running"
    /\ UNCHANGED <<expVars, pipeVars, request, policy, view>>

Piped == request.client \in {"browser", "pipeline", "caller"}

RunPipeline ==
    /\ stand = "running" /\ Piped
    /\ PipeNext
    /\ UNCHANGED frontVars

\* evaluation.experiment: the loops without the pipeline around them.
RunExperimentAlone ==
    /\ stand = "running" /\ request.client = "experiment"
    /\ ExpNext
    /\ UNCHANGED <<pipeVars, frontVars>>

\* evaluation.run: one mode.  Nothing there catches BudgetExceeded: a ceiling ends
\* the command, and what was replayed and paid for is not written.
RunSingleMode ==
    /\ stand = "running" /\ request.client = "single"
    /\ \/ Loops
       \/ /\ Proceed("gate", "raised")
          /\ FitsPrompt /\ ~MayRequest
          /\ Unwind
          /\ UNCHANGED <<plan, dry, calls, leak, run>>
    /\ UNCHANGED <<pipeVars, frontVars>>

\* Writing the manifest raised, or the experiment did outside the pipeline.
Crash ==
    /\ stand = "running"
    /\ IF Piped THEN phase = "raised" ELSE step = "raised"
    /\ stand' = "crashed"
    /\ UNCHANGED <<expVars, pipeVars, request, policy, view>>

\* _exit_code of the experiment command; evaluation.run has no other than 0.
CommandExit ==
    IF request.client = "experiment" /\ run.violations # {} THEN 2
    ELSE IF request.client = "experiment" /\ run.aborted THEN 3
    ELSE 0

Notes == {"violations", "ceiling", "failed", "skipped", "findings", "clean", "ungraded"}

\* _status_line of the tab.
StatusNotes ==
    LET result == PipelineResult
    IN  {n \in Notes : CASE n = "violations" -> result.violations
                         [] n = "ceiling"    -> result.aborted
                         [] n = "failed"     -> result.failed # {}
                         [] n = "skipped"    -> result.skipped # {}
                         [] n = "findings"   -> result.findings # {}
                         [] n = "clean"      -> result.findings = {}
                         [] n = "ungraded"   -> ~result.graded}

\* _print_summary of the pipeline: the same, but "ungraded" only below a table.
PipelineNotes == StatusNotes \ {n \in {"ungraded"} : run = None \/ run.results = {}}

\* _print_summary of the experiment.
ExperimentNotes ==
    {n \in Notes : CASE n = "violations" -> run.violations # {}
                     [] n = "ceiling"    -> run.aborted
                     [] n = "ungraded"   -> run.results # {} /\ ~run.graded
                     [] OTHER            -> FALSE}

\* The receipt of _executed_cost and the lines above or below it.
Receipt(code, notes) ==
    [shown |-> TRUE, ok |-> code = 0, exit |-> code, dry |-> PipelineResult.dry,
     requests |-> PipelineResult.requests, notes |-> notes]

\* What the author of a request is shown when it is over.
Shown ==
    CASE request.client = "browser"    -> Receipt(exit, StatusNotes)
      [] request.client = "pipeline"   -> Receipt(exit, PipelineNotes)
      [] request.client = "caller"     -> Receipt(exit, {})
      [] request.client = "experiment" -> Receipt(CommandExit, ExperimentNotes)
      [] OTHER                         -> Receipt(CommandExit, {})

Show ==
    /\ stand = "running"
    /\ IF Piped THEN phase = "returned" ELSE step = "done"
    /\ view' = Shown
    /\ stand' = "shown"
    /\ UNCHANGED <<expVars, pipeVars, request, policy>>

\* The author reads it and goes away.
Leave == stand \in {"refused", "crashed", "shown"} /\ UNCHANGED vars

Next == \/ Refuse \/ Preview \/ Begin \/ RunPipeline \/ RunExperimentAlone \/ RunSingleMode
        \/ Crash \/ Show \/ Leave

Spec == Init /\ [][Next]_vars

-------------------------------------------------------------------------------
(* pipeline_rerun_command, and the request it is when it is read back.     *)

\* Mutant: only a limit below the preset's is spelled out.
LimitFlags_Lowered(l, reference) ==
    [f \in {g \in DOMAIN l : /\ l[g] # None
                             /\ reference[g] = None \/ l[g] < reference[g]} |-> l[f]]

\* The flags that differ from the preset's.
LimitFlags(l, reference) ==
    [f \in {g \in DOMAIN l : l[g] # None /\ l[g] # reference[g]} |-> l[f]]

\* The command names the preset and what differs from it, and no stages.
RerunOf(p) ==
    LET reference == Presets[p.name]
    IN  [request EXCEPT
            !.client = "pipeline",
            !.modes  = IF p.modes = reference.modes THEN <<>> ELSE p.modes,
            !.trials = IF p.trials = reference.trials THEN None ELSE p.trials,
            !.limits = LimitFlags(p.limits, reference.limits),
            !.stages = {}]

-------------------------------------------------------------------------------
Receipts == [shown : BOOLEAN, ok : BOOLEAN, exit : {0, 2, 3, 4}, dry : BOOLEAN,
             requests : Nat, notes : SUBSET Notes]

\* The state is well formed.
TypeOK ==
    /\ PipeTypeOK
    /\ request \in Asked
    /\ stand \in {"asked", "previewed", "refused", "running", "shown", "crashed"}
    /\ view \in Receipts

\* Nobody pays for what was not announced.  A request leaves only for one that asked
\* for answers and brought a key, and from the tab only where the deployment allows
\* it; the calls keep the ceilings of the plan, those of the preset and of the
\* deployment among them whatever limits the visitor names, and the number the
\* preview announced, which a complete run uses up; a form left as it is costs no
\* more than its preset is said to.
SpendAuthorised ==
    /\ CeilingsHold
    /\ calls > 0 => /\ request.generate /\ request.key
                    /\ calls <= Announced.requests
                    /\ request.client = "browser" =>
                          /\ policy.generation
                          /\ calls <= policy.requests
                          /\ calls <= Presets[request.preset].limits.requests
                          /\ "billed" \in Announced.warnings
    /\ request.client = "browser" /\ ~Refused(request) =>
          /\ Selected <= policy.tasks
          /\ request.modes = <<>> /\ Given(request) = {} =>
                Planned <= PresetViews[request.preset].planned
    /\ run # None => \/ run.requests + run.skips = Planned
                     \/ run.aborted /\ run.requests + run.skips < Planned
                     \/ dry /\ run.requests + run.skips = 0

\* What the author is told is what happened.  The tab says that a run is good
\* exactly if its exit code is 0, and a good run is whole; the receipt counts every
\* call of the provider, except that after an experiment that raised it says that
\* no model was called, which is false if some were (app/evaluation.py:1266,
\* pipeline.py:310); and the command it gives describes the same plan again.  Where
\* the scan is called clean, a file with a credential is one that the scan passed over
\* or that a stage named as failed left; a result not called ungraded was paid for; a good run has no note
\* but of what was left out.
ResultTrue ==
    /\ view.ok => /\ PassedIsWhole
                  /\ run # None /\ Piped => Passed(run)
                  /\ Piped => view.notes \subseteq {"skipped", "clean", "ungraded"}
    /\ run # None => view.requests = calls /\ view.dry = dry
    /\ run = None => view.requests = 0 /\ view.dry
    /\ view.requests > 0 => ~view.dry
    /\ "clean" \in view.notes /\ (\E f \in disk \ check.skipped : Echoes(f)) =>
           "failed" \in view.notes
    /\ request.client = "browser" /\ "ungraded" \notin view.notes => calls > 0
    /\ Piped => PlanOf(RerunOf(plan)) = plan

\* A form whose choices are those offered is turned away only for a reason the tab
\* had shown or the visitor can mend: the notice, the runs used up, no key, or a
\* dataset with nothing to run.
RefusalExplained ==
    request.client = "browser" /\ Obeyable(policy) /\ Offered(request) =>
        \/ request.generate /\ ("retrieval only" \in PolicyNotice \/ ~request.key)
        \/ request.earlier >= policy.runs
        \/ request.dataset \notin Runnable

\* What is reported is true: the artifact's totals, the receipt, the refusal.
ReportTrue == /\ TotalsAgree
              /\ stand = "shown" => ResultTrue
              /\ stand = "refused" => RefusalExplained

===============================================================================
