# A TLA+ verification of BrainOS Context Lab

BrainOS Context Lab is a chat application and an evaluation laboratory around an
external memory runtime, BrainOS.  A Gradio front end turns browser events into
callbacks of one `UIController`; a callback works on one visitor's session: it runs
a conversation turn, clears data, connects a provider key or starts a benchmark run.
This directory holds TLA+ modules of that system, TLC configurations that check them
on small instances, and TLAPS proofs for all values of the constants.

All paths below are relative to the repository root.

## The system

| Component | State it keeps | Operations | What makes it correct |
| --- | --- | --- | --- |
| Controller, `src/app/controller.py` | cached service and last turn of each session, the current `UILimits` | `chat`, `clear_conversation`, `clear_memory`, `end_session`, `connect`, `disconnect`, `update_costs`, `update_context`, `run_evaluation`, exports | a callback touches only the session it was called for; the data controls leave nothing behind |
| Conversation service, `src/app/service.py` | one session's state, its BrainOS adapter, a cached provider client | `handle_user_message`, `reset_provider`, `clear_conversation`, `reset_memory`, mirrors to the stores | question and reply stay together; the client has the current key; the mirrors say what the session says |
| Cost control, `src/app/limits.py` | one `ChatBudget` per conversation | `check_turn`, `record_turn`, `charge`, `record_refusal` | ceilings are passed by a bounded amount only; a charge is for a counted turn |
| Session registry and state, `src/app/session.py`, `state.py` | the live sessions; transcript, key, runtime, budget | `start`, `get`, `end`, `clear_*` | an ended session stays ended |
| Context builder, `src/brain/context_builder.py`, `tokenizers.py` | locals of one call | `build_context` | the prompt respects its ceiling; evidence goes in the documented order; every drop is reported |
| Modes and ablations, `src/baselines/`, with the settings in `state.py` and the sidebar in `ui.py` | the settings of a session, what the sidebar shows of them | `with_mode_defaults`, `update_context`, `apply_mode`, `/api/chat` | the mode that is shown is the system that runs |
| Retrieval and memory policies, `src/brain/retrieval_policy.py`, `memory_policy.py` | none | `select_memories`, `MemoryPolicy.select` | every candidate is accounted for; a conflict is settled without losing its subject |
| BrainOS adapter, `src/brain/adapter.py`, `trace.py` | one external runtime, what it noted of the texts it observed | `observe`, `recall`, `conflicts`, `stale_memory_ids` | one runtime per session |
| Storage, `src/storage/` | messages, memories, evaluation runs (SQLite) | append, upsert, delete, vacuum | best effort: never fails a turn |
| Providers, `src/providers/` | an HTTP client built from a key | `generate`, `list_models` | errors are redacted `ProviderError`s |
| Browser evaluation runner, `src/app/evaluation.py`, `retention.py` | the policy of the deployment, index of runs and artifact directories | preview, run, discard, sweep | ceilings on runs and on spending; a sweep takes only what has expired, an end everything |
| Evaluation commands, `main` of `src/evaluation/pipeline.py`, `experiment.py`, `run.py` | none | check the flags, run, report, exit | nothing is paid for that was not asked for; the exit code tells |
| Evaluation pipeline, `src/evaluation/pipeline.py` | stage results, artifacts, manifest | run stages, scan, quarantine | no artifact with a credential is left behind a good exit code |
| Experiments, `src/evaluation/experiment.py`, `generation.py`, `limits.py` | records, `RunBudget` | run tasks, charge, abort | a partial run never reads as a complete one; ceilings hold |
| Replays, `src/evaluation/modes.py` | a service, or one of each session | replay a conversation, ask | a mode sees what it is said to see, and no more |
| Scoring and errors, `src/evaluation/scoring.py`, `errors.py` | none | score a record, classify a failure | the two label a record alike |
| Statistics and reports, the rest of `src/evaluation/` | none | pure functions of records | numeric |
| Security, `src/security/` | a bounded ledger of findings | guard, record, scan | nothing is published with a secret |

**How they interact.**  Gradio runs callbacks on a pool of threads.  Two events of one
tab (the Send button and the text box's submit), or two tabs with one session id, run
concurrently on the same `SessionState`.  Only `SessionManager` holds a lock.  A chat
turn calls the controller, the service, the adapter, the context builder, the provider
(on a thread of its own, with a wall-clock timeout) and the two stores; the other
callbacks change the same objects in between.  A benchmark run is a callback too, or a
command: it checks the request, and `run_pipeline` runs the stages of an evaluation in
order.  The first of them, the experiment, replays every task through every mode, each
replay with services of its own, and sends the prompts to the provider; the others read
what it collected and write files.

**What is hard.**  Check-then-act on budgets, services, clients and settings; a session
that is cleared or ended while one of its turns waits for the provider, or whose mode
changes in the middle of one; late answers; stores that fail; an eviction loop over four
sections with running totals; conflicts settled in pairs; a ceiling or an exception in the
middle of three nested loops; files written by a stage that then fails; an answer that
echoes a credential; two classifiers that must agree.  `PROJECT.json`
lists each hazard at its line, with the property that covers it or the reason none does.

## The modules

| Module | What it is |
| --- | --- |
| `ChatBudget` | cost control: budgets, the chat callback as far as budgets are concerned, `clear_conversation`, `update_costs` |
| `ChatBudget_proofs` | its theorems |
| `SessionData` | abstract: what the data controls promise a visitor |
| `ChatSession` | sessions, services, runtimes, clients, transcripts and table rows under all six data callbacks, step by step |
| `ChatSession_proofs` | its theorems: types, isolation, transcripts, what holds one callback at a time, and the refinement of `SessionData` |
| `ContextBuilder` | `build_context`, one candidate or eviction at a time |
| `ContextBuilder_proofs` | its theorems |
| `ContextModes` | modes and ablations, the settings of a session, the sidebar and the API that change them |
| `Replay` | extends `ContextModes`: what reaches the prompt of a turn, live or replayed |
| `Replay_proofs` | its theorems |
| `MemorySelection` | `select_memories` and the adapter's records before it |
| `Grading` | extends `MemorySelection`: the score of a question and the label of its failure |
| `Grading_proofs` | the theorems of the last two |
| `ExperimentRun` | the experiment: loops, generator, run budget, controls, totals |
| `Pipeline` | extends `ExperimentRun`: stages, files, scans, quarantine, exit code |
| `EvaluationRequest` | extends `Pipeline`: the form and the commands, the policy, refusals, plan, receipt |
| `EvaluationRequest_proofs` | the theorems of the last three |
| `EvaluationRuns` | benchmark runs from the browser: directories, index and rows, the retention sweep, `end_session` |
| `EvaluationRuns_proofs` | its theorems |
| `SumTheorems` | sums over finite sets, for the proofs of `ContextBuilder` and `EvaluationRequest` |
| `MCChatBudget`, `MCChatSession`, `MCContextBuilder`, `MCReplay`, `MCQuestion`, `MCEvaluationRequest`, `MCEvaluationRuns` | instances for TLC |

The modules compose by EXTENDS where one component is a step of another, as the code
calls it: a pipeline runs an experiment, a request runs a pipeline, a question is graded
after its memories were selected, a turn is built from settings that change.
`EvaluationRuns` and `EvaluationRequest` look at the same callback from two sides: who
else touches its files, and what it does with the request.

Definitions whose comment begins with "Mutant:" are deliberately wrong variants of the
definition that follows them.  No specification uses them: replacing the definition by
its variant must break the property named with it in `PROJECT.json`.

### ChatBudget

One variable per piece of state: `limits` is `UIController.limits`, `usage` is
`SessionState.usage` of every session (0 for `None`), `budget` the `ChatBudget`
objects, `pc` and `job` the position and the locals of each handler in `chat`.  The
steps of `chat` are separate actions wherever another thread can come between two
accesses to shared state: `_ensure_budget` reads (`EnsureFound`, `EnsureMissing`) and
stores (`EnsureCreate`); `check_turn` (`Admit`, `Refuse`); `record_turn`; the prompt
(`Build`), the request (`Send`) and its outcomes (`Answer`, `Fail`, `Raise`,
`SkipProvider`); `charge`; the comparison with `max_input_tokens` that follows it
(`FlagLargePrompt`).  Tokens are one counter, the sum the ceiling reads.  Message-length
checks refuse before any of this and are left out.

### ChatSession

A turn, a memory and a row are identified by the call of `chat` they come from.
`live` and `used` are the registry; `key`, `messages`, `conv`, `brain` the fields of
`SessionState`; `services`, `svc`, `adapters` the cache, the service objects and the
BrainOS runtimes; `convRows` and `memRows` the two tables; `pc` and `job` the handlers.
A service object outlives its removal from the cache: a turn in flight goes on with it,
which is what the races are about.  A Python statement that touches one shared object is
one step; a run of adjacent reads and writes of one `SessionState` is one step as well.
Each store call is one step, and fails when `StoreOutcomes` contains `FALSE`: then it
changes nothing and the callback goes on, as in `_warn_storage`.  `new_id()` returns an
identifier never used before; which one cannot matter, so `NewSid` chooses one.
`ranIn`, `ended`, `wiped` and `lapsed` are history variables used by properties only;
at most one store call of a behaviour fails, and `lapsed` says that one has.

`SessionData` states the promise of the data controls with two variables: the phase of
each session and the set of turns of which it holds anything.  `KeepsPromise` is the
refinement `ChatSession => SessionData` under the mapping at the end of `ChatSession`.

### ContextBuilder

A text is its identity and its cost in tokens.  `input` holds the arguments; `memory` and
`chunk` are the ranks kept; the history window is always the newest `window` messages,
which is why its length describes it.  The two delimited blocks cost a frame and the sum of
their lines: with the estimate counter the sum may differ by rounding, which no property
depends on.  `Fitted` is `truncate_to_tokens`: whatever it cuts ends in a marker of cost
`MarkerCost`.  The action for a candidate covers its rendering, its test against
the section budget and the list it lands in; each round of the ceiling loop is one of
`EvictMessage`, `EvictChunk`, `EvictMemory`, `CutSystem`.  The order of the candidates
(`select_memories`, the retriever) is an input: `memories` are those it returned, and
`unselected` is how many of the candidates the policy dropped, which the function still
reports (`SelectionDrops`) and counts.  `Stats`, `Report` and `FullContextReference` are what
it returns with the prompt.

### ContextModes and Replay

`settings` is `SessionState.context`: the mode, the ceiling, the budgets a mode fixes and
the six knobs an ablation removes.  `form` is what the sidebar shows.  Selecting a mode
and applying the form are requests; a handler takes its copy of the settings
(`ReadSettings`) and replaces them (`WriteSettings`), and the answer to the first kind
moves the sliders.  `tuned`, `changed` and `events` are history and a bound.

In `Replay` a message is its place in the conversation and costs one token.  A turn reads
the settings four times, in `Recall`, `Prepare`, `RetrieveChunks` and `Label`, and another
request may replace them in between; `Build` is `build_context` with unit costs, whose
details are `ContextBuilder`'s.  `client` says who uses the service: the sidebar, the API
(`/api/chat`, which switches the mode before it chats) or a benchmark's replay, which
hears a conversation message by message (`ReplayMessage`), gets a fresh service at a
session boundary if sessions are isolated (`ReplayBoundary`) and asks its question.
What the runtime recalls and how the retriever ranks is any choice.

### MemorySelection and Grading

A memory is its place in the runtime's answer, with what the code reads off its text: the
claims (subject and value), the texts it resembles, its relevance, whether it corrects,
its age by clock and by turn, its state.  `SelInit` normalises the records as the adapter
does and, under the `no_conflict` ablation, hides their lifecycle.  `Rank`, `Resolve`,
`Floor` and `Cap` are the passes of `select_memories`; the order of `Rank` is any order,
because scores depend on weights.  The lists of the code are sets here: the survivors
(`live`) in the order of `rank`, and the drops, each with the pass that made it, in the order
of the passes and within one of the memories it met (`Earlier`).  `Deduplicated` says of the
loop that compares each memory with those it kept which set it ends with.  The runtime may
report contradictions and stale memories; otherwise the heuristic of the application settles
them in pairs.

`Grading` turns the outcome into the record of a replay (which facts were retrieved, which
reached the prompt, why one was dropped), scores it (`Scored`, `Faithful`), and classifies
it (`Classification`, `FailureRecord`).  An answer is abstracted to its verdict: any that
its task allows.

### ExperimentRun, Pipeline and EvaluationRequest

`plan` is the `ExperimentPlan`; `at` holds the loop variables; `collected` the records of
each mode and trial; `budget` the `RunBudget`; `calls` counts what really left for the
provider.  `Replay` builds a prompt of some size, `Skip`, `Stop` and `Send` are the three
outcomes of the gate, `Answer` and `Fail` those of the provider, `Finish` assembles the
`ExperimentRun`.  Exceptions drop the locals (`Unwind`).

A file is its name; `disk` holds those that exist.  What a file contains matters only as
far as an answer that echoed a credential reached it (`leak`, `Echoes`).  A stage ends
well, is skipped, or fails after some of its files, perhaps in the middle of one; then the
manifest, the two scans, `Quarantine`, the rewritten manifest and the note
`QUARANTINED.txt` follow.  A scan passes over a file that is over 64 MB, or whose stat or
read fails: it names nothing then (`Findings`), and `check.skipped` remembers the file, as
`files_skipped` does.  Only what would have been found in a file tells a scan that passes
over it from one that does not, so `skipped` ranges over the files that hold a credential
(`MayMiss`).  Files that are not read count as faults (`Faulty`), like those that cannot be
written or removed; what `_quarantine` does not catch, an unlink of the new manifest or a
write of the note that fails, raises out of `run_pipeline` (`QuarantineRaises`).

`request` is a form or a command line, `policy` what the environment of the deployment
makes of `EvaluationPolicy`, `stand` where the request stands and `view` what its author
is told at the end: what `Shown` makes of the finished run, once.  `PlanOf` is the plan a request describes; the four `...Refuses`
operators are the checks before it, in the order of each client.  `evaluation.run` has no
pipeline around its loop and does not catch `BudgetExceeded`: `RunSingleMode`.  A caller
of `run_pipeline` is a client of its own, because it may select stages without their
dependencies.

### EvaluationRuns

`tree[s]` is the directory `results/ui/<s>`: its runs, each with the modification time of
its newest file, which is all the sweep reads of it.  `index` is
`UIEvaluationRunner._runs`, `rows` the evaluation table, `clock` the file system's time.  A
run is `BeginRun` (the session), `ListCandidates` (the sweep takes the time and lists the
directories), `SweepRemoves` or `SweepFails` for each expired directory from the oldest on,
`SweepEnds`, `Admit` or `Refuse`, the files written by the pipeline (`WriteArtifacts`, as
often as it likes, then `WriteManifest`), `Persist` and `Record`.  The loop over the sorted
candidates takes any of the oldest: ties are broken by names, which mean nothing.
`SweepFails` is a directory that is still there after `rmtree`, because this process may
not remove it (`Unremovable`) or because a run wrote into it meanwhile.  Directories that
an earlier process left behind are in the initial state.  The pipeline is a black box that
writes and then returns or raises; dry-run sweeps, disabled retention (a window no clock
reaches) and names that are not session ids are left out.  `ended` and `overlapped` are
history variables, and so is the field `gone` of a job.

## The runs

| Run | Question | Bounds |
| --- | --- | --- |
| `budget_concurrent` | How far can racing turns pass a ceiling? Does a charge ever go astray? | 2 handlers, 2 sessions, 3 chats, 2 budgets, 1 limit change |
| `session_sequential` | Do the data controls keep their promise when callbacks do not overlap? Does every callback return? | 1 handler, every sequence of 5 callbacks, 6 ids |
| `session_concurrent` | What survives arbitrary interleaving and a store that fails? | 2 handlers, 3 callbacks, 5 ids, 1 failing store call |
| `context_builder` | Is every prompt within its budgets, with every drop needed, in order and reported? Does the loop end? | every small call in `SmallInputs`, some 13,000 |
| `replay` | What may reach a prompt, in which mode? Does the sidebar show what runs? | every conversation of up to 3 messages of 4 kinds and longer ones of 5, with any session boundary, in 9 modes; 2 live messages, 4 clicks |
| `question` | Is every recalled memory accounted for, every conflict settled, every failure labelled? | 3 memories of 13 kinds in any ranking, 3 policies, 5 tasks, 1 report of the runtime of each kind |
| `evaluation_request` | What may a request spend, what do its exit code, its files and its receipt say? | 27 requests, 4 deployments, 2 presets, 2 tasks, 2 modes, 2 trials, 1 echoed credential, 2 faults: failing file operations, files a scan does not read |
| `evaluation_runs` | How far can racing runs pass the ceiling? What does a sweep remove, what does an end leave? | 2 handlers, 3 callbacks, 3 ticks, an abandoned directory and one that cannot be removed |
| `budget_large_prompt`, `session_end_race`, `session_key_race`, `mode_ablation` | counterexamples, below | |

The largest have some 4.0 million states (`evaluation_runs`), 1.8 (`session_concurrent`),
1.6 (`evaluation_request`) and 1.3 (`replay`); each takes less than three minutes.

Why the bounds are enough: three chats on two budgets are one more than needed for both
handlers to be between the check and the count while a third refuses or replaces the
budget; the ceilings in `SmallLimits` are met exactly and passed.  Two handlers show every
race of two callbacks, a third callback adds the turn before or after it.  Five sequential
callbacks are enough to chat, clear, chat, end and chat again with a stale id.  The costs
in `SmallInputs` meet a section budget exactly, miss it by one, and leave a ceiling that is
reached by the window, by chunks, by memories, by the system prompt or not at all.
In `replay` five messages are more than the default ceiling holds, so that a replay that
did not raise it would lose some; four clicks are enough to move a slider, apply it, change
the mode and change it back.  Three memories are the least that can replace one another in
a circle, or hide a newer value behind a near duplicate; more only repeat these cases,
since every rule of `select_memories` looks at pairs.  In `evaluation_request` two modes,
tasks and trials make every loop end once inside and once with its parent; the limits are
met exactly, by a request, a failure, a prompt and a token more; two faults are a
stage that fails and a carrier that cannot be unlinked, or a carrier that a scan passes over
and one more that is lost or passed over by the next scan.
In `evaluation_runs`, a retention window of one tick and a clock of three let a directory
written at the start expire while another is exactly at the window, and `SweepMax = 1` is
met by two expired directories; three runs pass a ceiling of one by as much as two handlers
can.  Symmetry is used on handlers (and in `MCChatBudget` on handlers and sessions), which no
definition tells apart, and never in a run with a liveness property.  Bounds that are
not in the code are the constants commented "bound".

### What the runs show

Properties that hold under every interleaving:

- `TurnsBounded`, `RequestsBounded`, `TokensBounded`: a ceiling is passed by less than
  one turn per handler.  With one handler the first two are exact.
- `NoRequestWithoutTurn`, `ExhaustionIsFinal`.
- `SessionsIsolated`: a turn stays in one session in all its traces, even when `service()`
  moves it to a new one.
- `TranscriptSound`: for turns that were not cleared away while they ran, a reply follows
  its question, and transcript and table agree when the process is quiet and no store call
  failed.
- `EvidenceFitsMode`: a prompt holds evidence only of the kinds its mode uses, although the
  settings are read several times.  Evidence is kept out twice, where it is looked up and
  by budgets of zero; only a change of mode in the middle of a turn whose budgets were
  set by hand passes both, and the property leaves that case out.
- `RunsBounded`, `FreshFilesKept`, `SweepReclaims`, and `EndedLeavesNoRuns` for sessions
  that were not ended while one of their runs was at work.

Properties that hold while callbacks run one at a time, and that two racing handlers
break: `ForgottenStaysForgotten` (what was cleared, forgotten or ended is in no
transcript, row or mirror), `HistoryIsEarlier`, `CachesCurrent` (service, runtime and
client of a session are its present ones), `KeepsPromise`; and `SidebarTruthful` while the
sidebar waits for an answer before its next request: a form sent before a mode change
is answered puts the old mode's sliders under the new mode.

Of one sequential computation:

- `CeilingHolds`, `EveryDropRecorded`, `SectionsAccounted`, `NoSentenceTwice`, `Returns`:
  the prompt and its account.
- `IsolationHolds`, `ReferenceIsWhole`: an isolated replay shows nothing of an earlier
  session by any route, and the full-context prompt, against which the others are
  measured, is whole however long the conversation is.
- `CandidatesAccounted`, `ConflictsSettled`: the second says that no subject is lost,
  that contradictions shown side by side are flagged, and that the `no_conflict` ablation
  drops nothing for its age.  The first of the three needs what `PlainRecall` names: one
  clock for all memories, one claim each, near duplicates about one subject.  With two
  clocks three corrections can be ordered in a circle, and all are dropped.
- `FailuresLabelled`: scorer and taxonomy agree but for the refinements `errors.py`
  documents and one more case, a stale answer with a superseded required fact outside the
  conflict category, where the first says `stale_memory` and the second
  `conflicting_memory`.  A wrong answer to a task without required evidence has no failure
  record.
- `SpendAuthorised`: no call without a request for answers and a key, within the ceilings of
  plan, preset and deployment, and within what the preview announced.
- `RecordsPaired`: modes are compared on the same tasks, in a partial run as well, and
  every record is one of the budget's requests or skips.
- `ExitZeroIsSound`, `QuarantineComplete`, `ReportTrue`: what an exit code of 0 is worth,
  which files are left, and that the totals of the artifact add up and status, receipt
  and rerun command say what happened.  None of them says anything about a file that a scan
  passed over: with a credential in such a file the exit code may be 0, the scan is called
  clean and the file stays.  All three except exactly the files in `check.skipped`.

Findings, each with a run that ends in a counterexample:

- `session_end_race`: a turn in flight writes rows and messages of an ended session.
- `session_key_race`: the client of a replaced key is cached after the replacement.
- `mode_ablation`: a session that left an ablation through the API keeps the knobs that
  the ablation removed, under the label of the full system.
- `budget_large_prompt`: `limits.py` says a prompt over `max_input_tokens` is refused
  before the provider is called; it is compared after the provider has answered.

### Divergences without a run

Noted while modelling; the models follow the code.

- `retention.py:325`: a directory that cannot be removed is subtracted from the number of
  removals, so that one sweep may remove more than `max_sessions_per_sweep`.
- `context_builder.py:712` says that the memory section stops at the first line that does
  not fit; it skips the line and goes on.
- `context_builder.py:742`: a chunk dropped as a duplicate may repeat a message that the
  ceiling evicts afterwards; the sentence is then nowhere in the prompt.
- `pipeline.py:310`, `app/evaluation.py:1266`: after an experiment that raised part-way the
  status says that no model was called, whatever was paid for.
- `evaluation/run.py:295` does not catch `BudgetExceeded`: no artifact, although the module
  and `limits.py:42` speak of a usage block in it.  A negative `--limit` there raises.
- `pipeline.py:1104`: the manifest is rewritten only when it was itself quarantined;
  otherwise the one on disk keeps its first exit code.  The files of a failed stage are
  not scanned, and the status may call the scan clean; the exit code is not 0 then.
- `security/scan.py:344`: a file that is over 64 MB, or cannot be read, is listed in
  `files_skipped` and nowhere else.  `clean` looks at the findings alone, and so do the exit
  code and the quarantine: a credential in such a file stays on disk behind exit code 0 and
  the status "clean", although `docs/security.md:156` says that with `files_skipped` "clean"
  cannot be vacuous and `README.md:159` gives 4 for a credential.
- `pipeline.py:1174`, `pipeline.py:1242`: what writing `QUARANTINED.txt` or deleting the new manifest
  raises leaves `run_pipeline`, after the quarantine and without a result.
- An `OSError` while the manifest is written leaves `UIEvaluationRunner.run`, which says it
  never raises for a pipeline problem.
- `pipeline_rerun_command` drops temperature, seed and base URL, and cannot say that a
  limit is absent where the preset has one.
- A visitor's task limit above the preset's is taken, up to the deployment's; the request
  ceiling stays the preset's.
- `generation_usage` counts a skipped prompt among a mode's requests, the budget does not.
- `modes.py:258`: the raised ceiling is given to the first service of an isolated replay.
- `ModeReplay.security` is documented as the report of the question's turn and is
  cumulative.
- The `max_memories` and `rag_top_k` of the hybrid mode's profile are applied nowhere.

### Fairness

`ChatSession!FairSpec` has weak fairness on `Proceed(h)`, the steps a handler takes by
itself: a thread that can run is scheduled.  `Proceed` contains `ProviderFails` and not
`Reply`: a provider need not answer, but `ChatLimits` and `update_costs` keep
`request_timeout_seconds` positive, so `future.result(timeout)` ends.  No visitor is
required to call anything.  `CallbacksReturn` is checked with one handler and stores that
do not fail; a failing store call does not change where a callback goes next.
`ContextBuilder!FairSpec` has weak fairness on `Next`: a
sequential function keeps running.

`EvaluationRuns` states no liveness: nothing in the code makes a sweep happen unless a
visitor starts a run.

`Replay`, `Grading`, `Pipeline` and `EvaluationRequest` state no liveness: their loops are
bounded by their inputs, and a callback that waits for a provider is `ChatSession`'s.

`context_builder` does not check deadlock, because `build_context` returns.  In
`ChatSession`, `EvaluationRuns` and `Replay` the visitors may leave, which is the action
`Rest`; in `Grading` and `EvaluationRequest` a finished question or request stays as it is
(`Done`, `Leave`).  In all of these deadlock is checked.

## The proofs

All proofs are checked by TLAPS from the named assumptions of each module and nothing else.

**ChatBudget_proofs**, for any finite set of handlers, any sessions, limits and costs:

- `TypeCorrect`: `Spec => []TypeOK`.
- `TurnCeiling`, `RequestCeiling`, `TurnBeforeRequest`: the invariants `TurnsBounded`,
  `RequestsBounded`, `NoRequestWithoutTurn`.
- `TokenCeiling`: `TokensBounded`.
- `ExhaustionStays`: the action property `ExhaustionIsFinal`.

No ceiling is inductive.  A handler that passed `check_turn` will count its turn
whatever the counter says by then, so the invariant `IInv` counts such handlers in
advance: `turns + |Admitted| < ceiling + Width`, `requests + |Unpaid| < ceiling + Width`
and `requests + |Counted| <= turns`, for each budget and the handlers that hold it.  The
lemmas `CountMoves` and `GroupCounts` say how these cardinalities change when one handler
moves; each action that checks, counts, charges or creates has a lemma of its own, and
`QuietStep` covers the rest.  `HoldsBudget` and `UsageExists` are needed so that a new
budget is known to be held by nobody.  Tokens are not known before the answer is there:
`TokensInv` counts each unpaid turn with `MaxCost`, and `CostsInv` says that no turn
costs more.

**ChatSession_proofs**, for any handlers, sessions, keys and
stores, whatever the interleaving:

- `TypeCorrect`.  That an index points into the list of services or of runtimes depends on
  where its handler stands (`LocalsBound`) and on objects never changing their session
  (`ObjectsBound`); that a conversation's number stays in its range needs the handlers that
  have yet to renew one counted (`RenewalsBounded`).
- `SessionsStayIsolated`: a turn has no session until its message is said; from then on it is
  the session of the service its handler holds (`TurnPlaced`), which all its traces must
  agree with (`TracesPlaced`).
- `TranscriptsSound`: what was said stays until it is wiped (`MessagesKept`).  The agreement of
  transcript and table when all is quiet follows from what is true when it is not: each
  question of an open session is in the table under the present conversation, or about to be
  written, or in a session whose end has already deleted its rows (`QuestionsMirrored`), and
  a clear deletes rows of a conversation the session has left (`ClearsThePast`).

The other four assume `OneAtATime`: there is at most one handler.  With two, parts of
`CachesCurrent` and of `ForgottenStaysForgotten` are false, as `session_key_race` and
`session_end_race` show.

- `HistoriesAreEarlier`, `CachesStayCurrent`: one invariant, `SerialInv`.  A client is
  stale and a service doubled only in the middle of a callback, so its parts say where in which
  callback: `MessagesEarlier` when the transcript already has a turn's message,
  `ServicesCurrent` that an open session has one service, the one it caches, unless it is
  just being ended, and `ClientsCurrent` that the client under it has the present key, unless
  a handler has yet to replace it.

Two of them also assume that the stores do not fail (`StoreOutcomes = {TRUE}`), because the
code passes over a failed deletion and leaves the row where it is:

- `ForgottenStays`: `Tidy` says that a session without a service holds nothing at all, and one
  with a service nothing that was wiped, unless a clear or an end is at work on it; how far
  that callback has come is `SoFar`.  `EndedClosed` keeps an ended session from opening again.
- `PromiseKept`: the refinement.  Only a few steps change what a session holds
  (`PromisedChange`) or end it (`PromisedEnd`), and each of them is one of the steps of
  `SessionData`; all others leave it as it is (`NothingHeld`).

**ContextBuilder_proofs**, for any set of calls, any costs:

- `NothingSaidTwice`: needs `Shape`: while the window can still grow, no chunk has been
  kept; afterwards it only shrinks and `SaidGrows` applies.
- `CeilingKept`: the ceiling holds in every finished call.
- `EveryDropIsRecorded`: the memories (and chunks) looked at so far are split among the
  kept and the drop lists; `Cursor` says the next candidate is in none of them.  Eviction
  takes the greatest rank, and `MaxIsMember`, by well-founded induction, says that a nonempty
  set of ranks has one.
- `TypeCorrect`: that `windowCost`, to which the loop adds the newest messages one by one and
  from which eviction subtracts the oldest, is never negative.  `RunningTotal` says it is
  the value at `window` of some function that starts at 0 and grows by the cost of one message
  at each place, which needs no recursion to state; `Tokens` types the other counts.
- `SectionsAreAccounted`: `Needed` says of every eviction so far what `EvictionsNeeded` says of
  a finished call: with the last thing taken out of each section back in, and all that goes
  before it already out, the prompt is too dear.  It needs the order of the evictions
  (`TakenInOrder`), that the window costs what its messages cost, and `DuplicatesSaid`: a
  duplicate repeats a message of the window as it was before the ceiling cut it.
  `ReportCounted` counts the report: the drops of each reason are disjoint, and the ranks that
  were never selected are those after the selected ones.

**EvaluationRuns_proofs**, for any finite set of handlers, any sessions, window and bounds:

- `RunCeiling`: `RunsBounded` is not inductive, since a handler between its check and its
  record counts its run in any case; `CeilingInv` counts those handlers (`Started`) in
  advance.
- `FreshFilesAreKept`: a sweep's list goes out of date while the sweep works.  `Listed` says
  what does not: each file in a listed directory is no newer than the list says, or was
  written since the sweep took the time.
- `SweepsReclaim`: `Watched` says of every removable directory that it is empty, was written
  since the sweep took the time, or is still as listed and still on the list; `Account` is the
  sweep's own count of what it removed and what withstood it.  A list that ends without
  being cut short then leaves nothing expired, and one that is cut short took the oldest first.
- `EndsAreClean`, assuming that stores do not fail: `EndInv` follows `end_session` through
  index, directory and rows, and says that a session no run and no end shared has runs at
  work only while it is live, so that nothing comes back to what was emptied.
- `TypeCorrect`, which the others use.

**EvaluationRequest_proofs**, for any presets, deployments,
datasets, requests and sizes, and any number of failing file operations:

- `TypeCorrect`, `RecordsArePaired`, `SpendIsAuthorised`, `ExitZeroMeansSound`,
  `QuarantineIsComplete`, all from one invariant, `Inv`.
- `ReportIsTrue`, from `Inv` and `Told`.

`ExpInv` is its part about the three nested loops.  `Grid` gives the number of records of each
mode and trial as a function of the loop variables, `Accounted` the number of all of them,
`Bounded` carries what the gate found from `Send` to `Answer`, where the ceilings are exceeded
by at most the last response, and `RunTrue` says what a run that is over claims.
`ExperimentRun` has no specification of its own, so the lemmas of the first half are about its
steps, and the second half applies them.  `FrontInv` says that what runs is the plan of a
request that was not refused; `PipeInv` where each file is and which scan knows of it: a
carrier of a credential is written by a stage, named by a scan, deleted or lost, in this
order, and the exit code is not 0 from the scan on; or a scan passes over it, and then it is
in `check.skipped` for good.  `Carriers` is what the scans would find in the files of the
stages, so `ScansComplete` says that they have named `Carriers \ check.skipped`.
`AftermathKeeps` covers what follows the unlinks, however it ends.

`ReportTrue` compares what three parts of the program say of one run.  `Books`, in `Told`,
relates the records to the budget while the loops run: the failures and skips of the budget are
the records of these kinds, counted over all modes and trials, and its other requests are
answers; a run that was stopped had reached a ceiling, and one called graded was paid for.
The totals of the artifact follow (`TotalsFollow`).  The rest of `Told` says that a request was
refused, or shown what there is to show, for good, and that a file is lost only
where the scans found something.  The rerun command describes the same plan again
(`RerunFollows`) because the modes it names are resolved already and named once, and because
a limit that differs from its preset's is one that was set.

The assumptions about the constants say that presets set the
limits their requests leave open, as the built-in ones do; that an alias stands for a
mode that is none itself, and that the two lists of modes name each once; that a prompt costs
at least a token; and that requests are ones that the form or the command line can
express.

**Replay_proofs**, for any conversations, any budgets, sizes and offered modes:

- `TypeCorrect`, `SessionsAreIsolated`, `ReferenceIsTheWhole`, for any number of requests.
- `EvidenceFits` and `SidebarIsTruthful`, assuming `MaxRequests = 1`: the sidebar waits for
  an answer before its next request; an API client and a replay have no such requests.  With
  two in flight `SidebarTruthful` fails, as described above, and `Evidenced` is not inductive:
  a selection that read its copy of the settings two changes of mode ago, and names the mode
  that the session is in again, puts the budgets of its copy under that mode.
  `SidebarIsTruthful` also takes the selector to offer the modes by their own names, as the
  sidebar does, and not under the alias of an earlier version.

`Typed` says besides the types that what was heard is a prefix of the conversation; `OneSession`
that an isolated service knows one session only; `Reference` that the raised ceiling, which
`RoomLeft` makes sufficient, reaches the turn.  `Evidenced` follows the settings through the
four places where a turn reads them: a turn that saw no change is built from evidence its
mode uses, and one whose budgets were not set by hand admits no other.  `Shows` says by how
much the sidebar may be ahead: the selector of the session's mode while a selection is
pending, the sliders of the budgets while any request is.

**Grading_proofs**, for any memories, policies and tasks, any ranking and any reports of the
runtime:

- `TypeCorrect`, `CandidatesAreAccounted`, `ConflictsAreSettled`, `FailuresAreLabelled`.

`SelectionInv` says that each memory is a survivor or was dropped once (`Accounted`), and that
just after the ranking a memory that is gone resembles one that is not (`Represented`).
That no subject is lost is `LastWord`: among memories that claim one thing each, dated by one
clock, one of those about a subject that none is newer than, by time or then by turn, is
replaced by none.  The duplicates dropped before lose no subject either: each resembles a
survivor, which `PlainRecall` takes to be about the same ones.  `GradingInv` says that the score is the one of some
verdict the task allows (`Graded`) and that the failure's type is among its labels; that
scorer and taxonomy agree then takes the order of the labels (`OrderOfLabels`,
`PrimaryFirst`), whose first is the type.

**SumTheorems** says what `SumFunctionOnSet` computes: `SumAdd`, `SumUnion`, `SumImage`,
`SumChange` and others, all for finite sets.  The community modules define it by a recursive function that takes
a chosen element out at a time; `SumsExist` and `SumsAgree` show, by the well-founded order
of strict subsets, that there is one such function as far as the set reaches.  Induction
is stated with a set of subsets in the place of a predicate (`SubsetInduction`,
`FiniteInduction`), so that no theorem has an operator for a parameter.

**Only model-checked:** liveness under fairness (`CallbacksReturn`, `Returns`), which is
beyond the proof system.

## Not modelled, and the plan

Not modelled at all: rendering (`panels.py`, the layout of `ui.py`), prompts' wording,
redaction and guards, token counting, the ranking of memories and chunks, means,
confidence intervals and effect sizes, plots and report texts, provenance, generation of
datasets, start-up and bundling.  These are text or numbers rather than state.

Of the scans' ways to miss a file two are left out: an output directory below `.git` or
`__pycache__`, whose files are not even listed as skipped (`security/scan.py:336`), and
directories that cannot be searched, where asking for a file's kind may itself raise.

State that is left: the ledger of security findings (`security/findings.py`), whose
`record` reads the turn outside its lock; SQLite's connections and WAL switch; the dry run
of the sweep and its command.

Proofs left: of what the passing runs check, only the two liveness properties are without a
theorem.  Some theorems assume more than the code guarantees, because their properties fail
otherwise: one handler, stores that do not fail, one request at a time.  What holds of two
handlers beyond `SessionsStayIsolated` and `TranscriptsSound` is open.
