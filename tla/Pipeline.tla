-------------------------------- MODULE Pipeline --------------------------------
(***************************************************************************)
(* run_pipeline (evaluation/pipeline.py): the stages of an evaluation, the *)
(* first of which is the experiment of ExperimentRun, and what is done     *)
(* with their files.  A stage that raises is recorded and the others go    *)
(* on; when they are over the files are scanned for credentials, the       *)
(* manifest is written and scanned in turn, files with a finding are       *)
(* deleted, and the exit code says whether the run may be used.            *)
(*                                                                         *)
(* A file is its name: what it holds is settled by the answer that echoed  *)
(* a credential (leak), and only the manifest is written more than once.   *)
(***************************************************************************)
EXTENDS ExperimentRun

CONSTANTS
    MaxFaults  \* bound: operations on files that fail, and files a scan does not read

ASSUME FaultsTyped == MaxFaults \in Nat

VARIABLES
    todo,     \* the selected stages that have not run yet
    status,   \* the StageResults
    disk,     \* the files under the output directory
    context,  \* what the stages hand on, besides the experiment
    check,    \* files with findings: those of the stages, then those written last;
              \* and those that a scan passed over
    phase, exit,
    deleted,  \* the files the quarantine removed
    echoing,  \* the manifest on disk quotes the leaked credential
    faults,
    lost      \* history: files no unlink removed, or that a failed rewrite left

pipeVars == <<todo, status, disk, context, check, phase, exit, deleted, echoing,
              faults, lost>>

StageOrder == <<"experiment", "raw", "comparison", "statistics", "errors", "plots", "report">>
Stages == Range(StageOrder)

\* STAGE_DEPENDENCIES
Needs == [s \in Stages |-> CASE s = "experiment" -> {}
                             [] s = "comparison" -> {"raw"}
                             [] OTHER -> {"experiment"}]

Expanded(asked) ==
    LET direct == asked \cup UNION {Needs[s] : s \in asked}
    IN  direct \cup UNION {Needs[s] : s \in direct}

PipeInit(stages) ==
    /\ todo = stages
    /\ status = [s \in stages |-> "pending"]
    /\ disk = {}
    /\ context = [runs |-> 0, errors |-> FALSE, scanned |-> FALSE]
    /\ check = [stages |-> {}, report |-> {}, skipped |-> {}]
    /\ phase = "stages" /\ exit = 0
    /\ deleted = {} /\ echoing = FALSE
    /\ faults = 0 /\ lost = {}

-------------------------------------------------------------------------------
(* Files.                                                                  *)

File(name) == <<name, 0, 0>>
Manifest   == File("manifest")
Note       == File("quarantined")

\* The mode results come trial after trial, the modes in plan order; those of an
\* aborted run are the first of them.
RawFile(n) == <<"raw", ((n - 1) % Modes) + 1, ((n - 1) \div Modes) + 1>>

\* What a stage writes, in order.
Outputs(s) ==
    CASE s = "raw"    -> [n \in 1..Cardinality(run.results) |-> RawFile(n)]
      [] s = "errors" -> <<File("errors"), File("error-records")>>
      [] OTHER        -> <<File(s)>>

\* The report and the aggregates hold counts and labels, never an answer.
Echoes(f) ==
    /\ leak # NoLeak
    /\ \/ f[1] = "experiment"
       \/ f = <<"raw", leak.mode, leak.trial>>
       \/ f[1] = "error-records" /\ leak.quoted # "record"
       \/ f[1] = "errors" /\ leak.quoted = "example"
       \/ f = Manifest /\ echoing

\* scan_paths: a known credential is found by comparing with the run's secrets, one
\* shaped like a credential always, in the files that are read.  A file that is too
\* large, or fails its stat or read, is skipped: no finding, an entry in files_skipped.
Findings(files, skipped) == {f \in (files \cap disk) \ skipped : Echoes(f)}

\* What a scan of these files misses if it skips it; skipping any other changes nothing.
MayMiss(files) == {f \in files \cap disk : Echoes(f)}

\* Of the operations on files n go wrong.
Faulty(n) == faults + n <= MaxFaults /\ faults' = faults + n

\* _stage_paths: what the stages that ended well say they wrote.
Artifacts == UNION {Range(Outputs(s)) : s \in {u \in DOMAIN status : status[u] = "ok"}}

-------------------------------------------------------------------------------
(* The stages.                                                             *)

\* The selected stages run in their order.
AtStage(s) ==
    /\ phase = "stages" /\ s \in todo
    /\ \E i \in DOMAIN StageOrder : /\ StageOrder[i] = s
                                    /\ \A j \in 1..(i - 1) : StageOrder[j] \notin todo

EndStage(s, outcome) ==
    /\ AtStage(s)
    /\ todo' = todo \ {s}
    /\ status' = [status EXCEPT ![s] = outcome]
    /\ UNCHANGED <<phase, exit, deleted, echoing, lost>>

\* The experiment at work.
RunExperiment == AtStage("experiment") /\ ExpNext /\ UNCHANGED pipeVars

ExperimentFails ==
    /\ step = "raised"
    /\ EndStage("experiment", "failed")
    /\ UNCHANGED <<expVars, disk, context, check, faults>>

\* _missing_dependency
Missing(s) == \/ Needs[s] = {"experiment"} /\ run = None
              \/ Needs[s] = {"raw"} /\ context.runs = 0

SkipStage(s) ==
    /\ Missing(s) \/ s = "plots"  \* no renderer, or no figures wanted
    /\ EndStage(s, "skipped")
    /\ UNCHANGED <<expVars, disk, context, check, faults>>

\* _scan of what the stages wrote, with n faults besides the files it does not read.
ScanStages(n) ==
    \E skipped \in SUBSET MayMiss(Artifacts) :
        /\ Faulty(n + Cardinality(skipped))
        /\ check' = [check EXCEPT !.stages = Findings(Artifacts, skipped),
                                  !.skipped = skipped]

\* Of the stage's values a later stage or the manifest uses three: how many run
\* files are loaded, the error report, and the scan the report quotes.
Provide(s, runs, errors, n) ==
    /\ context' = [runs    |-> IF s = "raw" THEN runs ELSE context.runs,
                   errors  |-> context.errors \/ (s = "errors" /\ errors),
                   scanned |-> context.scanned \/ s = "report"]
    /\ IF s = "report" THEN ScanStages(n) ELSE Faulty(n) /\ UNCHANGED check

Ready(s) == IF s = "experiment" THEN step = "done" ELSE ~Missing(s)

StageSucceeds(s) ==
    /\ Ready(s)
    /\ EndStage(s, "ok")
    /\ disk' = disk \cup Range(Outputs(s))
    /\ Provide(s, Len(Outputs(s)), TRUE, 0)
    /\ UNCHANGED expVars

\* The stage raises after its first n files, maybe in the middle of the next one.
\* What it computed, and the run files so far, are already in the context.
StageFails(s, n, partly) ==
    /\ Ready(s)
    /\ EndStage(s, "failed")
    /\ n < Len(Outputs(s))
    /\ disk' = disk \cup {Outputs(s)[i] : i \in 1..(IF partly THEN n + 1 ELSE n)}
    /\ \E computed \in BOOLEAN : /\ (n > 0 \/ partly) => computed
                                 /\ Provide(s, n, computed, 1)
    /\ UNCHANGED expVars

-------------------------------------------------------------------------------
(* The manifest, the scans and the quarantine.                             *)

\* Mutant: a stage that failed does not spoil the run.
ExitCode_Stages(findings) ==
    IF findings # {} THEN 4
    ELSE IF run # None /\ run.violations # {} THEN 2
    ELSE IF run # None /\ run.aborted THEN 3
    ELSE 0

\* _exit_code
ExitCode(findings) ==
    IF findings # {} THEN 4
    ELSE IF run # None /\ run.violations # {} THEN 2
    ELSE IF run # None /\ run.aborted THEN 3
    ELSE IF \E s \in DOMAIN status : status[s] = "failed" THEN 4
    ELSE 0

\* The stages are scanned here if the report did not do it; the manifest quotes the
\* error report's examples.
WriteManifest ==
    /\ phase = "stages" /\ todo = {}
    /\ IF context.scanned THEN UNCHANGED <<check, faults>> ELSE ScanStages(0)
    /\ exit' = ExitCode(check'.stages)
    /\ disk' = disk \cup {Manifest}
    /\ echoing' = (context.errors /\ leak.quoted = "example")
    /\ phase' = "written"
    /\ UNCHANGED <<expVars, todo, status, context, deleted, lost>>

\* Writing the manifest raises: there is no result, and nobody cleans up.
ManifestFails ==
    /\ phase = "stages" /\ todo = {}
    /\ Faulty(1)
    /\ phase' = "raised"
    /\ UNCHANGED <<expVars, todo, status, disk, context, check, exit, deleted,
                   echoing, lost>>

\* The second scan: the manifest and the report's artifacts.
ScanReport ==
    LET written == {Manifest} \cup (Artifacts \cap {File("report")})
    IN  \E skipped \in SUBSET MayMiss(written) :
        LET found == Findings(written, skipped)
        IN  /\ phase = "written"
            /\ Faulty(Cardinality(skipped))
            /\ check' = [check EXCEPT !.report = found, !.skipped = @ \cup skipped]
            /\ exit' = IF found # {} THEN 4 ELSE exit
            /\ phase' = "scanned"
            /\ UNCHANGED <<expVars, todo, status, disk, context, deleted, echoing, lost>>

Named == check.stages \cup check.report

\* _quarantine: unlink what the scans named, as far as that is possible.
Quarantine(stuck) ==
    /\ phase = "scanned"
    /\ stuck \subseteq Named
    /\ Faulty(Cardinality(stuck))
    /\ lost' = lost \cup stuck
    /\ deleted' = Named \ stuck
    /\ disk' = disk \ deleted'
    /\ exit' = IF deleted' # {} THEN 4 ELSE exit
    /\ phase' = IF Manifest \in deleted' THEN "rewrite"
                ELSE IF Named # {} THEN "note" ELSE "returned"
    /\ UNCHANGED <<expVars, todo, status, context, check, echoing>>

\* Mutant: the manifest that replaces a deleted one is not scanned.
Rewritten_Trusted(skipped) == disk \cup {Manifest}

\* The new manifest is scanned without the run's secrets, and deleted on a finding.
Rewritten(skipped) ==
    disk \cup {f \in {Manifest} : leak.kind # "shaped" \/ f \in skipped}

\* _rewrite_quarantined_manifest: the known credentials are scrubbed from the payload,
\* anything shaped like one stays.
RewriteManifest ==
    \E skipped \in SUBSET {f \in {Manifest} : leak.kind = "shaped"} :
        /\ phase = "rewrite"
        /\ Faulty(Cardinality(skipped))
        /\ phase' = "note"
        /\ disk' = Rewritten(skipped)
        /\ check' = [check EXCEPT !.skipped = @ \cup skipped]
        /\ echoing' = (leak.kind = "shaped")
        /\ UNCHANGED <<expVars, todo, status, context, exit, deleted, lost>>

\* An OSError leaves the rewrite half done and unscanned.
RewriteFails(partly) ==
    /\ phase = "rewrite"
    /\ Faulty(1)
    /\ phase' = "note"
    /\ disk' = disk \cup {f \in {Manifest} : partly}
    /\ echoing' = (leak.kind = "shaped")
    /\ lost' = lost \cup {Manifest}
    /\ UNCHANGED <<expVars, todo, status, context, check, exit, deleted>>

\* QUARANTINED.txt names the files that were deleted.
WriteNote ==
    /\ phase = "note"
    /\ phase' = "returned"
    /\ disk' = disk \cup {Note}
    /\ UNCHANGED <<expVars, todo, status, context, check, exit, deleted, echoing,
                   faults, lost>>

\* Nobody catches what deleting the new manifest or writing the note raises.
QuarantineRaises ==
    /\ phase = "note" \/ (phase = "rewrite" /\ leak.kind = "shaped")
    /\ Faulty(1)
    /\ phase' = "raised"
    /\ disk' = disk \cup {f \in {Manifest} : phase = "rewrite"}
    /\ UNCHANGED <<expVars, todo, status, context, check, exit, deleted, echoing, lost>>

\* PipelineResult: what the author's client reads of it.  Without an experiment it
\* counts as a dry run.
PipelineResult ==
    LET ended(outcome) == {s \in DOMAIN status : status[s] = outcome}
    IN  [exit       |-> exit,
         dry        |-> run = None \/ dry,
         requests   |-> IF run = None THEN 0 ELSE run.requests,
         violations |-> run # None /\ run.violations # {},
         aborted    |-> run # None /\ run.aborted,
         failed     |-> ended("failed"),
         skipped    |-> ended("skipped"),
         findings   |-> Named,
         graded     |-> run # None /\ run.graded]

PipeNext ==
    \/ RunExperiment \/ ExperimentFails
    \/ \E s \in Stages : \/ SkipStage(s) \/ StageSucceeds(s)
                         \/ \E n \in 0..(Modes * Trials), partly \in BOOLEAN :
                                StageFails(s, n, partly)
    \/ WriteManifest \/ ManifestFails \/ ScanReport
    \/ \E stuck \in SUBSET Named : Quarantine(stuck)
    \/ RewriteManifest
    \/ \E partly \in BOOLEAN : RewriteFails(partly)
    \/ WriteNote \/ QuarantineRaises

-------------------------------------------------------------------------------
Files == {File(s) : s \in (Stages \ {"raw"}) \cup {"error-records", "manifest", "quarantined"}}
         \cup {RawFile(n) : n \in 1..(Modes * Trials)}

PipeTypeOK ==
    /\ ExpTypeOK
    /\ todo \subseteq DOMAIN status /\ DOMAIN status \subseteq Stages
    /\ Range(status) \subseteq {"pending", "ok", "skipped", "failed"}
    /\ context \in [runs : Nat, errors : BOOLEAN, scanned : BOOLEAN]
    /\ check \in [stages : SUBSET Files, report : SUBSET Files, skipped : SUBSET Files]
    /\ disk \subseteq Files /\ deleted \subseteq Files /\ lost \subseteq Files
    /\ phase \in {"stages", "written", "scanned", "rewrite", "note", "returned", "raised"}
    /\ exit \in {0, 2, 3, 4}
    /\ echoing \in BOOLEAN /\ faults \in 0..MaxFaults

\* Exit code 0 is worth something: every selected stage ran, or was skipped for a
\* reason (figures, or a caller that left a dependency out); the comparison held
\* its controls, was not stopped by a ceiling and is whole; its files are all
\* there, and none on disk holds a credential an answer echoed but one that a scan
\* passed over: such a file is listed in files_skipped, which neither the exit code
\* nor anything else looks at.
ExitZeroIsSound ==
    LET selected == DOMAIN status IN
    /\ PassedIsWhole
    /\ phase = "returned" /\ exit = 0 =>
        /\ \A s \in DOMAIN status :
              \/ status[s] = "ok" /\ Range(Outputs(s)) \subseteq disk
              \/ status[s] = "skipped" /\ (s = "plots" \/ Expanded(selected) # selected)
        /\ run # None => run.violations = {} /\ ~run.aborted
        /\ "experiment" \in DOMAIN status =>
              Cardinality({r \in run.results : r.complete}) = Modes * Trials
        /\ \A f \in disk : Echoes(f) => f \in check.skipped

\* When run_pipeline returns, no file with a credential is left but one that a scan
\* passed over, that could not be unlinked, or that a failing stage or rewrite left
\* behind; and if there ever was a finding the exit code is 4, also when the
\* comparison is no good either, and a note says what happened.  Nothing else is
\* deleted: what the other stages wrote is still there, and so is the manifest, unless
\* it is the carrier.
QuarantineComplete ==
    phase = "returned" =>
        /\ \A f \in disk : Echoes(f) =>
              \/ f \in lost \cup check.skipped
              \/ \E s \in DOMAIN status : status[s] = "failed" /\ f \in Range(Outputs(s))
        /\ Named # {} => exit = 4 /\ Note \in disk
        /\ \A f \in Artifacts : f \in disk \/ Echoes(f)
        /\ Manifest \in disk \/ leak.kind = "shaped" \/ Manifest \in lost
===============================================================================
