-------------------------------- MODULE Grading --------------------------------
(***************************************************************************)
(* One benchmark question from the memories recalled for it to its failure *)
(* record: the selection (MemorySelection), what the prompt came to carry, *)
(* the score (evaluation/scoring.py) and the label the error taxonomy      *)
(* gives a defect (evaluation/errors.py).                                  *)
(*                                                                         *)
(* The scorer and the taxonomy read the same record and label it           *)
(* separately; errors.py promises that the two agree but for the           *)
(* refinements it documents.                                               *)
(***************************************************************************)
EXTENDS MemorySelection

CONSTANTS
    Facts,     \* the facts the task's conversation plants
    Tasks,     \* the evidence contracts questions come with
    Histories  \* sets of facts the rest of the prompt may carry

\* required, supporting and forbidden are facts; earlier are those planted before the
\* final session; answers says that accepted answers exist.
TaskRecords == [category : STRING, required : SUBSET Facts, supporting : SUBSET Facts,
                forbidden : SUBSET Facts, earlier : SUBSET Facts,
                unanswerable : BOOLEAN, answers : BOOLEAN]

Verdicts == {"correct", "incorrect", "abstained", "wrong_abstention", "stale_answer",
             "ungraded"}

\* The labels of the taxonomy, what the answer did before what the prompt was given.
AttributionOrder ==
    <<"hallucination", "wrong_abstention", "conflicting_memory", "stale_memory",
      "missed_memory", "irrelevant_memory", "over_compression", "under_compression",
      "wrong_memory">>

Labels == ToSet(AttributionOrder)

\* What score_retrieval says of a prompt, and what failure_record writes down.
RetrievalScores == [missing : SUBSET Facts, lost : SUBSET Facts, absent : SUBSET Facts,
                    forbidden : SUBSET Facts, unneeded : SUBSET Facts, evidence : BOOLEAN]
Classifications == [type : Labels, labels : SUBSET Labels, graded : BOOLEAN,
                    observed : BOOLEAN, latent : BOOLEAN, evidenceLost : BOOLEAN]
FailureRecords  == [class : Classifications, scorer : Labels \cup {"", "ungraded"}, verdict : Verdicts,
                    faithful : BOOLEAN \cup {None}, shown : RetrievalScores]

ASSUME NoneIsNoRecord == None \notin FailureRecords
ASSUME TasksTyped ==
    /\ Tasks # {} /\ Tasks \subseteq TaskRecords
    /\ Histories \subseteq SUBSET Facts
    /\ \A m \in Memories : m.facts \subseteq Facts /\ m.preview \subseteq m.facts

VARIABLES
    selecting, \* the mode shortlists evidence (mode_has_selection_stage)
    isolated,  \* the replay isolates sessions
    replay,    \* what the replay's record says of the facts
    task,      \* the question's task
    score,     \* the scored record, or None
    failure    \* the failure record, or None

gradeVars == <<selecting, isolated, replay, task, score, failure>>
vars == <<selVars, gradeVars>>

NoReplay == [retrieved |-> {}, prompt |-> {}, reason |-> [f \in Facts |-> ""], reasons |-> {}]
NoTask   == CHOOSE t \in Tasks : TRUE

\* A mode without a selection stage recalls nothing.
Init ==
    /\ SelInit
    /\ selecting \in BOOLEAN
    /\ isolated \in BOOLEAN
    /\ ~selecting => recall = <<>>
    /\ replay = NoReplay /\ task = NoTask
    /\ score = None /\ failure = None

Select == SelNext /\ UNCHANGED gradeVars

FactsOf(S) == UNION {recall[i].facts : i \in S}

\* _dropped_reason_by_fact: the first drop whose preview carries the fact.
DropReason(drops) ==
    [f \in Facts |->
        LET of == {d \in drops : /\ recall[d.memory].state # "empty"
                                 /\ f \in recall[d.memory].preview} IN
        IF of = {} THEN "" ELSE (CHOOSE d \in of : ~\E e \in of : Earlier(e, d)).reason]

\* The prompt carries the rest of the conversation the mode replays and the selected
\* memories, but for those over the memory budget.  The record lists every recalled
\* memory, selected or not, as retrieved.  The selection is over: its state is reset,
\* the record is all that is read from here on.
BuildPrompt ==
    /\ phase = "selected" /\ phase' = "built"
    /\ \E evicted \in SUBSET live, history \in Histories :
         LET drops == dropped \cup Drops(evicted, Pass.budget, All("memory_budget")) IN
         replay' = [retrieved |-> FactsOf(Recalled),
                    prompt    |-> history \cup FactsOf(live \ evicted),
                    reason    |-> DropReason(drops),
                    reasons   |-> {d.reason : d \in drops}]
    /\ recall' = <<>> /\ rank' = <<>> /\ live' = {} /\ dropped' = {}
    /\ contested' = {} /\ reported' = FALSE
    /\ policy' = CHOOSE p \in Policies : TRUE
    /\ UNCHANGED <<selecting, isolated, task, score, failure>>

\* Every required fact is out of the reach of a replay that isolates sessions.
ExpectsAbstention(t) ==
    t.unanswerable \/ (isolated /\ t.required # {} /\ t.required \subseteq t.earlier)

\* What an answer says: an accepted value, that it declines, a superseded value.
Says == {"accepted", "declines", "stale"}

\* score_answer: the accepted values before the stale ones, abstention between them;
\* where abstention is expected nothing else is correct.
Verdict(t, says) ==
    IF ExpectsAbstention(t) THEN IF "declines" \in says THEN "correct" ELSE "incorrect"
    ELSE CASE "accepted" \in says -> "correct"
           [] "accepted" \notin says /\ "declines" \in says -> "abstained"
           [] says = {"stale"} -> "stale_answer"
           [] says = {} -> "incorrect"

\* score_retrieval: what the retriever found and what the prompt came to carry.
RetrievalScore(t) ==
    LET absent == t.required \ replay.prompt IN
    [missing   |-> t.required \ replay.retrieved,
     lost      |-> absent \cap replay.retrieved,
     absent    |-> absent,
     forbidden |-> t.forbidden \cap replay.prompt,
     unneeded  |-> replay.prompt \ (t.required \cup t.supporting),
     evidence  |-> t.required # {} /\ absent = {}]

\* score_faithfulness: whether the answer stands on what the prompt carried; None where
\* nobody graded it.
Faithful(t, verdict) ==
    LET seen == RetrievalScore(t) IN
    CASE verdict = "ungraded" -> None
      [] verdict # "ungraded" /\ ExpectsAbstention(t) -> verdict = "correct"
      [] verdict \in {"abstained", "wrong_abstention"} /\ ~ExpectsAbstention(t) -> ~seen.evidence
      [] verdict = "correct" /\ ~ExpectsAbstention(t) -> seen.evidence
      [] verdict = "stale_answer" /\ ~ExpectsAbstention(t) -> seen.forbidden # {}
      [] OTHER -> FALSE

\* Mutant: the prompt is not looked at.
Scored_Unrefined(t, verdict) ==
    [verdict |-> verdict, faithful |-> Faithful(t, verdict),
     error   |-> IF verdict = "incorrect" /\ ~ExpectsAbstention(t) THEN "wrong_answer" ELSE ""]

\* _error_type and what score_record refines with the prompt in view.
Scored(t, verdict) ==
    LET seen    == RetrievalScore(t).evidence
        refined == IF verdict = "abstained" /\ seen THEN "wrong_abstention" ELSE verdict
    IN [verdict |-> refined, faithful |-> Faithful(t, refined),
        error   |-> CASE refined = "correct" -> ""
                      [] refined = "ungraded" -> "ungraded"
                      [] refined = "stale_answer" ->
                           IF t.category = "conflict" THEN "conflicting_memory"
                           ELSE "stale_memory"
                      [] refined = "wrong_abstention" -> "wrong_abstention"
                      [] refined = "abstained" -> "missed_memory"
                      [] refined = "incorrect" ->
                           IF ExpectsAbstention(t) \/ seen THEN "hallucination"
                           ELSE "missed_memory"]

\* An answer, empty or not, is scored; without text nobody graded it.
Grade ==
    /\ phase = "built" /\ phase' = "scored"
    /\ \E t \in Tasks :
         /\ task' = t
         /\ \/ score' = Scored(t, "ungraded")
            \/ \E says \in SUBSET Says :
                 /\ "accepted" \in says => t.answers
                 /\ "stale" \in says => t.forbidden # {}
                 /\ score' = Scored(t, Verdict(t, says))
    /\ UNCHANGED <<policy, recall, rank, live, dropped, contested, reported,
                   selecting, isolated, replay, failure>>

-----------------------------------------------------------------------------
(* evaluation/errors.py *)

VolumeReasons    == {"cap", "memory_budget"}
RelevanceReasons == {"low_relevance", "weak_relevance"}

LabelOf(reason) ==
    CASE reason \in RelevanceReasons -> "irrelevant_memory"
      [] reason \in {"stale", "expired"} -> "stale_memory"
      [] reason = "superseded" -> "conflicting_memory"
      [] reason \in VolumeReasons -> "over_compression"
      [] OTHER -> ""

Absent == RetrievalScore(task).absent

\* _blame_for_lost_facts: the reason the fact's own memory was dropped for, else what
\* the drops of the record suggest, else the retriever.
Blame(f) ==
    LET label == LabelOf(replay.reason[f])
        relevance == replay.reasons \cap RelevanceReasons # {}
        volume    == replay.reasons \cap VolumeReasons # {}
    IN
    IF label # "" THEN label
    ELSE IF f \in replay.retrieved
         THEN IF relevance /\ ~volume THEN "irrelevant_memory" ELSE "over_compression"
         ELSE IF selecting THEN "missed_memory" ELSE "over_compression"

ForbiddenShown == RetrievalScore(task).forbidden
Unneeded       == RetrievalScore(task).unneeded

\* What the answer did, then what the prompt was given.
AnswerSignals ==
    (IF score.verdict = "incorrect" /\ ExpectsAbstention(task) THEN {"hallucination"} ELSE {})
    \cup (IF score.verdict = "stale_answer"
          THEN {IF task.category = "conflict" THEN "conflicting_memory" ELSE "stale_memory"}
          ELSE {})
    \cup (IF score.verdict \in {"abstained", "wrong_abstention"} /\ RetrievalScore(task).evidence
          THEN {"wrong_abstention"} ELSE {})

PromptSignals ==
    (IF Absent # {} THEN {"over_compression"} ELSE {})
    \cup {Blame(f) : f \in Absent}
    \cup (IF ForbiddenShown # {} THEN {"under_compression"} ELSE {})

\* A wrong value although the evidence was there.
ResidualSignals ==
    IF score.verdict = "incorrect" /\ task.required # {} /\ Absent = {}
    THEN {IF ForbiddenShown \cup Unneeded # {} THEN "wrong_memory" ELSE "hallucination"}
    ELSE {}

\* Mutant: the labels of the prompt come before those of the answer.
Primary_PromptFirst(labels) ==
    LET order == SubSeq(AttributionOrder, 3, 9) \o SubSeq(AttributionOrder, 1, 2) IN
    order[CHOOSE i \in DOMAIN order : /\ order[i] \in labels
                                      /\ \A j \in 1..(i - 1) : order[j] \notin labels]

\* The failure type is the first of the labels in the attribution order.
Primary(labels) ==
    AttributionOrder[CHOOSE i \in DOMAIN AttributionOrder :
                         /\ AttributionOrder[i] \in labels
                         /\ \A j \in 1..(i - 1) : AttributionOrder[j] \notin labels]

\* FailureClassification: the primary label; the others contribute.  A defect of a record
\* whose answer nobody found wrong is latent.
Classification(labels) ==
    LET observed == score.verdict \notin {"correct", "ungraded"} IN
    [type |-> Primary(labels), labels |-> labels, graded |-> score.verdict # "ungraded",
     observed |-> observed, latent |-> ~observed,
     evidenceLost |-> "over_compression" \in labels]

\* failure_record joins it with what was retrieved, shown and scored.
FailureRecord(class) ==
    [class  |-> class, scorer |-> score.error, verdict |-> score.verdict,
     faithful |-> score.faithful, shown |-> RetrievalScore(task)]

\* classify_failure: no label, no record.
Classify ==
    LET signals == AnswerSignals \cup PromptSignals
        labels  == IF signals = {} THEN ResidualSignals ELSE signals IN
    /\ phase = "scored" /\ phase' = "classified"
    /\ failure' = IF labels = {} THEN None ELSE FailureRecord(Classification(labels))
    /\ UNCHANGED <<policy, recall, rank, live, dropped, contested, reported,
                   selecting, isolated, replay, task, score>>

\* The question is settled.
Done == phase = "classified" /\ UNCHANGED vars

Next == Select \/ BuildPrompt \/ Grade \/ Classify \/ Done
Spec == Init /\ [][Next]_vars

-----------------------------------------------------------------------------
\* The state is well formed.
TypeOK ==
    /\ SelTypeOK
    /\ phase \in {"recalled", "ranked", "resolved", "relevant", "selected", "built",
                  "scored", "classified"}
    /\ selecting \in BOOLEAN /\ isolated \in BOOLEAN
    /\ replay.retrieved \subseteq Facts /\ replay.prompt \subseteq Facts
    /\ task \in Tasks
    /\ phase \in {"scored", "classified"} =>
        score.verdict \in Verdicts /\ score.error \in Labels \cup {"", "ungraded"}
    /\ failure \in FailureRecords \cup {None}
    /\ failure # None => failure.class.type \in failure.class.labels

Classified == phase = "classified"

\* _labels_vs_scorer: what the report says of the two labels of a failure.
LabelsVsScorer ==
    CASE failure.scorer \in {"", "ungraded"} -> "unlabelled"
      [] failure.scorer = failure.class.type -> "agree"
      [] /\ failure.scorer \in {"missed_memory", "wrong_answer", "hallucination"}
         /\ failure.scorer # failure.class.type -> "refined"
      [] OTHER -> "unexpected"

\* errors.py:1007 counts the failures whose primary label contradicts a label the
\* scorer had decided, "unexpected must stay zero".  It does, except where a stale
\* answer outside the conflict category meets a required fact lost as superseded.
LabelAgrees ==
    failure # None /\ LabelsVsScorer = "unexpected" =>
        /\ score.error = "stale_memory" /\ failure.class.type = "conflicting_memory"
        /\ \E f \in Absent : replay.reason[f] = "superseded"

\* What the report counts as observed failures and latent defects.
Failed == \/ score.verdict \notin {"correct", "ungraded"}
          \/ ~ (task.required \subseteq replay.prompt)
          \/ ForbiddenShown # {}

\* The scorer and the taxonomy, which label a record separately, say the same of it.
\* A question with required evidence gets a failure record exactly if its answer was
\* graded and wrong, a required fact missed the prompt, or a forbidden one reached it;
\* so an answer the faithfulness rate counts as ungrounded is never without one.  The
\* record's label agrees with the scorer's, and it says that evidence was lost exactly
\* if the prompt lacks some.
FailuresLabelled ==
    Classified =>
        /\ LabelAgrees
        /\ task.required # {} =>
            /\ failure # None <=> Failed
            /\ failure = None => score.faithful # FALSE
        /\ failure # None =>
            /\ failure.class.evidenceLost <=> failure.shown.absent # {}
            /\ failure.class.observed => failure.class.graded
===============================================================================
