------------------------ MODULE EvaluationRequest_proofs -----------------------
(***************************************************************************)
(* Every request is served within its authority, and what a pipeline       *)
(* leaves behind is as its exit code says: for every policy, every preset  *)
(* and every request, whatever stage fails and whatever an answer echoes.  *)
(*                                                                         *)
(* The first half is about the steps of ExperimentRun, the second applies  *)
(* it to the behaviours that take these steps.  The experiment keeps its   *)
(* books: for every plan, whatever the provider answers and wherever a     *)
(* ceiling stops the loops, the ceilings hold, the records are paired, and *)
(* a run that no ceiling stopped is whole.  At the end, what the author of *)
(* a request is told is what happened.                                     *)
(***************************************************************************)
EXTENDS EvaluationRequest, SumTheorems

-------------------------------------------------------------------------------
(* The inductive invariant of the experiment.                              *)

PlanTyped ==
    /\ limits \in RunLimits /\ Trials \in Nat \ {0}
    /\ plan.available \in Nat /\ Modes \in Nat

\* The loops' position is that of a record still to be collected; past the last one
\* when they ended by themselves; and nowhere while no experiment is at work.
AtWork == at.trial \in TrialIds /\ at.task \in TaskIds /\ at.mode \in ModeIds
Beyond == at = [trial |-> Trials + 1, task |-> 1, mode |-> 1] /\ Selected > 0 /\ Modes > 0
Active == {"replay", "gate", "sent"}
Placed ==
    /\ step \in Active => AtWork
    /\ step = "finish" => IF aborted THEN AtWork ELSE Beyond
    /\ step \in {"idle", "done", "raised"} => at = First /\ budget = FreshBudget
    /\ aborted => step = "finish"

\* How many records of a mode and trial there are by then, each of its own task.
Size(m, t) == IF t < at.trial THEN Selected
              ELSE IF t > at.trial THEN 0
              ELSE IF m < at.mode THEN at.task ELSE at.task - 1
Grid ==
    \A m \in ModeIds, t \in TrialIds :
        /\ Len(collected[m][t]) = Size(m, t)
        /\ \A i \in DOMAIN collected[m][t] : collected[m][t][i].task = i

\* Every record was paid for once, or skipped.
Recorded == ((at.trial - 1) * Selected + at.task - 1) * Modes + at.mode - 1
Whole    == Selected * Modes * Trials
Accounted ==
    /\ step \in Active \cup {"finish"} =>
           calls = budget.requests + (IF step = "sent" THEN 1 ELSE 0)
    /\ step \in Active \cup {"finish"} /\ ~dry => budget.requests + budget.skips = Recorded
    /\ dry => calls = 0 /\ budget = FreshBudget /\ ~aborted /\ step \notin {"gate", "sent"}
    /\ calls <= Whole
    /\ step = "idle" => calls = 0

\* What the gate found still holds when the answer comes.
Bounded ==
    /\ limits.requests # None => calls <= limits.requests
    /\ limits.failures # None =>
           budget.failures + (IF step = "sent" THEN 1 ELSE 0) <= limits.failures
    /\ limits.total # None /\ step = "sent" => budget.tokens + prompt <= limits.total
    /\ limits.total # None =>
           \A top \in UsageSizes : (\A u \in UsageSizes : u <= top) =>
               budget.tokens <= limits.total + 2 * top

WholeRun == /\ \A r \in run.results : r.complete
            /\ Cardinality(run.results) = Modes * Trials

\* What a run that is over says.
RunTrue ==
    /\ run # None <=> step = "done"
    /\ run # None =>
        /\ run.requests = calls
        /\ run.aborted <=> ~WholeRun
        /\ Cardinality(run.results) \in 0..(Modes * Trials)
        /\ \/ ~run.aborted /\ run.requests + run.skips = Whole
           \/ run.aborted /\ run.requests + run.skips < Whole
           \/ dry /\ run.requests + run.skips = 0
        /\ dry => ~run.aborted

ExpInv == ExpTypeOK /\ PlanTyped /\ Placed /\ Grid /\ Accounted /\ Bounded /\ RunTrue

-------------------------------------------------------------------------------
(* Arithmetic and counting.                                                *)

\* The constants of a plan have the types the limits promise; the tasks selected are
\* a natural number and no more than the limit or the dataset.
LEMMA PlanFacts ==
    ASSUME PlanTyped
    PROVE  /\ Modes \in Nat /\ Trials \in Nat \ {0} /\ Selected \in Nat
           /\ limits.tasks \in Limit /\ limits.requests \in Limit /\ limits.input \in Limit
           /\ limits.total \in Limit /\ limits.failures \in Limit
           /\ Selected <= plan.available
           /\ limits.tasks # None => Selected <= limits.tasks
           /\ NoLeak.mode = 0
<1>1. limits.tasks \in Limit /\ limits.requests \in Limit /\ limits.input \in Limit
      /\ limits.total \in Limit /\ limits.failures \in Limit
  BY DEF PlanTyped, RunLimits
<1>2. Selected \in Nat /\ Selected <= plan.available
      /\ (limits.tasks # None => Selected <= limits.tasks)
  BY <1>1 DEF PlanTyped, Selected, Within, Limit
<1>3. QED
  BY <1>1, <1>2 DEF PlanTyped, NoLeak

\* Nothing an experiment does changes what follows from its plan.
LEMMA PlanKept ==
    ASSUME plan' = plan
    PROVE  /\ Modes' = Modes /\ Trials' = Trials /\ limits' = limits
           /\ ModeIds' = ModeIds /\ TrialIds' = TrialIds /\ Selected' = Selected
           /\ TaskIds' = TaskIds /\ Whole' = Whole /\ (PlanTyped => PlanTyped')
<1>1. Modes' = Modes /\ Trials' = Trials /\ limits' = limits
  BY DEF Modes, Trials, limits
<1>2. Selected' = Selected
  BY <1>1 DEF Selected, Within
<1>3. QED
  BY <1>1, <1>2 DEF ModeIds, TrialIds, TaskIds, Whole, PlanTyped

\* The loops count in a mixed radix: the position after the last mode is the first
\* mode of the next task, and that after the last task the first task of the next
\* trial; a position at work is below the total.
LEMMA Radix ==
    ASSUME NEW S \in Nat, NEW M \in Nat, NEW T \in Nat,
           NEW trial \in 1..T, NEW task \in 1..S, NEW mode \in 1..M
    PROVE  /\ (((trial - 1) * S + task - 1) * M + mode - 1) + 1
                  = ((trial - 1) * S + task - 1) * M + (mode + 1) - 1
           /\ mode = M => (((trial - 1) * S + task - 1) * M + mode - 1) + 1
                  = ((trial - 1) * S + (task + 1) - 1) * M + 1 - 1
           /\ mode = M /\ task = S => (((trial - 1) * S + task - 1) * M + mode - 1) + 1
                  = (((trial + 1) - 1) * S + 1 - 1) * M + 1 - 1
           /\ ((trial - 1) * S + task - 1) * M + mode - 1 < S * M * T
           /\ ((trial - 1) * S + task - 1) * M + mode - 1 \in Nat
<1> DEFINE q == (trial - 1) * S + task - 1
<1>1. (trial - 1) * S \in Nat /\ (trial - 1) * S <= (T - 1) * S
  OBVIOUS
<1>2. q \in Nat /\ q <= T * S - 1 /\ T * S \in Nat
  BY <1>1
<1>3. q * M \in Nat /\ q * M <= (T * S - 1) * M
  BY <1>2
<1>4. (T * S - 1) * M = S * M * T - M
  OBVIOUS
<1>5. q * M + mode - 1 < S * M * T /\ q * M + mode - 1 \in Nat
  BY <1>3, <1>4
<1>6. mode = M => (q * M + mode - 1) + 1 = (q + 1) * M
  BY <1>2
<1>7. q + 1 = (trial - 1) * S + (task + 1) - 1
  BY <1>2
<1>8. task = S => q + 1 = ((trial + 1) - 1) * S + 1 - 1
  BY <1>2
<1>9. QED
  BY <1>2, <1>3, <1>5, <1>6, <1>7, <1>8

\* Counting by tabulation: a set of records, one for each element of a finite set, has
\* as many elements.
LEMMA Tabulated ==
    ASSUME NEW D, IsFiniteSet(D), NEW f, NEW R,
           f \in [D -> R], \A r \in R : \E x \in D : f[x] = r,
           \A x, y \in D : f[x] = f[y] => x = y
    PROVE  IsFiniteSet(R) /\ Cardinality(R) = Cardinality(D)
<1>1. f \in Bijection(D, R)
  BY DEF Bijection, Injection, IsInjective, Surjection
<1>2. ExistsBijection(D, R)
  BY <1>1 DEF ExistsBijection
<1>3. QED
  BY <1>2, FS_Bijection

\* There are Modes * Trials pairs of a mode and a trial.
LEMMA PairsCounted ==
    ASSUME PlanTyped
    PROVE  /\ IsFiniteSet(ModeIds \X TrialIds)
           /\ Cardinality(ModeIds \X TrialIds) = Modes * Trials
<1>1. IsFiniteSet(ModeIds) /\ Cardinality(ModeIds) = Modes
  BY PlanFacts, FS_Interval DEF ModeIds
<1>2. IsFiniteSet(TrialIds) /\ Cardinality(TrialIds) = Trials
  BY PlanFacts, FS_Interval DEF TrialIds
<1>3. QED
  BY <1>1, <1>2, FS_Product

-------------------------------------------------------------------------------
(* A record is collected.                                                  *)

\* The position after the one at work is at work as well, or past the last one.
LEMMA NextPosition ==
    ASSUME PlanTyped, AtWork, at \in [trial : Nat, task : Nat, mode : ModeIds \cup {1}]
    PROVE  /\ Successor(at) \in [trial : Nat, task : Nat, mode : ModeIds \cup {1}]
           /\ Successor(at).trial \in TrialIds
                  => Successor(at).task \in TaskIds /\ Successor(at).mode \in ModeIds
           /\ Successor(at).trial \notin TrialIds
                  => /\ Successor(at) = [trial |-> Trials + 1, task |-> 1, mode |-> 1]
                     /\ Successor(at).trial > Trials /\ Selected > 0 /\ Modes > 0
           /\ \/ /\ at.mode < Modes
                 /\ Successor(at).trial = at.trial /\ Successor(at).task = at.task
                 /\ Successor(at).mode = at.mode + 1
              \/ /\ at.mode = Modes /\ at.task < Selected
                 /\ Successor(at).trial = at.trial /\ Successor(at).task = at.task + 1
                 /\ Successor(at).mode = 1
              \/ /\ at.mode = Modes /\ at.task = Selected
                 /\ Successor(at).trial = at.trial + 1 /\ Successor(at).task = 1
                 /\ Successor(at).mode = 1
<1>1. Modes \in Nat /\ Trials \in Nat \ {0} /\ Selected \in Nat
  BY PlanFacts
<1>2. at.trial \in 1..Trials /\ at.task \in 1..Selected /\ at.mode \in 1..Modes
  BY DEF AtWork, TrialIds, TaskIds, ModeIds
<1>3. CASE at.mode < Modes
  BY <1>1, <1>2, <1>3 DEF Successor, TrialIds, TaskIds, ModeIds
<1>4. CASE at.mode = Modes /\ at.task < Selected
  BY <1>1, <1>2, <1>4 DEF Successor, TrialIds, TaskIds, ModeIds
<1>5. CASE at.mode = Modes /\ at.task = Selected
  BY <1>1, <1>2, <1>5 DEF Successor, TrialIds, TaskIds, ModeIds
<1>6. QED
  BY <1>1, <1>2, <1>3, <1>4, <1>5

\* The record joins those of its mode and trial, and the others stay as they are.
LEMMA RecordJoins ==
    ASSUME PlanTyped, AtWork, collected \in [ModeIds -> [TrialIds -> Seq(Record)]],
           at \in [trial : Nat, task : Nat, mode : ModeIds \cup {1}],
           NEW kind \in Kinds, NEW model \in {"requested", "other"},
           Collect(kind, model)
    PROVE  /\ collected' \in [ModeIds -> [TrialIds -> Seq(Record)]]
           /\ \A m \in ModeIds, t \in TrialIds :
                  collected'[m][t] =
                      IF m = at.mode /\ t = at.trial
                      THEN Append(collected[m][t],
                                  [task |-> at.task, kind |-> kind, model |-> model])
                      ELSE collected[m][t]
<1> DEFINE r == [task |-> at.task, kind |-> kind, model |-> model]
<1>1. at.trial \in TrialIds /\ at.mode \in ModeIds /\ at.task \in Nat
  BY DEF AtWork
<1>2. r \in Record
  BY <1>1 DEF Record
<1>3. collected' = [collected EXCEPT ![at.mode][at.trial] = Append(@, r)]
  BY DEF Collect
<1> HIDE DEF r
<1>4. collected[at.mode][at.trial] \in Seq(Record)
  BY <1>1
<1>5. Append(collected[at.mode][at.trial], r) \in Seq(Record)
  BY <1>2, <1>4
<1>6. \A m \in ModeIds, t \in TrialIds :
          collected'[m][t] = IF m = at.mode /\ t = at.trial
                             THEN Append(collected[m][t], r) ELSE collected[m][t]
  BY <1>1, <1>3
<1>7. collected' \in [ModeIds -> [TrialIds -> Seq(Record)]]
  BY <1>1, <1>3, <1>5
<1>8. QED
  BY <1>6, <1>7 DEF r

\* A record collected at a position keeps the modes in step and counts one more.
LEMMA CollectKeeps ==
    ASSUME ExpInv, AtWork, NEW kind \in Kinds, NEW model \in {"requested", "other"},
           Collect(kind, model), plan' = plan
    PROVE  /\ collected' \in [ModeIds -> [TrialIds -> Seq(Record)]]
           /\ at' \in [trial : Nat, task : Nat, mode : ModeIds \cup {1}]
           /\ Grid'
           /\ (step' = "replay" /\ AtWork') \/ (step' = "finish" /\ Beyond')
           /\ Recorded' = Recorded + 1
<1>1. PlanTyped /\ collected \in [ModeIds -> [TrialIds -> Seq(Record)]]
      /\ at \in [trial : Nat, task : Nat, mode : ModeIds \cup {1}] /\ Grid
  BY DEF ExpInv, ExpTypeOK
<1>2. Modes \in Nat /\ Trials \in Nat \ {0} /\ Selected \in Nat
  BY <1>1, PlanFacts
<1>3. at.trial \in 1..Trials /\ at.task \in 1..Selected /\ at.mode \in 1..Modes
  BY DEF AtWork, TrialIds, TaskIds, ModeIds
<1>4. /\ Modes' = Modes /\ Trials' = Trials /\ Selected' = Selected
      /\ ModeIds' = ModeIds /\ TrialIds' = TrialIds /\ TaskIds' = TaskIds
  BY PlanKept
<1>5. at' = Successor(at) /\ step' = IF Successor(at).trial > Trials THEN "finish" ELSE "replay"
  BY DEF Collect
<1>6. at' \in [trial : Nat, task : Nat, mode : ModeIds \cup {1}]
  BY <1>1, <1>5, NextPosition
<1>7. \/ /\ at.mode < Modes
         /\ at'.trial = at.trial /\ at'.task = at.task /\ at'.mode = at.mode + 1
      \/ /\ at.mode = Modes /\ at.task < Selected
         /\ at'.trial = at.trial /\ at'.task = at.task + 1 /\ at'.mode = 1
      \/ /\ at.mode = Modes /\ at.task = Selected
         /\ at'.trial = at.trial + 1 /\ at'.task = 1 /\ at'.mode = 1
  BY <1>1, <1>5, NextPosition
<1>8. (step' = "replay" /\ AtWork') \/ (step' = "finish" /\ Beyond')
  <2>1. CASE at'.trial \in TrialIds
    BY <1>1, <1>2, <1>4, <1>5, <2>1, NextPosition DEF AtWork, TrialIds
  <2>2. CASE at'.trial \notin TrialIds
    BY <1>1, <1>2, <1>4, <1>5, <2>2, NextPosition DEF Beyond
  <2>3. QED
    BY <2>1, <2>2
<1>9. Recorded' = Recorded + 1
  BY <1>2, <1>3, <1>4, <1>7, Radix DEF Recorded
<1>10. collected' \in [ModeIds -> [TrialIds -> Seq(Record)]]
  BY <1>1, RecordJoins
<1>11. ASSUME NEW m \in ModeIds, NEW t \in TrialIds
       PROVE  /\ Len(collected'[m][t]) = Size(m, t)'
              /\ \A i \in DOMAIN collected'[m][t] : collected'[m][t][i].task = i
  <2> DEFINE s == collected[m][t]
  <2> DEFINE r == [task |-> at.task, kind |-> kind, model |-> model]
  <2>1. s \in Seq(Record) /\ Len(s) = Size(m, t) /\ \A i \in DOMAIN s : s[i].task = i
    BY <1>1 DEF Grid
  <2>2. collected'[m][t] = IF m = at.mode /\ t = at.trial THEN Append(s, r) ELSE s
    <3>1. \A x \in ModeIds, u \in TrialIds :
              collected'[x][u] =
                  IF x = at.mode /\ u = at.trial
                  THEN Append(collected[x][u],
                              [task |-> at.task, kind |-> kind, model |-> model])
                  ELSE collected[x][u]
      BY <1>1, RecordJoins
    <3>2. QED
      BY <3>1
  <2>3. m \in 1..Modes /\ t \in 1..Trials /\ r.task = at.task
    BY DEF ModeIds, TrialIds
  <2> HIDE DEF s, r
  <2>4. CASE m = at.mode /\ t = at.trial
    <3>1. Size(m, t) = at.task - 1 /\ Size(m, t)' = at.task
      BY <1>2, <1>3, <1>4, <1>7, <2>3, <2>4 DEF Size
    <3>2. collected'[m][t] = Append(s, r) /\ Len(s) = at.task - 1
      BY <2>1, <2>2, <2>4, <3>1
    <3>3. Len(Append(s, r)) = at.task
      BY <1>3, <2>1, <3>2
    <3>4. \A i \in DOMAIN Append(s, r) : Append(s, r)[i].task = i
      BY <1>3, <2>1, <2>3, <3>2
    <3>5. QED
      BY <3>1, <3>2, <3>3, <3>4
  <2>5. CASE ~(m = at.mode /\ t = at.trial)
    <3>1. Size(m, t)' = Size(m, t)
      BY <1>2, <1>3, <1>4, <1>7, <2>3, <2>5 DEF Size
    <3>2. QED
      BY <2>1, <2>2, <2>5, <3>1
  <2>6. QED
    BY <2>4, <2>5
<1>12. Grid'
  BY <1>4, <1>11 DEF Grid
<1>13. QED
  BY <1>6, <1>8, <1>9, <1>10, <1>12

-------------------------------------------------------------------------------
(* The steps.                                                              *)

\* While the loops are at work there is no run yet, and no ceiling has been met.
LEMMA NoRunYet ==
    ASSUME ExpInv, step \notin {"finish", "done", "raised"}
    PROVE  run = None /\ ~aborted
BY DEF ExpInv, ExpTypeOK, Placed, RunTrue

\* While there is no run nothing is said of it.
LEMMA RunKept ==
    ASSUME ExpInv, step' # "done", run' = None
    PROVE  RunTrue'
BY DEF RunTrue

\* The loops begin at the first task, with nothing spent.
LEMMA BeginKeeps ==
    ASSUME ExpInv, Modes > 0, BeginExperiment
    PROVE  ExpInv'
<1>1. /\ step = "idle" /\ step' = "replay" /\ Selected > 0 /\ calls = 0
      /\ UNCHANGED <<plan, dry, at, prompt, collected, budget, aborted, calls, leak, run>>
      /\ at = First /\ budget = FreshBudget
  BY DEF BeginExperiment, Proceed, counters, ExpInv, Placed, Accounted
<1>2. PlanTyped /\ PlanTyped' /\ Modes \in Nat /\ Trials \in Nat \ {0} /\ Selected \in Nat
      /\ Modes' = Modes /\ Trials' = Trials /\ Selected' = Selected /\ ModeIds' = ModeIds
      /\ TrialIds' = TrialIds /\ TaskIds' = TaskIds /\ limits' = limits /\ Whole' = Whole
  BY <1>1, PlanFacts, PlanKept DEF ExpInv
<1>3. ExpTypeOK'
  BY <1>1, <1>2 DEF ExpInv, ExpTypeOK
<1>4. Placed'
  BY <1>1, <1>2, NoRunYet DEF Placed, AtWork, First, TrialIds, TaskIds, ModeIds, Active
<1>5. Grid'
  BY <1>1, <1>2 DEF ExpInv, Grid, Size
<1>6. Recorded = 0 /\ Recorded' = 0
  BY <1>1, <1>2 DEF Recorded, First
<1>7. Accounted'
  BY <1>1, <1>2, <1>6, NoRunYet DEF ExpInv, Accounted, Active, FreshBudget
<1>8. Bounded'
  BY <1>1, <1>2 DEF ExpInv, Bounded
<1>9. RunTrue'
  BY <1>1, NoRunYet, RunKept
<1>10. QED
  BY <1>2, <1>3, <1>4, <1>5, <1>7, <1>8, <1>9 DEF ExpInv

\* An experiment that raises leaves nothing behind but the calls it made.
LEMMA RaiseKeeps ==
    ASSUME ExpInv, step \in {"idle", "replay", "gate"}, step' = "raised", Unwind,
           leak' \in {leak, NoLeak}, UNCHANGED <<plan, dry, calls, run>>
    PROVE  ExpInv'
<1>1. PlanTyped /\ PlanTyped' /\ Modes \in Nat /\ Trials \in Nat \ {0} /\ Selected \in Nat
      /\ Modes' = Modes /\ Trials' = Trials /\ Selected' = Selected /\ ModeIds' = ModeIds
      /\ TrialIds' = TrialIds /\ TaskIds' = TaskIds /\ limits' = limits /\ Whole' = Whole
      /\ NoLeak.mode = 0
  BY PlanFacts, PlanKept DEF ExpInv
<1>2. /\ collected' = [m \in ModeIds |-> [t \in TrialIds |-> <<>>]]
      /\ at' = [trial |-> 1, task |-> 1, mode |-> 1] /\ prompt' = 0 /\ aborted' = FALSE
      /\ budget' = [requests |-> 0, tokens |-> 0, failures |-> 0, skips |-> 0]
  BY DEF Unwind, First, FreshBudget
<1>3. ExpTypeOK'
  <2>1. collected' \in [ModeIds' -> [TrialIds' -> Seq(Record)]]
    BY <1>1, <1>2
  <2>2. at' \in [trial : Nat, task : Nat, mode : ModeIds' \cup {1}]
        /\ budget' \in [requests : Nat, tokens : Nat, failures : Nat, skips : Nat]
    BY <1>2
  <2>3. leak'.mode \in 0..Modes'
    BY <1>1 DEF ExpInv, ExpTypeOK
  <2>4. /\ limits' \in RunLimits /\ Trials' \in Nat \ {0} /\ plan'.available \in Nat
        /\ dry' \in BOOLEAN /\ calls' \in Nat /\ run' = None
    BY <1>1, NoRunYet DEF ExpInv, ExpTypeOK
  <2>5. aborted' \in BOOLEAN /\ prompt' \in Nat /\ step' = "raised"
    BY <1>2
  <2>6. QED
    BY <2>1, <2>2, <2>3, <2>4, <2>5 DEF ExpTypeOK
<1>4. Placed'
  BY <1>1, <1>2 DEF Placed, Active, Unwind
<1>5. Grid'
  <2>1. ASSUME NEW m \in ModeIds, NEW t \in TrialIds
        PROVE  collected'[m][t] = <<>> /\ Size(m, t)' = 0
    <3>1. m \in 1..Modes /\ t \in 1..Trials
      BY DEF ModeIds, TrialIds
    <3>2. QED
      BY <1>1, <1>2, <3>1 DEF Size
  <2>2. QED
    BY <1>1, <2>1 DEF Grid
<1>6. Accounted'
  BY <1>1, <1>2 DEF ExpInv, Accounted, Active, FreshBudget
<1>7. Bounded'
  <2>1. limits.failures # None => 0 <= limits.failures
    BY <1>1, PlanFacts DEF Limit
  <2>2. \A top \in UsageSizes : limits.total # None => 0 <= limits.total + 2 * top
    BY <1>1, PlanFacts, SizesTyped DEF Limit
  <2>3. QED
    BY <1>1, <1>2, <2>1, <2>2 DEF ExpInv, Bounded
<1>8. RunTrue'
  BY NoRunYet, RunKept
<1>9. QED
  BY <1>1, <1>3, <1>4, <1>5, <1>6, <1>7, <1>8 DEF ExpInv

\* A prompt goes to the gate as it was built.
LEMMA ReplayKeeps ==
    ASSUME ExpInv, NEW tokens \in PromptSizes, Replay(tokens)
    PROVE  ExpInv'
<1>1. /\ step = "replay" /\ step' = "gate" /\ ~dry /\ prompt' = tokens /\ tokens \in Nat
      /\ UNCHANGED <<plan, dry, at, collected, budget, aborted, calls, leak, run>>
  BY SizesTyped DEF Replay, Proceed, counters
<1>2. PlanTyped /\ PlanTyped' /\ Modes' = Modes /\ Trials' = Trials /\ Selected' = Selected
      /\ ModeIds' = ModeIds /\ TrialIds' = TrialIds /\ TaskIds' = TaskIds
      /\ limits' = limits /\ Whole' = Whole
  BY <1>1, PlanKept DEF ExpInv
<1>3. ExpTypeOK'
  BY <1>1, <1>2 DEF ExpInv, ExpTypeOK
<1>4. Placed'
  BY <1>1, <1>2 DEF ExpInv, Placed, AtWork, Active
<1>5. Grid'
  BY <1>1, <1>2 DEF ExpInv, Grid, Size
<1>6. Recorded' = Recorded
  BY <1>1, <1>2 DEF Recorded
<1>7. Accounted'
  BY <1>1, <1>2, <1>6 DEF ExpInv, Accounted, Active
<1>8. Bounded'
  BY <1>1, <1>2 DEF ExpInv, Bounded
<1>9. RunTrue'
  BY <1>1, NoRunYet, RunKept
<1>10. QED
  BY <1>2, <1>3, <1>4, <1>5, <1>7, <1>8, <1>9 DEF ExpInv

\* At the gate the run may stop for good, where it stands.
LEMMA StopKeeps ==
    ASSUME ExpInv, Stop
    PROVE  ExpInv'
<1>1. /\ step = "gate" /\ step' = "finish" /\ aborted' = TRUE
      /\ UNCHANGED <<plan, dry, at, prompt, collected, budget, calls, leak, run>>
  BY DEF Stop, Proceed, counters
<1>2. PlanTyped /\ PlanTyped' /\ Modes' = Modes /\ Trials' = Trials /\ Selected' = Selected
      /\ ModeIds' = ModeIds /\ TrialIds' = TrialIds /\ TaskIds' = TaskIds
      /\ limits' = limits /\ Whole' = Whole
  BY <1>1, PlanKept DEF ExpInv
<1>3. ExpTypeOK'
  BY <1>1, <1>2 DEF ExpInv, ExpTypeOK
<1>4. Placed'
  BY <1>1, <1>2 DEF ExpInv, Placed, AtWork, Active
<1>5. Grid'
  BY <1>1, <1>2 DEF ExpInv, Grid, Size
<1>6. Recorded' = Recorded
  BY <1>1, <1>2 DEF Recorded
<1>7. Accounted'
  BY <1>1, <1>2, <1>6 DEF ExpInv, Accounted, Active
<1>8. Bounded'
  BY <1>1, <1>2 DEF ExpInv, Bounded
<1>9. RunTrue'
  BY <1>1, NoRunYet, RunKept
<1>10. QED
  BY <1>2, <1>3, <1>4, <1>5, <1>7, <1>8, <1>9 DEF ExpInv

\* Whatever is collected, the invariant holds if the budget was charged for it.
LEMMA CollectingKeeps ==
    ASSUME ExpInv, step \in Active,
           NEW kind \in Kinds, NEW model \in {"requested", "other"}, Collect(kind, model),
           UNCHANGED <<plan, dry, prompt, aborted, calls, run>>,
           budget' \in [requests : Nat, tokens : Nat, failures : Nat, skips : Nat],
           leak'.mode \in 0..Modes,
           calls = budget'.requests,
           dry => budget' = budget,
           ~dry => budget'.requests + budget'.skips = budget.requests + budget.skips + 1,
           limits.failures # None => budget'.failures <= limits.failures,
           limits.total # None =>
               \A top \in UsageSizes : (\A u \in UsageSizes : u <= top) =>
                   budget'.tokens <= limits.total + 2 * top
    PROVE  ExpInv'
<1>1. PlanTyped /\ PlanTyped' /\ Modes' = Modes /\ Trials' = Trials /\ Selected' = Selected
      /\ ModeIds' = ModeIds /\ TrialIds' = TrialIds /\ TaskIds' = TaskIds
      /\ limits' = limits /\ Whole' = Whole
  BY PlanKept DEF ExpInv
<1>2. AtWork /\ run = None /\ ~aborted
  BY NoRunYet DEF ExpInv, Placed, Active
<1>3. /\ collected' \in [ModeIds' -> [TrialIds' -> Seq(Record)]]
      /\ at' \in [trial : Nat, task : Nat, mode : ModeIds' \cup {1}]
      /\ Grid'
      /\ (step' = "replay" /\ AtWork') \/ (step' = "finish" /\ Beyond')
      /\ Recorded' = Recorded + 1
  BY <1>1, <1>2, CollectKeeps
<1>4. ExpTypeOK'
  <2>1. /\ limits' \in RunLimits /\ Trials' \in Nat \ {0} /\ plan'.available \in Nat
        /\ dry' \in BOOLEAN /\ aborted' \in BOOLEAN /\ prompt' \in Nat /\ calls' \in Nat
    BY <1>1 DEF ExpInv, ExpTypeOK
  <2>2. step' \in {"replay", "finish"} /\ run' = None /\ leak'.mode \in 0..Modes'
    BY <1>1, <1>2, <1>3
  <2>3. QED
    BY <1>3, <2>1, <2>2 DEF ExpTypeOK
<1>5. Placed'
  BY <1>2, <1>3 DEF Placed, Active
<1>6. Accounted'
  BY <1>1, <1>2, <1>3 DEF ExpInv, Accounted, Active, FreshBudget
<1>7. Bounded'
  BY <1>1, <1>3 DEF ExpInv, Bounded
<1>8. RunTrue'
  BY <1>2, <1>3, RunKept
<1>9. QED
  BY <1>1, <1>3, <1>4, <1>5, <1>6, <1>7, <1>8 DEF ExpInv

\* What the budget and the leak are while a record is at work.
LEMMA AtWorkFacts ==
    ASSUME ExpInv, step \in Active
    PROVE  /\ budget \in [requests : Nat, tokens : Nat, failures : Nat, skips : Nat]
           /\ leak.mode \in 0..Modes /\ prompt \in Nat /\ calls \in Nat
           /\ at.mode \in 1..Modes /\ at.trial \in 1..Trials /\ at.task \in 1..Selected
           /\ Modes \in Nat /\ Trials \in Nat /\ Selected \in Nat
           /\ limits.requests \in Nat \cup {None} /\ limits.total \in Nat \cup {None}
           /\ limits.failures \in Nat \cup {None}
<1>1. PlanTyped /\ AtWork
  BY DEF ExpInv, Placed
<1>2. QED
  BY <1>1, PlanFacts DEF ExpInv, ExpTypeOK, AtWork, ModeIds, TrialIds, TaskIds, Limit

\* Measuring costs nothing.
LEMMA MeasureKeeps ==
    ASSUME ExpInv, Measure
    PROVE  ExpInv'
<1>1. /\ step = "replay" /\ dry /\ Collect("measured", "requested")
      /\ UNCHANGED <<plan, dry, prompt, budget, aborted, calls, leak, run>>
  BY DEF Measure
<1>2. calls = budget.requests
  BY <1>1, AtWorkFacts DEF ExpInv, Accounted, Active
<1>3. step \in Active /\ "measured" \in Kinds
  BY <1>1 DEF Active, Kinds
<1>4. budget' \in [requests : Nat, tokens : Nat, failures : Nat, skips : Nat]
      /\ leak'.mode \in 0..Modes
  BY <1>1, <1>3, AtWorkFacts
<1>5. QED
  BY <1>1, <1>2, <1>3, <1>4, CollectingKeeps DEF ExpInv, Bounded

\* A prompt that does not fit is counted as skipped.
LEMMA SkipKeeps ==
    ASSUME ExpInv, Skip
    PROVE  ExpInv'
<1>1. /\ step = "gate" /\ Collect("skipped", "requested")
      /\ budget' = [budget EXCEPT !.skips = @ + 1]
      /\ UNCHANGED <<plan, dry, prompt, aborted, calls, leak, run>>
  BY DEF Skip
<1>2. calls = budget.requests /\ ~dry
  BY <1>1, AtWorkFacts DEF ExpInv, Accounted, Active
<1>3. step \in Active /\ "skipped" \in Kinds
  BY <1>1 DEF Active, Kinds
<1>4. budget \in [requests : Nat, tokens : Nat, failures : Nat, skips : Nat]
      /\ leak'.mode \in 0..Modes
  BY <1>1, <1>3, AtWorkFacts
<1>5. budget' \in [requests : Nat, tokens : Nat, failures : Nat, skips : Nat]
      /\ budget'.requests = budget.requests /\ budget'.skips = budget.skips + 1
      /\ budget'.failures = budget.failures /\ budget'.tokens = budget.tokens
  BY <1>1, <1>4
<1>6. budget'.requests + budget'.skips = budget.requests + budget.skips + 1
  BY <1>4, <1>5
<1>7. QED
  BY <1>1, <1>2, <1>3, <1>4, <1>5, <1>6, CollectingKeeps DEF ExpInv, Bounded

\* charge: a request, and its tokens.
LEMMA ChargedBudget ==
    ASSUME budget \in [requests : Nat, tokens : Nat, failures : Nat, skips : Nat],
           NEW input \in Nat, NEW output \in Nat, NEW failed \in BOOLEAN
    PROVE  LET b == Charged(input, output, failed)
           IN  /\ b \in [requests : Nat, tokens : Nat, failures : Nat, skips : Nat]
               /\ b.requests = budget.requests + 1 /\ b.skips = budget.skips
               /\ b.tokens = budget.tokens + input + output
               /\ b.failures = budget.failures + (IF failed THEN 1 ELSE 0)
BY DEF Charged

\* The gate lets a request through only while every ceiling leaves room for one more.
LEMMA SendKeeps ==
    ASSUME ExpInv, Send
    PROVE  ExpInv'
<1>1. /\ step = "gate" /\ step' = "sent" /\ MayRequest
      /\ UNCHANGED <<plan, dry, at, prompt, collected, budget, aborted, leak, run>>
      /\ \E tries \in 1..Attempts : calls' = calls + tries
  BY DEF Send, Proceed, counters
<1>2. PlanTyped /\ PlanTyped' /\ Modes' = Modes /\ Trials' = Trials /\ Selected' = Selected
      /\ ModeIds' = ModeIds /\ TrialIds' = TrialIds /\ TaskIds' = TaskIds
      /\ limits' = limits /\ Whole' = Whole
  BY <1>1, PlanKept DEF ExpInv
<1>3. /\ budget \in [requests : Nat, tokens : Nat, failures : Nat, skips : Nat]
      /\ prompt \in Nat /\ calls \in Nat
      /\ at.mode \in 1..Modes /\ at.trial \in 1..Trials /\ at.task \in 1..Selected
      /\ Modes \in Nat /\ Trials \in Nat /\ Selected \in Nat
      /\ limits.requests \in Nat \cup {None} /\ limits.failures \in Nat \cup {None}
  BY <1>1, AtWorkFacts DEF Active
<1>4. calls' = calls + 1
  BY <1>1, <1>3 DEF Attempts
<1>5. calls = budget.requests /\ ~dry /\ budget.requests + budget.skips = Recorded
  BY <1>1, <1>3 DEF ExpInv, Accounted, Active
<1>6. Recorded' = Recorded /\ Recorded < Whole /\ Recorded \in Nat
  <2>1. Recorded < Whole /\ Recorded \in Nat
    BY <1>3, Radix DEF Recorded, Whole
  <2>2. QED
    BY <1>1, <1>2, <2>1 DEF Recorded
<1>7. ExpTypeOK'
  BY <1>1, <1>2, <1>3, <1>4 DEF ExpInv, ExpTypeOK
<1>8. Placed'
  BY <1>1, <1>2 DEF ExpInv, Placed, AtWork, Active
<1>9. Grid'
  BY <1>1, <1>2 DEF ExpInv, Grid, Size
<1>10. Accounted'
  <2>1. calls' <= Whole'
    BY <1>2, <1>3, <1>4, <1>5, <1>6 DEF Whole
  <2>2. QED
    BY <1>1, <1>3, <1>4, <1>5, <1>6, <2>1 DEF Accounted, Active
<1>11. Bounded'
  <2>1. limits.requests # None => calls' <= limits.requests
    BY <1>1, <1>3, <1>4, <1>5 DEF MayRequest, Within
  <2>2. limits.failures # None => budget.failures + 1 <= limits.failures
    BY <1>1, <1>3 DEF MayRequest, Within
  <2>3. limits.total # None => budget.tokens + prompt <= limits.total
    BY <1>1 DEF MayRequest
  <2>4. QED
    BY <1>1, <1>2, <2>1, <2>2, <2>3 DEF ExpInv, Bounded
<1>12. RunTrue'
  BY <1>1, NoRunYet, RunKept
<1>13. QED
  BY <1>2, <1>7, <1>8, <1>9, <1>10, <1>11, <1>12 DEF ExpInv

\* Whatever a response costs, it was let through: the requests and failures stay below
\* their ceilings, the tokens pass theirs by no more than the response.
LEMMA ChargeKeeps ==
    ASSUME ExpInv, step = "sent",
           NEW kind \in {"answered", "failed"}, NEW model \in {"requested", "other"},
           NEW input \in Nat, NEW output \in Nat, NEW failed \in BOOLEAN,
           budget' = Charged(input, output, failed),
           \/ input \in UsageSizes /\ output \in UsageSizes
           \/ input = prompt /\ output = 0,
           Collect(kind, model), leak'.mode \in 0..Modes,
           UNCHANGED <<plan, dry, prompt, aborted, calls, run>>
    PROVE  ExpInv'
<1>1. step \in Active /\ kind \in Kinds
  BY DEF Active, Kinds
<1>2. /\ budget \in [requests : Nat, tokens : Nat, failures : Nat, skips : Nat]
      /\ prompt \in Nat /\ calls \in Nat
      /\ limits.total \in Nat \cup {None} /\ limits.failures \in Nat \cup {None}
  BY <1>1, AtWorkFacts
<1>3. /\ budget' \in [requests : Nat, tokens : Nat, failures : Nat, skips : Nat]
      /\ budget'.requests = budget.requests + 1 /\ budget'.skips = budget.skips
      /\ budget'.tokens = budget.tokens + input + output
      /\ budget'.failures = budget.failures + (IF failed THEN 1 ELSE 0)
  BY <1>2, ChargedBudget
<1>4. calls = budget'.requests /\ ~dry
  BY <1>1, <1>2, <1>3 DEF ExpInv, Accounted
<1>5. budget'.requests + budget'.skips = budget.requests + budget.skips + 1
  BY <1>2, <1>3
<1>6. limits.failures # None => budget'.failures <= limits.failures
  BY <1>2, <1>3 DEF ExpInv, Bounded
<1>7. ASSUME limits.total # None, NEW top \in UsageSizes, \A u \in UsageSizes : u <= top
      PROVE  budget'.tokens <= limits.total + 2 * top
  <2>1. budget.tokens + prompt <= limits.total
    BY <1>7 DEF ExpInv, Bounded
  <2>2. top \in Nat /\ limits.total \in Nat
    BY <1>2, <1>7, SizesTyped
  <2>3. CASE input \in UsageSizes /\ output \in UsageSizes
    <3>1. input <= top /\ output <= top
      BY <1>7, <2>3
    <3>2. QED
      BY <1>2, <1>3, <2>1, <2>2, <3>1
  <2>4. CASE input = prompt /\ output = 0
    BY <1>2, <1>3, <2>1, <2>2, <2>4
  <2>5. QED
    BY <2>3, <2>4
<1>8. QED
  BY <1>1, <1>3, <1>4, <1>5, <1>6, <1>7, CollectingKeeps

\* An answer arrives.
LEMMA AnswerKeeps ==
    ASSUME ExpInv, NEW input \in UsageSizes, NEW output \in UsageSizes,
           NEW model \in {"requested", "other"}, Answer(input, output, model)
    PROVE  ExpInv'
<1>1. /\ step = "sent" /\ budget' = Charged(input, output, FALSE)
      /\ Collect("answered", model)
      /\ UNCHANGED <<plan, dry, prompt, aborted, calls, run>>
  BY DEF Answer
<1>2. leak.mode \in 0..Modes /\ at.mode \in 1..Modes /\ Modes \in Nat
  BY <1>1, AtWorkFacts DEF Active
<1>3. leak' = leak \/ \E k \in LeakKinds, q \in {"record", "failure", "example"} :
          leak' = [kind |-> k, mode |-> at.mode, trial |-> at.trial, quoted |-> q]
  BY DEF Answer
<1>4. leak'.mode \in 0..Modes
  BY <1>2, <1>3
<1>5. input \in Nat /\ output \in Nat
  BY SizesTyped
<1>6. QED
  BY <1>1, <1>4, <1>5, ChargeKeeps

\* A request fails.
LEMMA FailKeeps ==
    ASSUME ExpInv, NEW input \in Nat, NEW output \in Nat,
           NEW model \in {"requested", "other"}, Fail(input, output, model),
           \/ input \in UsageSizes /\ output \in UsageSizes
           \/ input = prompt /\ output = 0
    PROVE  ExpInv'
<1>1. /\ step = "sent" /\ budget' = Charged(input, output, TRUE)
      /\ Collect("failed", model)
      /\ UNCHANGED <<plan, dry, prompt, aborted, calls, leak, run>>
  BY DEF Fail
<1>2. leak'.mode \in 0..Modes
  BY <1>1, AtWorkFacts DEF Active
<1>3. QED
  BY <1>1, <1>2, ChargeKeeps

-------------------------------------------------------------------------------
(* The run is assembled.                                                   *)

\* There are as many mode results as modes and trials with records.
LEMMA ResultsCounted ==
    ASSUME PlanTyped
    PROVE  /\ ModeResults \subseteq Result
           /\ IsFiniteSet(Replayed) /\ Cardinality(ModeResults) = Cardinality(Replayed)
           /\ Cardinality(Replayed) \in 0..(Modes * Trials)
           /\ Cardinality(Replayed) = Modes * Trials <=> Replayed = ModeIds \X TrialIds
<1> DEFINE F(x) == [mode |-> x[1], trial |-> x[2], complete |-> Complete(x[1], x[2])]
<1> DEFINE f == [x \in Replayed |-> F(x)]
<1>1. Replayed \subseteq ModeIds \X TrialIds
  BY DEF Replayed
<1>2. /\ IsFiniteSet(ModeIds \X TrialIds)
      /\ Cardinality(ModeIds \X TrialIds) = Modes * Trials
  BY PairsCounted
<1>3. /\ IsFiniteSet(Replayed) /\ Cardinality(Replayed) <= Modes * Trials
      /\ Modes * Trials = Cardinality(Replayed) => ModeIds \X TrialIds = Replayed
  BY <1>1, <1>2, FS_Subset
<1>4. Cardinality(Replayed) \in Nat /\ Modes * Trials \in Nat
  BY <1>3, FS_CardinalityType, PlanFacts
<1>5. ModeResults = {F(x) : x \in Replayed}
  BY DEF ModeResults
<1>6. \A x \in Replayed : x[1] \in Nat /\ x[2] \in Nat /\ Complete(x[1], x[2]) \in BOOLEAN
                          /\ x = <<x[1], x[2]>>
  BY <1>1 DEF ModeIds, TrialIds, Complete
<1>7. ModeResults \subseteq Result
  BY <1>5, <1>6 DEF Result
<1>8. \A x, y \in Replayed : f[x] = f[y] => x = y
  <2>1. ASSUME NEW x \in Replayed, NEW y \in Replayed, F(x) = F(y)
        PROVE  x = y
    <3>1. F(x).mode = F(y).mode /\ F(x).trial = F(y).trial
      BY <2>1
    <3>2. x[1] = y[1] /\ x[2] = y[2]
      BY <3>1
    <3>3. QED
      BY <1>6, <3>2
  <2>2. QED
    BY <2>1
<1>9. f \in [Replayed -> ModeResults] /\ \A r \in ModeResults : \E x \in Replayed : f[x] = r
  BY <1>5
<1> HIDE DEF f, F
<1>10. Cardinality(ModeResults) = Cardinality(Replayed)
  BY <1>3, <1>8, <1>9, Tabulated
<1>11. Cardinality(Replayed) = Modes * Trials <=> Replayed = ModeIds \X TrialIds
  BY <1>2, <1>3
<1>12. Cardinality(Replayed) \in 0..(Modes * Trials)
  BY <1>3, <1>4
<1>13. QED
  BY <1>3, <1>7, <1>10, <1>11, <1>12

\* The loops that ended by themselves have recorded every task of every mode and trial;
\* those a ceiling stopped have not.
LEMMA FinishedIsWhole ==
    ASSUME ExpInv, step = "finish"
    PROVE  LET whole == /\ \A r \in ModeResults : r.complete
                        /\ Cardinality(ModeResults) = Modes * Trials
           IN  aborted <=> ~whole
<1>1. PlanTyped /\ Modes \in Nat /\ Trials \in Nat \ {0} /\ Selected \in Nat
      /\ collected \in [ModeIds -> [TrialIds -> Seq(Record)]] /\ aborted \in BOOLEAN
  BY PlanFacts DEF ExpInv, ExpTypeOK
<1>2. \A m \in ModeIds, t \in TrialIds :
          /\ Len(collected[m][t]) = Size(m, t)
          /\ Complete(m, t) <=> Size(m, t) = Selected
          /\ <<m, t>> \in Replayed <=> Size(m, t) # 0
  <2>1. ASSUME NEW m \in ModeIds, NEW t \in TrialIds
        PROVE  /\ Len(collected[m][t]) = Size(m, t)
               /\ Complete(m, t) <=> Size(m, t) = Selected
               /\ collected[m][t] # <<>> <=> Size(m, t) # 0
    <3>1. Len(collected[m][t]) = Size(m, t)
      BY DEF ExpInv, Grid
    <3>2. collected[m][t] \in Seq(Record)
      BY <1>1
    <3>3. QED
      BY <3>1, <3>2 DEF Complete
  <2>2. QED
    BY <2>1 DEF Replayed
<1>3. ModeResults =
          {[mode |-> x[1], trial |-> x[2], complete |-> Complete(x[1], x[2])] : x \in Replayed}
  BY DEF ModeResults
<1>4. CASE aborted
  <2>1. at.trial \in 1..Trials /\ at.task \in 1..Selected /\ at.mode \in 1..Modes
    BY <1>4 DEF ExpInv, Placed, AtWork, TrialIds, TaskIds, ModeIds
  <2>2. Modes \in ModeIds /\ at.trial \in TrialIds
    BY <1>1, <2>1 DEF ModeIds, TrialIds
  <2>3. Size(Modes, at.trial) = at.task - 1
    BY <1>1, <2>1 DEF Size
  <2>4. CASE at.task = 1
    <3>1. <<Modes, at.trial>> \notin Replayed
      BY <1>2, <2>2, <2>3, <2>4
    <3>2. <<Modes, at.trial>> \in ModeIds \X TrialIds
      BY <2>2
    <3>3. Cardinality(ModeResults) # Modes * Trials
      BY <1>1, <3>1, <3>2, ResultsCounted
    <3>4. QED
      BY <1>4, <3>3
  <2>5. CASE at.task # 1
    <3>1. <<Modes, at.trial>> \in Replayed /\ ~Complete(Modes, at.trial)
      BY <1>1, <1>2, <2>1, <2>2, <2>3, <2>5
    <3> DEFINE x == <<Modes, at.trial>>
    <3> DEFINE r == [mode |-> x[1], trial |-> x[2], complete |-> Complete(x[1], x[2])]
    <3>2. r \in ModeResults
      BY <1>3, <3>1
    <3>3. ~r.complete
      BY <3>1
    <3>4. QED
      BY <1>4, <3>2, <3>3
  <2>6. QED
    BY <2>4, <2>5
<1>5. CASE ~aborted
  <2>1. at.trial = Trials + 1 /\ Selected > 0
    BY <1>5 DEF ExpInv, Placed, Beyond
  <2>2. \A m \in ModeIds, t \in TrialIds : Size(m, t) = Selected
    BY <1>1, <2>1 DEF Size, TrialIds
  <2>3. ASSUME NEW m \in ModeIds, NEW t \in TrialIds
        PROVE  Complete(m, t) /\ <<m, t>> \in Replayed
    <3>1. Size(m, t) = Selected /\ Size(m, t) # 0
      BY <1>1, <2>1, <2>2
    <3>2. QED
      BY <1>2, <3>1
  <2>4. Replayed = ModeIds \X TrialIds
    BY <2>3 DEF Replayed
  <2>5. Cardinality(ModeResults) = Modes * Trials
    BY <1>1, <2>4, ResultsCounted
  <2>6. \A x \in Replayed : Complete(x[1], x[2])
    BY <2>3, <2>4
  <2>7. \A r \in ModeResults : r.complete
    BY <1>3, <2>6
  <2>8. QED
    BY <1>5, <2>5, <2>7
<1>6. QED
  BY <1>4, <1>5

\* The run that is assembled says what the loops did.
LEMMA FinishKeeps ==
    ASSUME ExpInv, Finish
    PROVE  ExpInv' /\ run' \in Summaries
<1>1. /\ step = "finish" /\ step' = "done" /\ UNCHANGED <<plan, dry, calls, leak>>
      /\ collected' = [m \in ModeIds |-> [t \in TrialIds |-> <<>>]]
      /\ at' = First /\ prompt' = 0
      /\ budget' = FreshBudget /\ aborted' = FALSE
  BY DEF Finish, Proceed, Unwind
<1>2. PlanTyped /\ PlanTyped' /\ Modes \in Nat /\ Trials \in Nat \ {0} /\ Selected \in Nat
      /\ Modes' = Modes /\ Trials' = Trials /\ Selected' = Selected /\ ModeIds' = ModeIds
      /\ TrialIds' = TrialIds /\ TaskIds' = TaskIds /\ limits' = limits /\ Whole' = Whole
  BY <1>1, PlanFacts, PlanKept DEF ExpInv
<1>3. /\ budget \in [requests : Nat, tokens : Nat, failures : Nat, skips : Nat]
      /\ aborted \in BOOLEAN /\ calls \in Nat /\ dry \in BOOLEAN
  BY DEF ExpInv, ExpTypeOK
<1> DEFINE graded == \E r \in HeadlineRows : r.graded > 0
<1>4. run' = [violations |-> Violations, aborted |-> aborted, results |-> ModeResults,
              requests |-> budget.requests, skips |-> budget.skips, graded |-> graded]
  BY DEF Finish
<1>5. Violations \in SUBSET {"modes", "tasks", "model"} /\ graded \in BOOLEAN
      /\ ModeResults \in SUBSET Result
  BY <1>2, ResultsCounted DEF Violations
<1> HIDE DEF graded
<1>6. run' \in Summaries
  BY <1>3, <1>4, <1>5 DEF Summaries
<1>7. /\ run'.aborted = aborted /\ run'.results = ModeResults
      /\ run'.requests = budget.requests /\ run'.skips = budget.skips
  BY <1>4
<1>8. ExpTypeOK'
  <2>1. collected' \in [ModeIds' -> [TrialIds' -> Seq(Record)]]
    BY <1>1, <1>2
  <2>2. at' \in [trial : Nat, task : Nat, mode : ModeIds' \cup {1}]
        /\ budget' \in [requests : Nat, tokens : Nat, failures : Nat, skips : Nat]
    BY <1>1 DEF First, FreshBudget
  <2>3. /\ limits' \in RunLimits /\ Trials' \in Nat \ {0} /\ plan'.available \in Nat
        /\ dry' \in BOOLEAN /\ calls' \in Nat /\ leak'.mode \in 0..Modes'
    BY <1>1, <1>2 DEF ExpInv, ExpTypeOK
  <2>4. aborted' \in BOOLEAN /\ prompt' \in Nat /\ step' = "done"
    BY <1>1
  <2>5. QED
    BY <1>6, <2>1, <2>2, <2>3, <2>4 DEF ExpTypeOK
<1>9. Placed'
  BY <1>1, <1>2 DEF Placed, Active
<1>10. Grid'
  <2>1. ASSUME NEW m \in ModeIds, NEW t \in TrialIds
        PROVE  collected'[m][t] = <<>> /\ Size(m, t)' = 0
    <3>1. m \in 1..Modes /\ t \in 1..Trials
      BY DEF ModeIds, TrialIds
    <3>2. QED
      BY <1>1, <1>2, <3>1 DEF Size, First
  <2>2. QED
    BY <1>2, <2>1 DEF Grid
<1>11. Accounted'
  BY <1>1, <1>2 DEF ExpInv, Accounted, Active, FreshBudget
<1>12. Bounded'
  <2>1. limits.failures # None => 0 <= limits.failures
    BY <1>2, PlanFacts DEF Limit
  <2>2. \A top \in UsageSizes : limits.total # None => 0 <= limits.total + 2 * top
    BY <1>2, PlanFacts, SizesTyped DEF Limit
  <2>3. QED
    BY <1>1, <1>2, <2>1, <2>2 DEF ExpInv, Bounded, FreshBudget
<1>13. RunTrue'
  <2>1. calls = budget.requests
    BY <1>1, <1>3 DEF ExpInv, Accounted
  <2>2. dry => ~aborted /\ budget.requests + budget.skips = 0
    BY <1>3 DEF ExpInv, Accounted, FreshBudget
  <2>3. WholeRun' <=> /\ \A r \in ModeResults : r.complete
                      /\ Cardinality(ModeResults) = Modes * Trials
    BY <1>2, <1>7 DEF WholeRun
  <2>4. aborted <=> ~WholeRun'
    BY <1>1, <2>3, FinishedIsWhole
  <2>5. Cardinality(ModeResults) \in 0..(Modes * Trials)
    BY <1>2, ResultsCounted
  <2>6. ~dry => budget.requests + budget.skips = Recorded
    BY <1>1 DEF ExpInv, Accounted
  <2>7. aborted => Recorded < Whole
    <3>1. SUFFICES ASSUME aborted PROVE Recorded < Whole
      OBVIOUS
    <3>2. at.trial \in 1..Trials /\ at.task \in 1..Selected /\ at.mode \in 1..Modes
      BY <1>1, <3>1 DEF ExpInv, Placed, AtWork, TrialIds, TaskIds, ModeIds
    <3>3. QED
      BY <1>2, <3>2, Radix DEF Recorded, Whole
  <2>8. ~aborted => Recorded = Whole
    <3>1. SUFFICES ASSUME ~aborted PROVE Recorded = Whole
      OBVIOUS
    <3>2. at = [trial |-> Trials + 1, task |-> 1, mode |-> 1]
      BY <1>1, <3>1 DEF ExpInv, Placed, Beyond
    <3>3. Recorded = (((Trials + 1) - 1) * Selected + 1 - 1) * Modes + 1 - 1
      BY <3>2 DEF Recorded
    <3>4. QED
      BY <1>2, <3>3 DEF Whole
  <2>9. \/ ~aborted /\ budget.requests + budget.skips = Whole
        \/ aborted /\ budget.requests + budget.skips < Whole
        \/ dry /\ budget.requests + budget.skips = 0
    BY <1>3, <2>2, <2>6, <2>7, <2>8
  <2>10. QED
    BY <1>1, <1>2, <1>6, <1>7, <2>1, <2>2, <2>4, <2>5, <2>9, NoRun DEF RunTrue
<1>14. QED
  BY <1>2, <1>6, <1>8, <1>9, <1>10, <1>11, <1>12, <1>13 DEF ExpInv

\* An experiment with at least one mode keeps its invariant at every step; leak and run
\* are settled by the step that sets them.
LEMMA ExpKeeps ==
    ASSUME ExpInv, Modes > 0, ExpNext
    PROVE  ExpInv'
<1>1. CASE BeginExperiment
  BY <1>1, BeginKeeps
<1>2. CASE ExperimentRaises
  <2>1. step \in {"idle", "replay", "gate"} /\ step' = "raised" /\ Unwind
        /\ leak' \in {leak, NoLeak} /\ UNCHANGED <<plan, dry, calls, run>>
    BY <1>2 DEF ExperimentRaises, Proceed
  <2>2. QED
    BY <2>1, RaiseKeeps
<1>3. CASE Measure
  BY <1>3, MeasureKeeps
<1>4. CASE \E tokens \in PromptSizes : Replay(tokens)
  BY <1>4, ReplayKeeps
<1>5. CASE Skip
  BY <1>5, SkipKeeps
<1>6. CASE Send
  BY <1>6, SendKeeps
<1>7. CASE \E input, output \in UsageSizes, model \in {"requested", "other"} :
              Answer(input, output, model) \/ Fail(input, output, model)
  <2>1. PICK input \in UsageSizes, output \in UsageSizes, model \in {"requested", "other"} :
            Answer(input, output, model) \/ Fail(input, output, model)
    BY <1>7
  <2>2. input \in Nat /\ output \in Nat
    BY SizesTyped
  <2>3. QED
    BY <2>1, <2>2, AnswerKeeps, FailKeeps
<1>8. CASE Fail(prompt, 0, "requested")
  <2>1. prompt \in Nat
    BY DEF ExpInv, ExpTypeOK
  <2>2. QED
    BY <1>8, <2>1, FailKeeps
<1>9. CASE Finish
  BY <1>9, FinishKeeps
<1>10. CASE Stop
  BY <1>10, StopKeeps
<1>11. QED
  BY <1>1, <1>2, <1>3, <1>4, <1>5, <1>6, <1>7, <1>8, <1>9, <1>10 DEF ExpNext, Loops

\* The invariant holds before anything has run.
LEMMA ExpInitHolds ==
    ASSUME NEW p, NEW d \in BOOLEAN, ExpInit(p, d), PlanTyped
    PROVE  ExpInv
<1>1. /\ dry = d /\ step = "idle" /\ at = [trial |-> 1, task |-> 1, mode |-> 1]
      /\ prompt = 0 /\ collected = [m \in ModeIds |-> [t \in TrialIds |-> <<>>]]
      /\ budget = [requests |-> 0, tokens |-> 0, failures |-> 0, skips |-> 0]
      /\ aborted = FALSE /\ calls = 0 /\ leak = NoLeak /\ run = None
  BY DEF ExpInit, First, FreshBudget
<1>2. Modes \in Nat /\ Trials \in Nat \ {0} /\ Selected \in Nat /\ NoLeak.mode = 0
      /\ limits.requests \in Nat \cup {None} /\ limits.total \in Nat \cup {None}
      /\ limits.failures \in Nat \cup {None}
  BY PlanFacts DEF Limit
<1>3. ExpTypeOK
  <2>1. collected \in [ModeIds -> [TrialIds -> Seq(Record)]]
    BY <1>1
  <2>2. at \in [trial : Nat, task : Nat, mode : ModeIds \cup {1}]
        /\ budget \in [requests : Nat, tokens : Nat, failures : Nat, skips : Nat]
        /\ leak.mode \in 0..Modes /\ prompt \in Nat /\ calls \in Nat
    BY <1>1, <1>2
  <2>3. dry \in BOOLEAN /\ aborted \in BOOLEAN /\ step = "idle" /\ run = None
    BY <1>1
  <2>4. QED
    BY <2>1, <2>2, <2>3 DEF ExpTypeOK, PlanTyped
<1>4. Placed
  BY <1>1 DEF Placed, Active, First, FreshBudget
<1>5. Grid
  <2>1. ASSUME NEW m \in ModeIds, NEW t \in TrialIds
        PROVE  collected[m][t] = <<>> /\ Size(m, t) = 0
    <3>1. m \in 1..Modes /\ t \in 1..Trials
      BY DEF ModeIds, TrialIds
    <3>2. QED
      BY <1>1, <1>2, <3>1 DEF Size
  <2>2. QED
    BY <2>1 DEF Grid
<1>6. Accounted
  <2>1. Whole \in Nat
    BY <1>2 DEF Whole
  <2>2. QED
    BY <1>1, <2>1 DEF Accounted, Active, FreshBudget
<1>7. Bounded
  BY <1>1, <1>2, SizesTyped DEF Bounded
<1>8. QED
  BY <1>1, <1>3, <1>4, <1>5, <1>6, <1>7 DEF ExpInv, RunTrue

\* No step changes the plan, and none is left when the experiment is over.
LEMMA ExpSteps ==
    ASSUME ExpNext
    PROVE  step \notin {"done", "raised"} /\ plan' = plan /\ dry' = dry
BY DEF ExpNext, Loops, BeginExperiment, ExperimentRaises, Measure, Replay, Skip, Send,
       Answer, Fail, Finish, Stop, Proceed

\* The invariant depends on nothing but the experiment.
LEMMA ExpUnchanged ==
    ASSUME ExpInv, UNCHANGED expVars
    PROVE  ExpInv'
<1>1. UNCHANGED <<plan, dry, step, at, prompt, collected, budget, aborted, calls, leak, run>>
  BY DEF expVars, counters
<1>2. /\ Modes' = Modes /\ Trials' = Trials /\ limits' = limits
      /\ ModeIds' = ModeIds /\ TrialIds' = TrialIds /\ Selected' = Selected
      /\ TaskIds' = TaskIds /\ Whole' = Whole /\ PlanTyped'
  BY <1>1, PlanKept DEF ExpInv
<1>3. ExpTypeOK'
  BY <1>1, <1>2 DEF ExpInv, ExpTypeOK
<1>4. Placed'
  BY <1>1, <1>2 DEF ExpInv, Placed, AtWork, Beyond, Active
<1>5. Grid'
  BY <1>1, <1>2 DEF ExpInv, Grid, Size
<1>6. Recorded' = Recorded
  BY <1>1, <1>2 DEF Recorded
<1>7. Accounted'
  BY <1>1, <1>2, <1>6 DEF ExpInv, Accounted, Active
<1>8. Bounded'
  BY <1>1, <1>2 DEF ExpInv, Bounded
<1>9. RunTrue'
  BY <1>1, <1>2 DEF ExpInv, RunTrue, WholeRun
<1>10. QED
  BY <1>2, <1>3, <1>4, <1>5, <1>7, <1>8, <1>9 DEF ExpInv

-------------------------------------------------------------------------------
(* What the invariant says.                                                *)

\* The ceilings hold, and a call of the provider is a request of the budget.
LEMMA CeilingsFollow ==
    ASSUME ExpInv
    PROVE  CeilingsHold
<1>1. budget \in [requests : Nat, tokens : Nat, failures : Nat, skips : Nat]
      /\ limits.failures \in Nat \cup {None}
  BY PlanFacts DEF ExpInv, ExpTypeOK, Limit
<1>2. limits.failures = None \/ budget.failures <= limits.failures
  BY <1>1 DEF ExpInv, Bounded
<1>3. QED
  BY <1>2 DEF ExpInv, Bounded, Accounted, Active, CeilingsHold

\* The modes have records of the same tasks, but for the one at work, and every record
\* was paid for.
LEMMA PairingFollows ==
    ASSUME ExpInv
    PROVE  RecordsPaired
<1>1. Modes \in Nat /\ Trials \in Nat \ {0} /\ Selected \in Nat
      /\ at \in [trial : Nat, task : Nat, mode : ModeIds \cup {1}]
  BY PlanFacts DEF ExpInv, ExpTypeOK
<1>2. ASSUME NEW m \in ModeIds, NEW t \in TrialIds
      PROVE  /\ \A i \in DOMAIN collected[m][t] : collected[m][t][i].task = i
             /\ \A n \in m..Modes : Len(collected[m][t]) - Len(collected[n][t]) \in {0, 1}
             /\ t < at.trial => Len(collected[m][t]) = Selected
             /\ t > at.trial => Len(collected[m][t]) = 0
  <2>1. Len(collected[m][t]) = Size(m, t)
        /\ \A i \in DOMAIN collected[m][t] : collected[m][t][i].task = i
    BY DEF ExpInv, Grid
  <2>2. m \in 1..Modes /\ t \in 1..Trials /\ at.trial \in Nat /\ at.task \in Nat
        /\ at.mode \in Nat
    BY <1>1 DEF ModeIds, TrialIds
  <2>3. ASSUME NEW n \in m..Modes
        PROVE  Len(collected[m][t]) - Len(collected[n][t]) \in {0, 1}
    <3>1. n \in ModeIds /\ n \in Nat /\ m <= n
      BY <1>1, <2>2 DEF ModeIds
    <3>2. Len(collected[n][t]) = Size(n, t)
      BY <3>1 DEF ExpInv, Grid
    <3>3. Size(m, t) - Size(n, t) \in {0, 1}
      BY <1>1, <2>2, <3>1 DEF Size
    <3>4. QED
      BY <2>1, <3>2, <3>3
  <2>4. t < at.trial => Size(m, t) = Selected
    BY DEF Size
  <2>5. t > at.trial => Size(m, t) = 0
    BY <2>2 DEF Size
  <2>6. QED
    BY <2>1, <2>3, <2>4, <2>5
<1>3. ~dry /\ step \in {"replay", "gate", "sent"} => budget.requests + budget.skips = Recorded
  BY DEF ExpInv, Accounted, Active
<1>4. QED
  BY <1>2, <1>3 DEF RecordsPaired, Recorded

\* A run that passes is whole, and one that a ceiling stopped is neither.
LEMMA WholenessFollows ==
    ASSUME ExpInv
    PROVE  PassedIsWhole
BY DEF ExpInv, RunTrue, WholeRun, PassedIsWhole, Passed

-------------------------------------------------------------------------------
(* The inductive invariant of the request and its pipeline.                *)

\* The plan is the request's, and nothing runs for a request that was refused.
FrontInv ==
    /\ request \in Asked /\ policy \in Policies
    /\ plan = IF Refused(request) THEN NoPlan ELSE PlanOf(request)
    /\ dry = ~request.generate
    /\ stand \in {"asked", "previewed", "refused", "running", "shown", "crashed"}
    /\ stand \in {"previewed", "running"} => ~Refused(request)
    /\ Refused(request) => step = "idle"
    /\ view \in Receipts
    /\ ~Piped => "experiment" \in todo

\* What the scans find in a file, whatever the manifest says.
Quoted(f) ==
    /\ leak # NoLeak
    /\ \/ f[1] = "experiment"
       \/ f = <<"raw", leak.mode, leak.trial>>
       \/ f[1] = "error-records" /\ leak.quoted # "record"
       \/ f[1] = "errors" /\ leak.quoted = "example"
Carriers == {f \in Artifacts : Quoted(f)}

\* What the stages that failed may have written.
Leftovers == UNION {Range(Outputs(s)) : s \in {u \in DOMAIN status : status[u] = "failed"}}

\* Until the experiment is over nothing has happened around it; then the stages know how
\* it ended.
ExperimentFirst ==
    /\ "experiment" \in todo =>
           /\ todo = DOMAIN status /\ disk = {} /\ ~context.scanned /\ deleted = {}
    /\ "experiment" \notin DOMAIN status => step = "idle"
    /\ "experiment" \in DOMAIN status \ todo =>
           /\ status["experiment"] \in {"ok", "failed"} /\ step \in {"done", "raised"}
           /\ status["experiment"] = "ok" => step = "done"

\* Why a stage was skipped.
StagesAccounted ==
    /\ \A s \in DOMAIN status : status[s] = "pending" <=> s \in todo
    /\ "raw" \in DOMAIN status /\ status["raw"] \in {"ok", "failed"} => run # None
    /\ "raw" \in DOMAIN status /\ status["raw"] = "ok" =>
           context.runs = Cardinality(run.results)
    /\ \A s \in DOMAIN status : status[s] = "skipped" =>
           \/ s = "plots"
           \/ Expanded(DOMAIN status) # DOMAIN status
           \/ \E u \in DOMAIN status : status[u] = "failed"
           \/ run # None /\ Cardinality(run.results) = 0

\* Where the files are.
FilesAccounted ==
    /\ Artifacts \subseteq disk \cup deleted
    /\ disk \subseteq Artifacts \cup Leftovers \cup {Manifest, Note}
    /\ deleted \subseteq Carriers \cup {Manifest}
    /\ deleted # {} => phase \in {"rewrite", "note", "returned", "raised"}

Scanned == {"scanned", "rewrite", "note", "returned"}

\* What the scans know: the carriers they did not pass over.
ScansComplete ==
    /\ phase = "stages" => ~echoing /\ check.report = {} /\ exit = 0
    /\ context.scanned \/ phase # "stages" => todo = {}
    /\ context.scanned \/ phase \in {"written"} \cup Scanned =>
           check.stages = Carriers \ check.skipped
    /\ phase \in {"stages", "written"} => Manifest \notin check.skipped
    /\ phase = "written" => check.report = {} /\ Manifest \in disk
    /\ phase = "scanned" =>
           /\ Manifest \in disk
           /\ check.report = {f \in {Manifest} : Echoes(f)} \ check.skipped
    /\ phase = "rewrite" => Manifest \notin disk /\ Manifest \in deleted
    /\ phase = "note" => Named # {}
    /\ phase \in Scanned => check.report \subseteq {Manifest}
    /\ deleted \subseteq Named

\* What the exit code says.
ExitTrue ==
    phase \in {"written"} \cup Scanned =>
        /\ exit = 0 =>
               /\ \A s \in DOMAIN status : status[s] # "failed"
               /\ run # None => run.violations = {} /\ ~run.aborted
        /\ Named # {} => exit = 4

\* What is left when it is over.
Left ==
    /\ phase \in {"rewrite", "note", "returned"} =>
           \A f \in disk : Echoes(f) => f \in lost \cup Leftovers \cup check.skipped
    /\ phase \in {"note", "returned"} =>
           Manifest \in disk \/ leak.kind = "shaped" \/ Manifest \in lost
    /\ phase = "returned" =>
           /\ exit = 0 => \A f \in disk : Echoes(f) => f \in check.skipped
           /\ Named # {} => Note \in disk

PipeWellTyped ==
    /\ todo \subseteq DOMAIN status /\ DOMAIN status \subseteq Stages
    /\ Range(status) \subseteq {"pending", "ok", "skipped", "failed"}
    /\ context \in [runs : Nat, errors : BOOLEAN, scanned : BOOLEAN]
    /\ check \in [stages : SUBSET Files, report : SUBSET Files, skipped : SUBSET Files]
    /\ disk \subseteq Files /\ deleted \subseteq Files /\ lost \subseteq Files
    /\ phase \in {"stages", "written", "scanned", "rewrite", "note", "returned", "raised"}
    /\ exit \in {0, 2, 3, 4}
    /\ echoing \in BOOLEAN /\ faults \in 0..MaxFaults

PipeInv == /\ PipeWellTyped /\ StagesAccounted /\ FilesAccounted
           /\ ScansComplete /\ ExitTrue /\ Left

Inv == ExpInv /\ FrontInv /\ PipeInv /\ ExperimentFirst

-------------------------------------------------------------------------------
(* The plan of a request.                                                  *)

\* Naming each mode once leaves a mode if there was one.
LEMMA DistinctLength ==
    ASSUME NEW s, NEW n \in Nat \ {0}, DOMAIN s = 1..n
    PROVE  Len(Distinct(s)) \in Nat \ {0}
<1> DEFINE firsts == {i \in DOMAIN s : \A j \in 1..(i - 1) : s[j] # s[i]}
<1> DEFINE nth(k) == CHOOSE i \in firsts : Cardinality({j \in firsts : j <= i}) = k
<1>1. IsFiniteSet(1..n)
  BY FS_Interval
<1>2. firsts \subseteq 1..n /\ 1 \in firsts
  OBVIOUS
<1>3. IsFiniteSet(firsts)
  BY <1>1, <1>2, FS_Subset
<1>4. Cardinality(firsts) \in Nat /\ Cardinality(firsts) # 0
  BY <1>2, <1>3, FS_CardinalityType, FS_EmptySet
<1>5. Distinct(s) = [k \in 1..Cardinality(firsts) |-> s[nth(k)]]
  BY DEF Distinct
<1> HIDE DEF nth, firsts
<1>6. Len(Distinct(s)) = Cardinality(firsts)
  BY <1>4, <1>5
<1>7. QED
  BY <1>4, <1>6

\* A request that is not refused names a preset and a dataset there are, and its limits
\* are natural numbers.
LEMMA NotRefused ==
    ASSUME NEW r \in Asked, ~Refused(r), policy \in Policies
    PROVE  /\ r.dataset \in DOMAIN Contents
           /\ r.client # "single" => r.preset \in DOMAIN Presets
           /\ \A f \in Given(r) : r.limits[f] \in Nat
           /\ r.client \notin {"browser", "single"} => r.trials = None \/ r.trials \in Nat \ {0}
           /\ r.client \in {"browser", "single"} => r.trials = None
           /\ r.client = "single" => r.modes # <<>>
           /\ r.generate => r.key
           /\ r.client = "browser" =>
                  /\ policy.tasks \in Nat \ {0} /\ policy.requests \in Nat \ {0}
                  /\ r.generate => policy.generation
                  /\ Given(r) \subseteq {"tasks"}
<1>1. \A f \in Given(r) : r.limits[f] \in Int
  BY RequestsTyped DEF Given
<1>2. CASE r.client = "browser"
  <2>1. ~BrowserRefuses(r)
    BY <1>2 DEF Refused
  <2>2. FormSays(r)
    BY <1>2, RequestsSayable
  <2>3. policy.tasks \in Nat \ {0} /\ policy.requests \in Nat \ {0}
    BY <2>1 DEF BrowserRefuses, Obeyable, Policies
  <2>4. r.dataset \in DOMAIN Contents /\ r.preset \in DOMAIN Presets
        /\ \A f \in Given(r) : ~(r.limits[f] < 0)
    BY <2>1 DEF BrowserRefuses, Runnable, PlanInvalid
  <2>5. r.generate => policy.generation /\ r.key
    BY <2>1 DEF BrowserRefuses, PolicyRefuses
  <2>6. Given(r) \subseteq {"tasks"} /\ r.trials = None
    BY <2>2 DEF FormSays, Given
  <2>7. QED
    BY <1>1, <1>2, <2>3, <2>4, <2>5, <2>6
<1>3. CASE r.client = "single"
  <2>1. ~SingleRefuses(r)
    BY <1>3 DEF Refused
  <2>2. SingleSays(r)
    BY <1>3, RequestsSayable
  <2>3. r.modes # <<>> /\ r.trials = None
    BY <2>2 DEF SingleSays
  <2>4. QED
    BY <1>1, <1>3, <2>1, <2>3 DEF SingleRefuses
<1>4. CASE r.client = "experiment"
  <2>1. ~ExperimentRefuses(r)
    BY <1>4 DEF Refused
  <2>2. r.trials \in Int \cup {None}
    BY RequestsTyped
  <2>3. QED
    BY <1>1, <1>4, <2>1, <2>2 DEF ExperimentRefuses, PlanInvalid
<1>5. CASE r.client \notin {"browser", "single", "experiment"}
  <2>1. ~PipelineRefuses(r)
    BY <1>5 DEF Refused
  <2>2. r.trials \in Int \cup {None}
    BY RequestsTyped
  <2>3. QED
    BY <1>1, <1>5, <2>1, <2>2 DEF PipelineRefuses, PlanInvalid
<1>6. QED
  BY <1>2, <1>3, <1>4, <1>5

\* A plan has a mode to replay.
LEMMA SomeMode ==
    ASSUME NEW r \in Asked, r.modes = <<>> => r.preset \in DOMAIN Presets
    PROVE  Len(ModesOf(r)) \in Nat \ {0}
<1>1. r.modes \in Seq(STRING)
  BY RequestsTyped
<1>2. CASE r.modes = <<>>
  <2>1. ModesOf(r) = Presets[r.preset].modes
    BY <1>2 DEF ModesOf
  <2>2. Presets[r.preset].modes \in Seq(STRING) /\ Presets[r.preset].modes # <<>>
    BY <1>2, PresetsTyped
  <2>3. QED
    BY <2>1, <2>2
<1>3. CASE r.modes # <<>> /\ (Keyword(r, "all") \/ Keyword(r, "ablations"))
  <2>1. ModesOf(r) \in {ModeOrder, AblationOrder}
    BY <1>3 DEF ModesOf
  <2>2. QED
    BY <2>1, ModesTyped
<1>4. CASE r.modes # <<>> /\ ~Keyword(r, "all") /\ ~Keyword(r, "ablations")
  <2> DEFINE s == [i \in DOMAIN r.modes |-> Canonical[r.modes[i]]]
  <2>1. ModesOf(r) = Distinct(s)
    BY <1>4 DEF ModesOf
  <2>2. DOMAIN s = 1..Len(r.modes) /\ Len(r.modes) \in Nat \ {0}
    BY <1>1, <1>4
  <2> HIDE DEF s
  <2>3. QED
    BY <2>1, <2>2, DistinctLength
<1>5. QED
  BY <1>2, <1>3, <1>4

LimitNames == {"tasks", "requests", "input", "total", "failures"}

\* RunLimits are the functions that give each of the five a limit.
LEMMA LimitFields ==
    /\ \A l \in [LimitNames -> Limit] : l \in RunLimits
    /\ \A l \in RunLimits : DOMAIN l = LimitNames /\ \A f \in LimitNames : l[f] \in Limit
BY DEF LimitNames, RunLimits

\* A limit that is given replaces the preset's.
LEMMA OverriddenTyped ==
    ASSUME NEW base \in RunLimits, NEW r, \A f \in Given(r) : r.limits[f] \in Nat
    PROVE  /\ Overridden(base, r) \in RunLimits
           /\ \A f \in LimitNames :
                  Overridden(base, r)[f] = IF f \in Given(r) THEN r.limits[f] ELSE base[f]
<1>1. DOMAIN base = LimitNames /\ \A f \in LimitNames : base[f] \in Limit
  BY LimitFields
<1>2. Overridden(base, r) = [f \in LimitNames |-> IF f \in Given(r) THEN r.limits[f] ELSE base[f]]
  BY <1>1 DEF Overridden
<1>3. \A f \in LimitNames : (IF f \in Given(r) THEN r.limits[f] ELSE base[f]) \in Limit
  BY <1>1 DEF Limit
<1>4. Overridden(base, r) \in [LimitNames -> Limit]
  BY <1>2, <1>3
<1>5. QED
  BY <1>2, <1>4, LimitFields

\* The deployment's policy only ever lowers a limit.
LEMMA TightenedTyped ==
    ASSUME NEW l \in RunLimits, policy.tasks \in Nat, policy.requests \in Nat
    PROVE  LET t == Tightened(l)
           IN  /\ t \in RunLimits
               /\ t.tasks \in Nat /\ t.tasks <= policy.tasks
               /\ t.requests \in Nat /\ t.requests <= policy.requests
               /\ l.tasks # None => t.tasks <= l.tasks
               /\ l.requests # None => t.requests <= l.requests
<1>1. l.tasks \in Limit /\ l.requests \in Limit
  BY DEF RunLimits
<1>2. Tightened(l).tasks = (IF l.tasks = None \/ l.tasks > policy.tasks
                            THEN policy.tasks ELSE l.tasks)
      /\ Tightened(l).requests = (IF l.requests = None \/ l.requests > policy.requests
                                  THEN policy.requests ELSE l.requests)
  BY DEF Tightened, RunLimits
<1>3. Tightened(l) \in RunLimits
  BY <1>1 DEF Tightened, RunLimits, Limit
<1>4. QED
  BY <1>1, <1>2, <1>3, SizesTyped DEF Limit

\* The plan of a request that is not refused is a plan, with a mode; the tab's keeps the
\* limits of the deployment and of the preset, and is the preset's where nothing was
\* chosen.
LEMMA PlanOfTyped ==
    ASSUME NEW r \in Asked, ~Refused(r), policy \in Policies, plan = PlanOf(r)
    PROVE  /\ PlanTyped /\ Modes > 0
           /\ r.client = "browser" =>
                  LET preset == Presets[r.preset]
                  IN  /\ limits.tasks \in Nat /\ limits.tasks <= policy.tasks
                      /\ limits.requests \in Nat /\ limits.requests <= policy.requests
                      /\ limits.requests <= preset.limits.requests
                      /\ r.modes = <<>> /\ Given(r) = {} =>
                            /\ limits.tasks <= preset.limits.tasks
                            /\ preset.limits.tasks \in Nat
                            /\ Modes = Len(preset.modes) /\ Trials = preset.trials
<1> DEFINE base == IF r.client = "single" THEN NoLimits ELSE Presets[r.preset].limits
<1> DEFINE asked == Overridden(base, r)
<1> DEFINE tight == Tightened(asked)
<1>1. /\ plan.modes = ModesOf(r) /\ plan.available = Contents[r.dataset]
      /\ plan.trials = IF r.client = "single" THEN 1
                       ELSE IF r.trials = None THEN Presets[r.preset].trials ELSE r.trials
      /\ plan.limits = IF r.client = "browser" THEN tight ELSE asked
  BY DEF PlanOf
<1>2. base \in RunLimits
  <2>1. NoLimits \in [LimitNames -> Limit]
    BY DEF NoLimits, LimitNames, Limit
  <2>2. r.client # "single" => Presets[r.preset].limits \in RunLimits
    BY NotRefused, PresetsTyped
  <2>3. QED
    BY <2>1, <2>2, LimitFields
<1>3. \A f \in Given(r) : r.limits[f] \in Nat
  BY NotRefused
<1>4. asked \in RunLimits
      /\ \A f \in LimitNames : asked[f] = IF f \in Given(r) THEN r.limits[f] ELSE base[f]
  <2> HIDE DEF base
  <2>1. QED
    BY <1>2, <1>3, OverriddenTyped
<1>5. ASSUME r.client = "browser"
      PROVE  /\ tight \in RunLimits
             /\ tight.tasks \in Nat /\ tight.tasks <= policy.tasks
             /\ tight.requests \in Nat /\ tight.requests <= policy.requests
             /\ asked.tasks # None => tight.tasks <= asked.tasks
             /\ asked.requests # None => tight.requests <= asked.requests
  <2> HIDE DEF asked
  <2>1. policy.tasks \in Nat /\ policy.requests \in Nat
    BY <1>5, NotRefused
  <2>2. QED
    BY <1>4, <2>1, TightenedTyped
<1> HIDE DEF tight, asked
<1>6. limits \in RunLimits
  BY <1>1, <1>4, <1>5 DEF limits
<1>7. Trials \in Nat \ {0}
  <2>1. r.client # "single" => Presets[r.preset].trials \in Nat \ {0}
    BY NotRefused, PresetsTyped
  <2>2. QED
    BY <1>1, <2>1, NotRefused DEF Trials
<1>8. plan.available \in Nat
  BY <1>1, NotRefused, ContentsTyped
<1>9. Modes \in Nat \ {0}
  <2>1. r.modes = <<>> => r.preset \in DOMAIN Presets
    BY NotRefused
  <2>2. QED
    BY <1>1, <2>1, SomeMode DEF Modes
<1>10. PlanTyped /\ Modes > 0
  BY <1>6, <1>7, <1>8, <1>9 DEF PlanTyped
<1>11. ASSUME r.client = "browser"
       PROVE  LET preset == Presets[r.preset]
              IN  /\ limits.tasks \in Nat /\ limits.tasks <= policy.tasks
                  /\ limits.requests \in Nat /\ limits.requests <= policy.requests
                  /\ limits.requests <= preset.limits.requests
                  /\ r.modes = <<>> /\ Given(r) = {} =>
                        /\ limits.tasks <= preset.limits.tasks
                        /\ preset.limits.tasks \in Nat
                        /\ Modes = Len(preset.modes) /\ Trials = preset.trials
  <2>1. r.preset \in DOMAIN Presets /\ r.trials = None /\ Given(r) \subseteq {"tasks"}
    BY <1>11, NotRefused
  <2>2. base = Presets[r.preset].limits /\ base.tasks # None /\ base.requests # None
        /\ base.tasks \in Nat
    <3>1. base = Presets[r.preset].limits /\ base.tasks # None /\ base.requests # None
      BY <1>11, <2>1, PresetsTyped
    <3>2. base.tasks \in Limit
      BY <1>2 DEF RunLimits
    <3>3. QED
      BY <3>1, <3>2 DEF Limit
  <2>3. asked.requests = base.requests
    BY <1>4, <2>1 DEF LimitNames
  <2>4. Given(r) = {} => asked.tasks = base.tasks
    BY <1>4 DEF LimitNames
  <2>5. limits = tight
    BY <1>1, <1>11 DEF limits
  <2>6. r.modes = <<>> => Modes = Len(Presets[r.preset].modes)
    BY <1>1 DEF Modes, ModesOf
  <2>7. Trials = Presets[r.preset].trials
    BY <1>1, <1>11, <2>1 DEF Trials
  <2> HIDE DEF base
  <2>8. QED
    BY <1>5, <1>11, <2>2, <2>3, <2>4, <2>5, <2>6, <2>7
<1>12. QED
  BY <1>10, <1>11

-------------------------------------------------------------------------------
(* Stages and their files.                                                 *)

\* The stages, and that each waits for those before it.
LEMMA StagesAre ==
    Stages = {"experiment", "raw", "comparison", "statistics", "errors", "plots", "report"}
BY DEF Stages, StageOrder, Range

\* A stage runs when those before it are over.
LEMMA AtStageFacts ==
    ASSUME NEW s, AtStage(s), PipeWellTyped
    PROVE  /\ phase = "stages" /\ s \in todo /\ s \in DOMAIN status /\ s \in Stages
           /\ s # "experiment" => "experiment" \notin todo
           /\ s = "comparison" => "raw" \notin todo
           /\ s = "report" => todo = {"report"}
<1>1. phase = "stages" /\ s \in todo /\ todo \subseteq DOMAIN status /\ DOMAIN status \subseteq Stages
  BY DEF AtStage, PipeWellTyped
<1>2. PICK i \in DOMAIN StageOrder : /\ StageOrder[i] = s
                                     /\ \A j \in 1..(i - 1) : StageOrder[j] \notin todo
  BY DEF AtStage
<1>3. i \in 1..7 /\ StageOrder[1] = "experiment" /\ StageOrder[2] = "raw"
      /\ StageOrder[3] = "comparison" /\ StageOrder[4] = "statistics"
      /\ StageOrder[5] = "errors" /\ StageOrder[6] = "plots" /\ StageOrder[7] = "report"
  BY <1>2 DEF StageOrder
<1>4. s # "experiment" => 1 \in 1..(i - 1)
  BY <1>2, <1>3
<1>5. s = "comparison" => 2 \in 1..(i - 1)
  BY <1>2, <1>3
<1>6. s = "report" => 1..6 \subseteq 1..(i - 1)
  BY <1>2, <1>3
<1>7. s = "report" => todo = {"report"}
  <2>1. SUFFICES ASSUME s = "report", NEW u \in todo PROVE u = "report"
    BY <1>1
  <2>2. \A j \in 1..6 : StageOrder[j] # u
    BY <1>2, <1>6, <2>1
  <2>3. u \in {"experiment", "raw", "comparison", "statistics", "errors", "plots", "report"}
    BY <1>1, StagesAre
  <2>4. 1 \in 1..6 /\ 2 \in 1..6 /\ 3 \in 1..6 /\ 4 \in 1..6 /\ 5 \in 1..6 /\ 6 \in 1..6
    OBVIOUS
  <2>5. QED
    BY <1>3, <2>2, <2>3, <2>4
<1>8. QED
  BY <1>1, <1>2, <1>3, <1>4, <1>5, <1>7

\* What a stage writes are files of the output directory, never the manifest.
LEMMA OutputsAre ==
    ASSUME ExpInv, NEW s \in Stages, s = "raw" => run # None
    PROVE  /\ Range(Outputs(s)) \subseteq Files /\ Manifest \notin Range(Outputs(s))
           /\ s = "raw" => /\ Len(Outputs(s)) = Cardinality(run.results)
                           /\ Outputs(s) \in Seq(Files)
           /\ Len(Outputs(s)) \in Nat /\ DOMAIN Outputs(s) = 1..Len(Outputs(s))
           /\ s = "report" => \A f \in Range(Outputs(s)) : ~Quoted(f)
<1>1. \A u \in Stages : u # "raw" => File(u) \in Files
  BY DEF Files
<1>2. File("error-records") \in Files
  BY DEF Files
<1>3. CASE s = "raw"
  <2>1. Cardinality(run.results) \in 0..(Modes * Trials) /\ Modes * Trials \in Nat
    BY <1>3, PlanFacts DEF ExpInv, RunTrue
  <2> DEFINE k == Cardinality(run.results)
  <2>2. Outputs(s) = [n \in 1..k |-> RawFile(n)]
    BY <1>3 DEF Outputs
  <2>3. k \in Nat /\ k <= Modes * Trials
    BY <2>1
  <2> HIDE DEF k
  <2>4. DOMAIN Outputs(s) = 1..k /\ Len(Outputs(s)) = k
    BY <2>2, <2>3
  <2>5. \A n \in 1..k : RawFile(n) \in Files /\ RawFile(n) # Manifest
    <3>1. \A n \in 1..k : RawFile(n) \in Files
      BY <2>1, <2>3 DEF Files
    <3>2. \A n \in 1..k : RawFile(n)[1] = "raw" /\ Manifest[1] = "manifest"
      BY DEF RawFile, Manifest, File
    <3>3. QED
      BY <3>1, <3>2
  <2>6. QED
    BY <1>3, <2>2, <2>3, <2>4, <2>5 DEF Range, k
<1>4. CASE s = "errors"
  <2>1. Outputs(s) = <<File("errors"), File("error-records")>>
    BY <1>4 DEF Outputs
  <2>2. File("errors") # Manifest /\ File("error-records") # Manifest
    BY DEF File, Manifest
  <2>3. File("errors") \in Files
    BY <1>1, <1>4
  <2>4. QED
    BY <1>2, <1>4, <2>1, <2>2, <2>3 DEF Range
<1>5. CASE s \notin {"raw", "errors"}
  <2>1. Outputs(s) = <<File(s)>>
    BY <1>5 DEF Outputs
  <2>2. File(s) # Manifest
    BY StagesAre DEF File, Manifest
  <2>3. s = "report" => ~Quoted(File(s))
    BY DEF Quoted, File
  <2>4. QED
    BY <1>1, <1>5, <2>1, <2>2, <2>3 DEF Range
<1>6. QED
  BY <1>3, <1>4, <1>5

\* What a stage writes is settled when the experiment is.
LEMMA OutputsKept ==
    ASSUME plan' = plan, run' = run
    PROVE  \A u \in Stages : Outputs(u)' = Outputs(u)
BY DEF Outputs, RawFile, Modes

\* A stage that ends adds its files to those of the stages that went well, or to those a
\* failed stage may have left.
LEMMA StageEnds ==
    ASSUME PipeWellTyped, StagesAccounted, plan' = plan, run' = run,
           NEW s \in todo, NEW outcome \in {"ok", "skipped", "failed"},
           status' = [status EXCEPT ![s] = outcome]
    PROVE  /\ DOMAIN status' = DOMAIN status /\ s \in DOMAIN status /\ s \in Stages
           /\ \A u \in DOMAIN status : status'[u] = IF u = s THEN outcome ELSE status[u]
           /\ Artifacts' = Artifacts \cup (IF outcome = "ok" THEN Range(Outputs(s)) ELSE {})
           /\ Leftovers' = Leftovers \cup (IF outcome = "failed" THEN Range(Outputs(s)) ELSE {})
<1>1. s \in DOMAIN status /\ DOMAIN status \subseteq Stages /\ status[s] = "pending"
  BY DEF PipeWellTyped, StagesAccounted
<1>2. DOMAIN status' = DOMAIN status
  OBVIOUS
<1>3. \A u \in DOMAIN status : status'[u] = IF u = s THEN outcome ELSE status[u]
  BY <1>1
<1>4. \A u \in DOMAIN status : Outputs(u)' = Outputs(u)
  BY <1>1, OutputsKept
<1> DEFINE ended(x) == {u \in DOMAIN status : status[u] = x}
<1> DEFINE after(x) == {u \in DOMAIN status : status'[u] = x}
<1>5. after("ok") = ended("ok") \cup {u \in {s} : outcome = "ok"}
      /\ after("failed") = ended("failed") \cup {u \in {s} : outcome = "failed"}
  BY <1>1, <1>3
<1>6. Artifacts' = UNION {Range(Outputs(u)) : u \in after("ok")}
  <2>1. Artifacts' = UNION {Range(Outputs(u)') : u \in after("ok")}
    BY <1>2 DEF Artifacts
  <2>2. QED
    BY <1>4, <2>1
<1>7. Leftovers' = UNION {Range(Outputs(u)) : u \in after("failed")}
  <2>1. Leftovers' = UNION {Range(Outputs(u)') : u \in after("failed")}
    BY <1>2 DEF Leftovers
  <2>2. QED
    BY <1>4, <2>1
<1>8. Artifacts = UNION {Range(Outputs(u)) : u \in ended("ok")}
      /\ Leftovers = UNION {Range(Outputs(u)) : u \in ended("failed")}
  BY DEF Artifacts, Leftovers
<1> HIDE DEF after, ended
<1>9. Artifacts' = Artifacts \cup (IF outcome = "ok" THEN Range(Outputs(s)) ELSE {})
  BY <1>5, <1>6, <1>8
<1>10. Leftovers' = Leftovers \cup (IF outcome = "failed" THEN Range(Outputs(s)) ELSE {})
  BY <1>5, <1>7, <1>8
<1>11. QED
  BY <1>1, <1>2, <1>3, <1>9, <1>10

\* A stage is skipped because figures are, because its selection left out what it needs,
\* or because what it needs failed or gave nothing.
LEMMA SkippedForReason ==
    ASSUME Inv, NEW s, AtStage(s), s # "plots", Missing(s)
    PROVE  \/ Expanded(DOMAIN status) # DOMAIN status
           \/ \E u \in DOMAIN status : status[u] = "failed"
           \/ run # None /\ Cardinality(run.results) = 0
<1>1. /\ s \in Stages /\ s \in DOMAIN status
      /\ s # "experiment" => "experiment" \notin todo
      /\ s = "comparison" => "raw" \notin todo
  BY AtStageFacts DEF Inv, PipeInv
<1>2. /\ Needs[s] = {"experiment"} => s # "experiment"
      /\ Needs[s] = {"raw"} => s = "comparison"
  BY <1>1, StagesAre DEF Needs
<1>3. CASE Needs[s] = {"experiment"} /\ run = None
  <2>1. CASE "experiment" \in DOMAIN status
    <3>1. status["experiment"] \in {"ok", "failed"} /\ (status["experiment"] = "ok" => step = "done")
      BY <1>1, <1>2, <1>3, <2>1 DEF Inv, ExperimentFirst
    <3>2. step # "done"
      BY <1>3 DEF Inv, ExpInv, RunTrue
    <3>3. QED
      BY <2>1, <3>1, <3>2
  <2>2. CASE "experiment" \notin DOMAIN status
    <3>1. "experiment" \in Expanded(DOMAIN status)
      BY <1>1, <1>3 DEF Expanded
    <3>2. QED
      BY <2>2, <3>1
  <2>3. QED
    BY <2>1, <2>2
<1>4. CASE Needs[s] = {"raw"} /\ context.runs = 0
  <2>1. CASE "raw" \in DOMAIN status
    <3>1. status["raw"] \in {"ok", "skipped", "failed"}
      <4>1. status["raw"] # "pending"
        BY <1>1, <1>2, <1>4, <2>1 DEF Inv, PipeInv, StagesAccounted
      <4>2. status["raw"] \in Range(status)
        BY <2>1 DEF Range
      <4>3. QED
        BY <4>1, <4>2 DEF Inv, PipeInv, PipeWellTyped
    <3>2. CASE status["raw"] = "ok"
      BY <1>4, <2>1, <3>2 DEF Inv, PipeInv, StagesAccounted
    <3>3. CASE status["raw"] = "skipped"
      BY <2>1, <3>3 DEF Inv, PipeInv, StagesAccounted
    <3>4. QED
      BY <2>1, <3>1, <3>2, <3>3
  <2>2. CASE "raw" \notin DOMAIN status
    <3>1. "raw" \in Expanded(DOMAIN status)
      BY <1>1, <1>4 DEF Expanded
    <3>2. QED
      BY <2>2, <3>1
  <2>3. QED
    BY <2>1, <2>2
<1>5. QED
  BY <1>3, <1>4 DEF Missing

\* There are finitely many files, so that those that go wrong can be counted.
LEMMA FilesFinite ==
    ASSUME PlanTyped
    PROVE  \A S \in SUBSET Files : IsFiniteSet(S) /\ Cardinality(S) \in Nat
<1> DEFINE names == (Stages \ {"raw"}) \cup {"error-records", "manifest", "quarantined"}
<1>1. IsFiniteSet(1..7)
  <2>1. \A n \in Nat : IsFiniteSet(1..n)
    BY FS_Interval
  <2>2. QED
    BY <2>1
<1>2. StageOrder \in Surjection(1..7, Stages)
  BY DEF Surjection, Stages, StageOrder, Range
<1>3. IsFiniteSet(Stages)
  BY <1>1, <1>2, FS_Surjection
<1>4. IsFiniteSet(Stages \cup {"error-records"})
  BY <1>3, FS_AddElement
<1>5. IsFiniteSet((Stages \cup {"error-records"}) \cup {"manifest"})
  BY <1>4, FS_AddElement
<1>6. IsFiniteSet(names)
  <2>1. IsFiniteSet(((Stages \cup {"error-records"}) \cup {"manifest"}) \cup {"quarantined"})
    BY <1>5, FS_AddElement
  <2>2. names \subseteq ((Stages \cup {"error-records"}) \cup {"manifest"}) \cup {"quarantined"}
    OBVIOUS
  <2>3. QED
    BY <2>1, <2>2, FS_Subset
<1>7. IsFiniteSet({File(n) : n \in names})
  <2> HIDE DEF names
  <2> DEFINE f == [n \in names |-> File(n)]
  <2>1. f \in Surjection(names, {File(n) : n \in names})
    BY DEF Surjection
  <2> HIDE DEF f
  <2>2. QED
    BY <1>6, <2>1, FS_Surjection
<1>8. IsFiniteSet({RawFile(n) : n \in 1..(Modes * Trials)})
  <2>1. IsFiniteSet(1..(Modes * Trials))
    BY PlanFacts, FS_Interval
  <2> DEFINE f == [n \in 1..(Modes * Trials) |-> RawFile(n)]
  <2>2. f \in Surjection(1..(Modes * Trials), {RawFile(n) : n \in 1..(Modes * Trials)})
    BY DEF Surjection
  <2> HIDE DEF f
  <2>3. QED
    BY <2>1, <2>2, FS_Surjection
<1>9. IsFiniteSet(Files)
  BY <1>7, <1>8, FS_Union DEF Files
<1>10. QED
  BY <1>9, FS_Subset, FS_CardinalityType

\* The files of the stages, and what failed stages left, are not the manifest.
LEMMA StageFiles ==
    ASSUME Inv
    PROVE  /\ Artifacts \subseteq Files /\ Manifest \notin Artifacts
           /\ Leftovers \subseteq Files /\ Manifest \notin Leftovers
           /\ Manifest \in Files /\ Note \in Files
           /\ Note # Manifest /\ ~Quoted(Note)
           /\ \A f : f # Manifest => (Echoes(f) <=> Quoted(f))
           /\ Echoes(Manifest) <=> leak # NoLeak /\ echoing
<1>1. ASSUME NEW s \in DOMAIN status, status[s] \in {"ok", "failed"}
      PROVE  Range(Outputs(s)) \subseteq Files /\ Manifest \notin Range(Outputs(s))
  <2>1. s \in Stages /\ ExpInv /\ (s = "raw" => run # None)
    BY <1>1 DEF Inv, PipeInv, PipeWellTyped, StagesAccounted
  <2>2. QED
    BY <2>1, OutputsAre
<1>2. Artifacts \subseteq Files /\ Manifest \notin Artifacts
  BY <1>1 DEF Artifacts
<1>3. Leftovers \subseteq Files /\ Manifest \notin Leftovers
  BY <1>1 DEF Leftovers
<1>4. /\ Manifest \in Files /\ Note \in Files
      /\ Note # Manifest /\ ~Quoted(Note)
  BY DEF Files, Manifest, Note, File, Quoted
<1>5. \A f : f # Manifest => (Echoes(f) <=> Quoted(f))
  BY DEF Echoes, Quoted
<1>6. Echoes(Manifest) <=> leak # NoLeak /\ echoing
  <2>1. Manifest[1] = "manifest" /\ Manifest # <<"raw", leak.mode, leak.trial>>
    BY DEF Manifest, File
  <2>2. QED
    BY <2>1 DEF Echoes
<1>7. QED
  BY <1>2, <1>3, <1>4, <1>5, <1>6

\* The faults stay within their bound.
LEMMA FaultyTyped ==
    ASSUME PipeWellTyped, NEW n \in Nat, Faulty(n)
    PROVE  faults' \in 0..MaxFaults
BY FaultsTyped DEF Faulty, PipeWellTyped

\* The scan of the stages finds exactly the carriers among their files, but for those it
\* passes over.
LEMMA StageScan ==
    ASSUME PipeInv, phase = "stages"
    PROVE  /\ \A S : Findings(Artifacts, S) = Carriers \ S
           /\ MayMiss(Artifacts) = Carriers
           /\ deleted = {} /\ ~echoing
<1>1. ~echoing /\ deleted = {} /\ Artifacts \subseteq disk
  BY DEF PipeInv, ScansComplete, FilesAccounted
<1>2. \A f : Echoes(f) <=> Quoted(f)
  BY <1>1 DEF Echoes, Quoted
<1>3. QED
  BY <1>1, <1>2 DEF Findings, MayMiss, Carriers

\* A scan of the stages that passes over S.
ScannedBut(S) ==
    check' = [check EXCEPT !.stages = Findings(Artifacts, S), !.skipped = S]

\* A scan passes over some of the files in which it would have found something.
LEMMA StagesScanned ==
    ASSUME Inv, NEW n \in Nat, ScanStages(n)
    PROVE  faults' \in 0..MaxFaults /\ \E S \in SUBSET MayMiss(Artifacts) : ScannedBut(S)
<1>1. PICK S \in SUBSET MayMiss(Artifacts) : Faulty(n + Cardinality(S)) /\ ScannedBut(S)
  BY DEF ScanStages, ScannedBut
<1>2. S \subseteq Files /\ PlanTyped /\ PipeWellTyped
  BY DEF MayMiss, Inv, ExpInv, PipeInv, PipeWellTyped
<1>3. n + Cardinality(S) \in Nat
  BY <1>2, FilesFinite
<1>4. faults' \in 0..MaxFaults
  BY <1>1, <1>2, <1>3, FaultyTyped
<1>5. QED
  BY <1>1, <1>4

\* What such a scan says of the carriers.
LEMMA ScannedButFacts ==
    ASSUME Inv, phase = "stages", NEW S \in SUBSET MayMiss(Artifacts), ScannedBut(S)
    PROVE  /\ check' \in [stages : SUBSET Files, report : SUBSET Files, skipped : SUBSET Files]
           /\ check'.stages = Carriers \ check'.skipped /\ check'.report = {}
           /\ Manifest \notin check'.skipped
<1>1. /\ check \in [stages : SUBSET Files, report : SUBSET Files, skipped : SUBSET Files]
      /\ check.report = {}
  BY DEF Inv, PipeInv, PipeWellTyped, ScansComplete
<1>2. S \subseteq Carriers /\ Findings(Artifacts, S) = Carriers \ S
  BY StageScan DEF Inv
<1>3. Carriers \subseteq Files /\ Manifest \notin Carriers
  BY StageFiles DEF Carriers
<1>4. check' = [stages |-> Carriers \ S, report |-> {}, skipped |-> S]
  BY <1>1, <1>2 DEF ScannedBut
<1>5. QED
  BY <1>2, <1>3, <1>4

\* Whatever way a stage ends, the books of the pipeline are kept.
LEMMA StageOver ==
    ASSUME Inv, NEW s, NEW outcome \in {"ok", "skipped", "failed"},
           EndStage(s, outcome), UNCHANGED expVars,
           outcome = "skipped" => s = "plots" \/ Missing(s),
           s = "experiment" => /\ outcome # "skipped" /\ step \in {"done", "raised"}
                               /\ outcome = "ok" => step = "done",
           s = "raw" /\ outcome # "skipped" => run # None,
           disk \subseteq disk',
           disk' \subseteq disk \cup (IF outcome = "skipped" THEN {} ELSE Range(Outputs(s))),
           outcome = "ok" => Range(Outputs(s)) \subseteq disk',
           context' \in [runs : Nat, errors : BOOLEAN, scanned : BOOLEAN],
           IF s = "raw" THEN outcome = "ok" => context'.runs = Cardinality(run.results)
           ELSE context'.runs = context.runs,
           context'.scanned <=> context.scanned \/ (s = "report" /\ outcome # "skipped"),
           IF s = "report" /\ outcome # "skipped"
           THEN \E S \in SUBSET MayMiss(Artifacts) : ScannedBut(S) ELSE check' = check,
           faults' \in 0..MaxFaults
    PROVE  PipeInv' /\ ExperimentFirst'
<1>1. /\ phase = "stages" /\ s \in todo /\ s \in DOMAIN status /\ s \in Stages
      /\ s # "experiment" => "experiment" \notin todo
      /\ s = "comparison" => "raw" \notin todo
      /\ s = "report" => todo = {"report"}
  BY AtStageFacts DEF EndStage, Inv, PipeInv
<1>2. /\ todo' = todo \ {s} /\ status' = [status EXCEPT ![s] = outcome]
      /\ phase' = phase /\ exit' = exit /\ deleted' = deleted /\ echoing' = echoing
      /\ lost' = lost
      /\ plan' = plan /\ run' = run /\ leak' = leak /\ step' = step
  BY DEF EndStage, expVars
<1>3. PipeWellTyped /\ StagesAccounted /\ FilesAccounted /\ ScansComplete
      /\ ExperimentFirst /\ ExpInv
  BY DEF Inv, PipeInv
<1>4. /\ DOMAIN status' = DOMAIN status
      /\ \A u \in DOMAIN status : status'[u] = IF u = s THEN outcome ELSE status[u]
      /\ Artifacts' = Artifacts \cup (IF outcome = "ok" THEN Range(Outputs(s)) ELSE {})
      /\ Leftovers' = Leftovers \cup (IF outcome = "failed" THEN Range(Outputs(s)) ELSE {})
  BY <1>1, <1>2, <1>3, StageEnds
<1>5. outcome # "skipped" =>
          /\ Range(Outputs(s)) \subseteq Files /\ Manifest \notin Range(Outputs(s))
          /\ s = "report" => \A f \in Range(Outputs(s)) : ~Quoted(f)
  BY <1>1, <1>3, OutputsAre
<1>6. deleted = {} /\ ~echoing
  BY <1>1, StageScan DEF Inv
<1>7. \A f : Quoted(f)' <=> Quoted(f)
  BY <1>2 DEF Quoted, NoLeak
<1>8. s # "experiment" \/ todo' = DOMAIN status \ {"experiment"}
  BY <1>1, <1>2, <1>3 DEF ExperimentFirst
<1>9. "experiment" \notin todo'
  BY <1>1, <1>2
<1>10. Files' = Files
  BY <1>2 DEF Files, RawFile, Modes, Trials
<1>11. PipeWellTyped'
  <2>1. todo' \subseteq DOMAIN status' /\ DOMAIN status' \subseteq Stages
    BY <1>2, <1>3, <1>4 DEF PipeWellTyped
  <2>2. Range(status') \subseteq {"pending", "ok", "skipped", "failed"}
    <3>1. \A u \in DOMAIN status : status[u] \in {"pending", "ok", "skipped", "failed"}
      BY <1>3 DEF PipeWellTyped, Range
    <3>2. QED
      BY <1>4, <3>1 DEF Range
  <2>3. disk' \subseteq Files /\ deleted' \subseteq Files /\ lost' \subseteq Files
    BY <1>2, <1>3, <1>5 DEF PipeWellTyped
  <2>4. check' \in [stages : SUBSET Files, report : SUBSET Files, skipped : SUBSET Files]
    <3>1. check \in [stages : SUBSET Files, report : SUBSET Files, skipped : SUBSET Files]
      BY <1>3 DEF PipeWellTyped
    <3>2. CASE s = "report" /\ outcome # "skipped"
      <4>1. PICK S \in SUBSET MayMiss(Artifacts) : ScannedBut(S)
        BY <3>2
      <4>2. QED
        BY <1>1, <4>1, ScannedButFacts
    <3>3. CASE ~(s = "report" /\ outcome # "skipped")
      BY <3>1, <3>3
    <3>4. QED
      BY <3>2, <3>3
  <2>5. phase' \in {"stages", "written", "scanned", "rewrite", "note", "returned", "raised"}
        /\ exit' \in {0, 2, 3, 4} /\ echoing' \in BOOLEAN
    BY <1>2, <1>3 DEF PipeWellTyped
  <2>6. QED
    BY <1>10, <2>1, <2>2, <2>3, <2>4, <2>5 DEF PipeWellTyped
<1>12. StagesAccounted'
  <2>1. \A u \in DOMAIN status : status'[u] = "pending" <=> u \in todo'
    BY <1>2, <1>3, <1>4 DEF StagesAccounted
  <2>2. "raw" \in DOMAIN status /\ status'["raw"] \in {"ok", "failed"} => run # None
    BY <1>3, <1>4 DEF StagesAccounted
  <2>3. "raw" \in DOMAIN status /\ status'["raw"] = "ok" =>
            context'.runs = Cardinality(run.results)
    BY <1>3, <1>4 DEF StagesAccounted
  <2>4. ASSUME NEW u \in DOMAIN status, status'[u] = "skipped"
        PROVE  \/ u = "plots"
               \/ Expanded(DOMAIN status) # DOMAIN status
               \/ \E v \in DOMAIN status : status[v] = "failed"
               \/ run # None /\ Cardinality(run.results) = 0
    <3>1. CASE u = s
      <4>1. AtStage(s)
        BY DEF EndStage
      <4>2. QED
        BY <1>4, <2>4, <3>1, <4>1, SkippedForReason
    <3>2. CASE u # s
      BY <1>3, <1>4, <2>4, <3>2 DEF StagesAccounted
    <3>3. QED
      BY <3>1, <3>2
  <2>5. \A v \in DOMAIN status : status[v] = "failed" => status'[v] = "failed"
    BY <1>1, <1>3, <1>4 DEF StagesAccounted
  <2>6. QED
    BY <1>2, <1>4, <2>1, <2>2, <2>3, <2>4, <2>5 DEF StagesAccounted
<1>13. FilesAccounted'
  <2>1. Artifacts' \subseteq disk' \cup deleted'
    BY <1>2, <1>3, <1>4 DEF FilesAccounted
  <2>2. Manifest' = Manifest
    BY DEF Manifest, File
  <2>3. disk' \subseteq Artifacts' \cup Leftovers' \cup {Manifest, Note}
    BY <1>3, <1>4 DEF FilesAccounted
  <2>4. Note' = Note
    BY DEF Note, File
  <2>5. QED
    BY <1>2, <1>6, <2>1, <2>2, <2>3, <2>4 DEF FilesAccounted
<1>14. ScansComplete'
  <2>1. check.report = {} /\ Manifest \notin check.skipped /\ exit = 0
    BY <1>1, <1>3 DEF ScansComplete
  <2>2. context'.scanned => todo' = {}
    BY <1>1, <1>2, <1>3 DEF ScansComplete
  <2>3. CASE s = "report" /\ outcome # "skipped"
    <3>1. PICK S \in SUBSET MayMiss(Artifacts) : ScannedBut(S)
      BY <2>3
    <3>2. /\ check'.stages = Carriers \ check'.skipped /\ check'.report = {}
          /\ Manifest \notin check'.skipped
      BY <1>1, <3>1, ScannedButFacts
    <3>3. Carriers' = Carriers
      BY <1>4, <1>5, <1>7, <2>3 DEF Carriers
    <3>4. Manifest' = Manifest
      BY DEF Manifest, File
    <3>5. QED
      BY <1>1, <1>2, <1>6, <2>1, <2>2, <3>2, <3>3, <3>4 DEF ScansComplete, Scanned
  <2>4. CASE ~(s = "report" /\ outcome # "skipped")
    <3>1. ~context'.scanned
      BY <1>1, <1>3, <2>4 DEF ScansComplete
    <3>2. check' = check /\ Manifest' = Manifest
      BY <2>4 DEF Manifest, File
    <3>3. QED
      BY <1>1, <1>2, <1>6, <2>1, <3>1, <3>2 DEF ScansComplete, Scanned
  <2>5. QED
    BY <2>3, <2>4
<1>15. ExitTrue' /\ Left'
  BY <1>1, <1>2 DEF ExitTrue, Left, Scanned
<1>16. ExperimentFirst'
  BY <1>1, <1>2, <1>3, <1>4, <1>9 DEF ExperimentFirst
<1>17. QED
  BY <1>11, <1>12, <1>13, <1>14, <1>15, <1>16 DEF PipeInv

\* A failed experiment ends its stage.
LEMMA ExperimentFailsKeeps ==
    ASSUME Inv, ExperimentFails
    PROVE  PipeInv' /\ ExperimentFirst'
<1>1. /\ step = "raised" /\ EndStage("experiment", "failed")
      /\ UNCHANGED expVars
      /\ disk' = disk /\ context' = context /\ check' = check /\ faults' = faults
  BY DEF ExperimentFails
<1>2. context \in [runs : Nat, errors : BOOLEAN, scanned : BOOLEAN] /\ faults \in 0..MaxFaults
  BY DEF Inv, PipeInv, PipeWellTyped
<1>3. QED
  BY <1>1, <1>2, StageOver

\* A skipped stage leaves nothing.
LEMMA SkipStageKeeps ==
    ASSUME Inv, NEW s \in Stages, SkipStage(s)
    PROVE  PipeInv' /\ ExperimentFirst'
<1>1. /\ Missing(s) \/ s = "plots"
      /\ EndStage(s, "skipped") /\ UNCHANGED expVars
      /\ disk' = disk /\ context' = context /\ check' = check /\ faults' = faults
  BY DEF SkipStage
<1>2. context \in [runs : Nat, errors : BOOLEAN, scanned : BOOLEAN] /\ faults \in 0..MaxFaults
  BY DEF Inv, PipeInv, PipeWellTyped
<1>3. s # "experiment"
  BY <1>1 DEF Missing, Needs, Stages
<1>4. QED
  BY <1>1, <1>2, <1>3, StageOver

\* What a stage hands on.
LEMMA Provided ==
    ASSUME Inv, NEW s, NEW runs \in Nat, NEW errors \in BOOLEAN, NEW n \in Nat,
           Provide(s, runs, errors, n)
    PROVE  /\ context' \in [runs : Nat, errors : BOOLEAN, scanned : BOOLEAN]
           /\ IF s = "raw" THEN context'.runs = runs ELSE context'.runs = context.runs
           /\ context'.scanned <=> context.scanned \/ s = "report"
           /\ IF s = "report" THEN \E S \in SUBSET MayMiss(Artifacts) : ScannedBut(S)
              ELSE check' = check
           /\ faults' \in 0..MaxFaults
<1>1. context \in [runs : Nat, errors : BOOLEAN, scanned : BOOLEAN] /\ PipeWellTyped
  BY DEF Inv, PipeInv, PipeWellTyped
<1>2. context' = [runs    |-> IF s = "raw" THEN runs ELSE context.runs,
                  errors  |-> context.errors \/ (s = "errors" /\ errors),
                  scanned |-> context.scanned \/ s = "report"]
  BY DEF Provide
<1>3. /\ context.runs \in Nat /\ context.errors \in BOOLEAN /\ context.scanned \in BOOLEAN
      /\ (context.errors \/ (s = "errors" /\ errors)) \in BOOLEAN
      /\ (context.scanned \/ s = "report") \in BOOLEAN
  BY <1>1
<1>4. context' \in [runs : Nat, errors : BOOLEAN, scanned : BOOLEAN]
  BY <1>2, <1>3
<1>5. context'.scanned <=> context.scanned \/ s = "report"
  BY <1>2
<1>6. IF s = "raw" THEN context'.runs = runs ELSE context'.runs = context.runs
  BY <1>2
<1>7. /\ IF s = "report" THEN \E S \in SUBSET MayMiss(Artifacts) : ScannedBut(S)
         ELSE check' = check
      /\ faults' \in 0..MaxFaults
  BY <1>1, StagesScanned, FaultyTyped DEF Provide
<1>8. QED
  BY <1>4, <1>5, <1>6, <1>7

\* A stage that is ready has what it needs.
LEMMA ReadyFacts ==
    ASSUME Inv, NEW s \in Stages, Ready(s)
    PROVE  /\ s = "experiment" => step = "done"
           /\ s = "raw" => run # None
BY StagesAre DEF Ready, Missing, Needs

\* A stage succeeds with all its files.
LEMMA StageSucceedsKeeps ==
    ASSUME Inv, NEW s \in Stages, StageSucceeds(s)
    PROVE  PipeInv' /\ ExperimentFirst'
<1>1. /\ Ready(s) /\ EndStage(s, "ok") /\ UNCHANGED expVars
      /\ disk' = disk \cup Range(Outputs(s))
      /\ Provide(s, Len(Outputs(s)), TRUE, 0)
  BY DEF StageSucceeds
<1>2. ExpInv
  BY DEF Inv
<1>3. /\ s = "experiment" => step = "done"
      /\ s = "raw" => run # None
  BY <1>1, ReadyFacts
<1>4. Len(Outputs(s)) \in Nat /\ (s = "raw" => Len(Outputs(s)) = Cardinality(run.results))
  BY <1>2, <1>3, OutputsAre
<1> DEFINE n == Len(Outputs(s))
<1>5. n \in Nat /\ Provide(s, n, TRUE, 0) /\ (s = "raw" => n = Cardinality(run.results))
  BY <1>1, <1>4
<1> HIDE DEF n
<1>6. /\ context' \in [runs : Nat, errors : BOOLEAN, scanned : BOOLEAN]
      /\ IF s = "raw" THEN context'.runs = n ELSE context'.runs = context.runs
      /\ context'.scanned <=> context.scanned \/ s = "report"
      /\ IF s = "report" THEN \E S \in SUBSET MayMiss(Artifacts) : ScannedBut(S)
         ELSE check' = check
      /\ faults' \in 0..MaxFaults
  BY <1>5, Provided
<1>7. QED
  BY <1>1, <1>3, <1>5, <1>6, StageOver

\* A stage fails with some of its files.
LEMMA StageFailsKeeps ==
    ASSUME Inv, NEW s \in Stages, NEW n \in Nat, NEW partly \in BOOLEAN,
           StageFails(s, n, partly)
    PROVE  PipeInv' /\ ExperimentFirst'
<1>1. /\ Ready(s) /\ EndStage(s, "failed") /\ UNCHANGED expVars
      /\ n < Len(Outputs(s))
      /\ disk' = disk \cup {Outputs(s)[i] : i \in 1..(IF partly THEN n + 1 ELSE n)}
      /\ \E computed \in BOOLEAN : Provide(s, n, computed, 1)
  BY DEF StageFails
<1>2. ExpInv
  BY DEF Inv
<1>3. /\ s = "experiment" => step = "done"
      /\ s = "raw" => run # None
  BY <1>1, ReadyFacts
<1>4. Len(Outputs(s)) \in Nat /\ DOMAIN Outputs(s) = 1..Len(Outputs(s))
  BY <1>2, <1>3, OutputsAre
<1>5. {Outputs(s)[i] : i \in 1..(IF partly THEN n + 1 ELSE n)} \subseteq Range(Outputs(s))
  <2>1. 1..(IF partly THEN n + 1 ELSE n) \subseteq DOMAIN Outputs(s)
    BY <1>1, <1>4
  <2>2. QED
    BY <2>1 DEF Range
<1>6. PICK computed \in BOOLEAN : Provide(s, n, computed, 1)
  BY <1>1
<1>7. /\ context' \in [runs : Nat, errors : BOOLEAN, scanned : BOOLEAN]
      /\ IF s = "raw" THEN context'.runs = n ELSE context'.runs = context.runs
      /\ context'.scanned <=> context.scanned \/ s = "report"
      /\ IF s = "report" THEN \E S \in SUBSET MayMiss(Artifacts) : ScannedBut(S)
         ELSE check' = check
      /\ faults' \in 0..MaxFaults
  BY <1>6, Provided
<1>8. QED
  BY <1>1, <1>3, <1>5, <1>7, StageOver

\* While the experiment is at work no stage has ended, and nothing is on disk.
LEMMA ExperimentAtWork ==
    ASSUME Inv, "experiment" \in todo, plan' = plan, UNCHANGED pipeVars
    PROVE  PipeInv' /\ ExperimentFirst'
<1>1. /\ todo = DOMAIN status /\ disk = {} /\ ~context.scanned /\ deleted = {}
      /\ \A s \in DOMAIN status : status[s] = "pending"
  BY DEF Inv, PipeInv, ExperimentFirst, StagesAccounted
<1>2. UNCHANGED <<todo, status, disk, context, check, phase, exit, deleted, echoing,
                  faults, lost>> /\ plan' = plan
  BY DEF pipeVars
<1>3. phase = "stages" /\ "experiment" \in DOMAIN status
  BY <1>1 DEF Inv, PipeInv, ScansComplete
<1>4. Artifacts' = {} /\ Carriers' = {} /\ Leftovers' = {}
  BY <1>1, <1>2 DEF Artifacts, Carriers, Leftovers
<1>5. Files' = Files
  BY <1>2 DEF Files, RawFile, Modes, Trials
<1>6. PipeWellTyped'
  BY <1>2, <1>5 DEF Inv, PipeInv, PipeWellTyped
<1>7. StagesAccounted'
  BY <1>1, <1>2 DEF Inv, PipeInv, StagesAccounted
<1>8. FilesAccounted'
  BY <1>1, <1>2, <1>4 DEF FilesAccounted
<1>9. ScansComplete'
  BY <1>1, <1>2, <1>3 DEF Inv, PipeInv, ScansComplete, Scanned, Named, Manifest, File
<1>10. ExitTrue' /\ Left'
  BY <1>2, <1>3 DEF ExitTrue, Left, Scanned
<1>11. ExperimentFirst'
  BY <1>1, <1>2, <1>3 DEF ExperimentFirst
<1>12. QED
  BY <1>6, <1>7, <1>8, <1>9, <1>10, <1>11 DEF PipeInv

-------------------------------------------------------------------------------
(* The manifest, the scans and the quarantine.                             *)

\* Once the stages are over their books are closed.
LEMMA BooksClosed ==
    ASSUME Inv, todo = {}, UNCHANGED expVars, UNCHANGED <<todo, status, context>>
    PROVE  /\ StagesAccounted' /\ ExperimentFirst'
           /\ Artifacts' = Artifacts /\ Leftovers' = Leftovers /\ Carriers' = Carriers
           /\ Manifest' = Manifest /\ Note' = Note /\ Files' = Files
           /\ \A f : Quoted(f)' <=> Quoted(f)
           /\ \A f : f # Manifest => (Echoes(f)' <=> Quoted(f))
           /\ Echoes(Manifest)' <=> leak # NoLeak /\ echoing'
<1>1. /\ todo' = todo /\ status' = status /\ context' = context
      /\ plan' = plan /\ run' = run /\ leak' = leak /\ step' = step
  BY DEF expVars
<1>2. \A u \in DOMAIN status : Outputs(u)' = Outputs(u)
  BY <1>1, OutputsKept DEF Inv, PipeInv, PipeWellTyped
<1>3. Artifacts' = Artifacts
  <2>1. Artifacts' = UNION {Range(Outputs(s)') : s \in {u \in DOMAIN status : status[u] = "ok"}}
    BY <1>1 DEF Artifacts
  <2>2. QED
    BY <1>2, <2>1 DEF Artifacts
<1>4. Leftovers' = Leftovers
  <2>1. Leftovers' = UNION {Range(Outputs(s)') : s \in {u \in DOMAIN status : status[u] = "failed"}}
    BY <1>1 DEF Leftovers
  <2>2. QED
    BY <1>2, <2>1 DEF Leftovers
<1>5. \A f : Quoted(f)' <=> Quoted(f)
  BY <1>1 DEF Quoted, NoLeak
<1>6. Carriers' = Carriers
  BY <1>3, <1>5 DEF Carriers
<1>7. Manifest' = Manifest /\ Note' = Note /\ Files' = Files
  BY <1>1 DEF Manifest, Note, File, Files, RawFile, Modes, Trials
<1>8. \A f : f # Manifest => (Echoes(f)' <=> Quoted(f))
  BY <1>1, <1>7 DEF Echoes, Quoted, NoLeak
<1>9. Echoes(Manifest)' <=> leak # NoLeak /\ echoing'
  <2>1. Manifest[1] = "manifest" /\ Manifest # <<"raw", leak.mode, leak.trial>>
    BY DEF Manifest, File
  <2>2. QED
    BY <1>1, <1>7, <2>1 DEF Echoes, NoLeak
<1>10. StagesAccounted'
  BY <1>1 DEF Inv, PipeInv, StagesAccounted
<1>11. ExperimentFirst'
  BY <1>1 DEF Inv, ExperimentFirst
<1>12. QED
  BY <1>3, <1>4, <1>5, <1>6, <1>7, <1>8, <1>9, <1>10, <1>11

\* The manifest is written when every stage is over, and the stages are scanned by then.
LEMMA WriteManifestKeeps ==
    ASSUME Inv, WriteManifest
    PROVE  PipeInv' /\ ExperimentFirst'
<1>1. /\ phase = "stages" /\ todo = {} /\ phase' = "written"
      /\ IF context.scanned THEN UNCHANGED <<check, faults>> ELSE ScanStages(0)
      /\ exit' = ExitCode(check'.stages)
      /\ disk' = disk \cup {Manifest}
      /\ echoing' = (context.errors /\ leak.quoted = "example")
      /\ UNCHANGED expVars /\ UNCHANGED <<todo, status, context>>
      /\ deleted' = deleted /\ lost' = lost
  BY DEF WriteManifest
<1>2. /\ PipeWellTyped /\ StagesAccounted /\ FilesAccounted /\ ScansComplete
  BY DEF Inv, PipeInv
<1>3. deleted = {}
  BY <1>1, <1>2 DEF FilesAccounted
<1>4. /\ StagesAccounted' /\ ExperimentFirst'
      /\ Artifacts' = Artifacts /\ Leftovers' = Leftovers /\ Carriers' = Carriers
      /\ Manifest' = Manifest /\ Note' = Note /\ Files' = Files
  BY <1>1, BooksClosed
<1>5. Manifest \in Files
  BY StageFiles
<1>6. /\ check' \in [stages : SUBSET Files, report : SUBSET Files, skipped : SUBSET Files]
      /\ check'.stages = Carriers \ check'.skipped /\ check'.report = {}
      /\ Manifest \notin check'.skipped
      /\ faults' \in 0..MaxFaults
  <2>1. CASE context.scanned
    BY <1>1, <1>2, <2>1 DEF PipeWellTyped, ScansComplete
  <2>2. CASE ~context.scanned
    <3>1. ScanStages(0)
      BY <1>1, <2>2
    <3>2. faults' \in 0..MaxFaults /\ \E S \in SUBSET MayMiss(Artifacts) : ScannedBut(S)
      BY <3>1, StagesScanned
    <3>3. QED
      BY <1>1, <3>2, ScannedButFacts
  <2>3. QED
    BY <2>1, <2>2
<1>7. PipeWellTyped'
  <2>1. exit' \in {0, 2, 3, 4} /\ echoing' \in BOOLEAN
    BY <1>1 DEF ExitCode
  <2>2. QED
    BY <1>1, <1>2, <1>4, <1>5, <1>6, <2>1 DEF PipeWellTyped
<1>8. FilesAccounted'
  BY <1>1, <1>2, <1>3, <1>4 DEF FilesAccounted
<1>9. ScansComplete'
  BY <1>1, <1>2, <1>3, <1>4, <1>6 DEF ScansComplete, Scanned, Named
<1>10. ExitTrue'
  <2>1. exit' = 0 => /\ \A s \in DOMAIN status : status[s] # "failed"
                     /\ run # None => run.violations = {} /\ ~run.aborted
    BY <1>1 DEF ExitCode
  <2>2. check'.stages # {} => exit' = 4
    BY <1>1 DEF ExitCode
  <2>3. Named' = check'.stages
    BY <1>6 DEF Named
  <2>4. status' = status /\ run' = run
    BY <1>1 DEF expVars
  <2>5. QED
    BY <2>1, <2>2, <2>3, <2>4 DEF ExitTrue
<1>11. Left'
  BY <1>1 DEF Left
<1>12. QED
  BY <1>4, <1>7, <1>8, <1>9, <1>10, <1>11 DEF PipeInv

\* A manifest that cannot be written ends the pipeline where it stands.
LEMMA ManifestFailsKeeps ==
    ASSUME Inv, ManifestFails
    PROVE  PipeInv' /\ ExperimentFirst'
<1>1. /\ phase = "stages" /\ todo = {} /\ phase' = "raised"
      /\ Faulty(1)
      /\ UNCHANGED expVars /\ UNCHANGED <<todo, status, context>>
      /\ UNCHANGED <<disk, check, exit, deleted, echoing, lost>>
  BY DEF ManifestFails
<1>2. /\ PipeWellTyped /\ StagesAccounted /\ FilesAccounted /\ ScansComplete
  BY DEF Inv, PipeInv
<1>3. /\ StagesAccounted' /\ ExperimentFirst'
      /\ Artifacts' = Artifacts /\ Leftovers' = Leftovers /\ Carriers' = Carriers
      /\ Manifest' = Manifest /\ Note' = Note /\ Files' = Files
  BY <1>1, BooksClosed
<1>4. faults' \in 0..MaxFaults
  BY <1>1, <1>2, FaultyTyped
<1>5. PipeWellTyped'
  BY <1>1, <1>2, <1>3, <1>4 DEF PipeWellTyped
<1>6. deleted = {}
  BY <1>1, <1>2 DEF FilesAccounted
<1>7. FilesAccounted'
  BY <1>1, <1>2, <1>3, <1>6 DEF FilesAccounted
<1>8. ScansComplete'
  BY <1>1, <1>2, <1>3, <1>6 DEF ScansComplete, Scanned, Named
<1>9. ExitTrue' /\ Left'
  BY <1>1 DEF ExitTrue, Left, Scanned
<1>10. QED
  BY <1>3, <1>5, <1>7, <1>8, <1>9 DEF PipeInv

\* The second scan finds the manifest if it quotes the credential and is read, and
\* nothing else.
LEMMA ScanReportKeeps ==
    ASSUME Inv, ScanReport
    PROVE  PipeInv' /\ ExperimentFirst'
<1> DEFINE written == {Manifest} \cup (Artifacts \cap {File("report")})
<1>1. PICK S \in SUBSET MayMiss(written) :
         /\ phase = "written" /\ phase' = "scanned"
         /\ Faulty(Cardinality(S))
         /\ check' = [check EXCEPT !.report = Findings(written, S), !.skipped = @ \cup S]
         /\ exit' = IF Findings(written, S) # {} THEN 4 ELSE exit
         /\ UNCHANGED expVars /\ UNCHANGED <<todo, status, context>>
         /\ UNCHANGED <<disk, deleted, echoing, lost>>
  BY DEF ScanReport
<1> DEFINE found == Findings(written, S)
<1>2. /\ PipeWellTyped /\ StagesAccounted /\ FilesAccounted /\ ScansComplete /\ ExitTrue
      /\ todo = {} /\ PlanTyped
  BY <1>1 DEF Inv, PipeInv, ScansComplete, ExpInv
<1>3. found = {f \in {Manifest} : Echoes(f)} \ S /\ S \subseteq {Manifest}
  <2>1. Manifest \in disk
    BY <1>1, <1>2 DEF ScansComplete
  <2>2. ~Echoes(File("report"))
    BY DEF Echoes, File, Manifest
  <2>3. QED
    BY <2>1, <2>2 DEF Findings, MayMiss
<1> HIDE DEF found
<1>4. /\ StagesAccounted' /\ ExperimentFirst'
      /\ Artifacts' = Artifacts /\ Leftovers' = Leftovers /\ Carriers' = Carriers
      /\ Manifest' = Manifest /\ Note' = Note /\ Files' = Files
      /\ Echoes(Manifest)' <=> leak # NoLeak /\ echoing'
  BY <1>1, <1>2, BooksClosed
<1>5. Manifest \in Files /\ (Echoes(Manifest) <=> leak # NoLeak /\ echoing)
  BY StageFiles
<1>6. /\ check' \in [stages : SUBSET Files, report : SUBSET Files, skipped : SUBSET Files]
      /\ check'.stages = Carriers \ check'.skipped /\ check'.report = found
      /\ check'.skipped = check.skipped \cup S /\ Manifest \notin check.skipped
      /\ check'.stages = check.stages
  <2>1. /\ check \in [stages : SUBSET Files, report : SUBSET Files, skipped : SUBSET Files]
        /\ check.stages = Carriers \ check.skipped /\ Manifest \notin check.skipped
    BY <1>1, <1>2 DEF PipeWellTyped, ScansComplete
  <2>2. check' = [stages |-> check.stages, report |-> found, skipped |-> check.skipped \cup S]
    BY <1>1, <2>1 DEF found
  <2>3. found \subseteq Files /\ S \subseteq Files
    BY <1>3, <1>5
  <2>4. Manifest \notin Carriers
    BY StageFiles DEF Carriers
  <2>5. QED
    BY <1>3, <2>1, <2>2, <2>3, <2>4
<1>7. PipeWellTyped'
  <2>1. exit' \in {0, 2, 3, 4}
    BY <1>1, <1>2 DEF PipeWellTyped
  <2>2. Cardinality(S) \in Nat
    BY <1>2, <1>3, <1>5, FilesFinite
  <2>3. faults' \in 0..MaxFaults
    BY <1>1, <1>2, <2>2, FaultyTyped
  <2>4. QED
    BY <1>1, <1>2, <1>4, <1>6, <2>1, <2>3 DEF PipeWellTyped
<1>8. deleted = {}
  BY <1>1, <1>2 DEF FilesAccounted
<1>9. FilesAccounted'
  BY <1>1, <1>2, <1>4, <1>8 DEF FilesAccounted
<1>10. found = {f \in {Manifest'} : Echoes(f)'} \ check'.skipped
  <2>1. Echoes(Manifest)' <=> Echoes(Manifest)
    BY <1>1, <1>4, <1>5
  <2>2. found = {f \in {Manifest} : Echoes(f)'} \ check'.skipped
    BY <1>3, <1>6, <2>1
  <2>3. QED
    BY <1>4, <2>2
<1>11. ScansComplete'
  <2>1. Manifest \in disk
    BY <1>1, <1>2 DEF ScansComplete
  <2>2. found \subseteq {Manifest}
    BY <1>3
  <2>3. QED
    BY <1>1, <1>2, <1>4, <1>6, <1>8, <1>10, <2>1, <2>2 DEF ScansComplete, Scanned
<1>12. ExitTrue'
  <2>1. check.report = {}
    BY <1>1, <1>2 DEF ScansComplete
  <2>2. check.stages # {} => exit = 4
    BY <1>1, <1>2, <2>1 DEF ExitTrue, Named
  <2>3. exit' = 0 => exit = 0
    BY <1>1
  <2>4. Named' = check.stages \cup found
    BY <1>6 DEF Named
  <2>5. Named' # {} => exit' = 4
    BY <1>1, <2>2, <2>4 DEF found
  <2>6. status' = status /\ run' = run
    BY <1>1 DEF expVars
  <2>7. QED
    BY <1>1, <1>2, <2>3, <2>5, <2>6 DEF ExitTrue
<1>13. Left'
  BY <1>1 DEF Left
<1>14. QED
  BY <1>4, <1>7, <1>9, <1>11, <1>12, <1>13 DEF PipeInv

\* The quarantine unlinks what the scans named; what it cannot unlink is known as lost.
LEMMA QuarantineKeeps ==
    ASSUME Inv, NEW stuck \in SUBSET Named, Quarantine(stuck)
    PROVE  PipeInv' /\ ExperimentFirst'
<1>1. /\ phase = "scanned"
      /\ Faulty(Cardinality(stuck))
      /\ lost' = lost \cup stuck
      /\ deleted' = Named \ stuck
      /\ disk' = disk \ deleted'
      /\ exit' = IF deleted' # {} THEN 4 ELSE exit
      /\ phase' = IF Manifest \in deleted' THEN "rewrite"
                   ELSE IF Named # {} THEN "note" ELSE "returned"
      /\ UNCHANGED expVars /\ UNCHANGED <<todo, status, context>>
      /\ UNCHANGED <<check, echoing>>
  BY DEF Quarantine
<1>2. /\ PipeWellTyped /\ StagesAccounted /\ FilesAccounted /\ ScansComplete /\ ExitTrue
      /\ todo = {} /\ PlanTyped
  BY <1>1 DEF Inv, PipeInv, ScansComplete, ExpInv
<1>3. /\ StagesAccounted' /\ ExperimentFirst'
      /\ Artifacts' = Artifacts /\ Leftovers' = Leftovers /\ Carriers' = Carriers
      /\ Manifest' = Manifest /\ Note' = Note /\ Files' = Files
      /\ \A f : f # Manifest => (Echoes(f)' <=> Quoted(f))
      /\ Echoes(Manifest)' <=> leak # NoLeak /\ echoing'
  BY <1>1, <1>2, BooksClosed
<1>4. Manifest \in Files /\ (Echoes(Manifest) <=> leak # NoLeak /\ echoing)
  BY StageFiles
<1>5. /\ check.stages = Carriers \ check.skipped
      /\ check.report = {f \in {Manifest} : Echoes(f)} \ check.skipped
      /\ Manifest \in disk /\ deleted = {}
  BY <1>1, <1>2 DEF ScansComplete, Scanned, FilesAccounted
<1>6. /\ Named = (Carriers \cup {f \in {Manifest} : Echoes(f)}) \ check.skipped
      /\ Named \subseteq Files /\ Named' = Named
  <2>1. /\ Named = (Carriers \cup {f \in {Manifest} : Echoes(f)}) \ check.skipped
        /\ Named' = Named
    BY <1>1, <1>5 DEF Named
  <2>2. Named \subseteq Files
    BY <1>2 DEF PipeWellTyped, Named
  <2>3. QED
    BY <2>1, <2>2
<1>7. /\ phase' \in {"rewrite", "note", "returned"}
      /\ phase' = "note" => Named # {}
      /\ phase' = "returned" => Named = {}
  <2>1. Manifest \in deleted' => Named # {}
    BY <1>1
  <2>2. QED
    BY <1>1, <2>1
<1>8. PipeWellTyped'
  <2>1. Cardinality(stuck) \in Nat
    BY <1>2, <1>6, FilesFinite
  <2>2. faults' \in 0..MaxFaults
    BY <1>1, <1>2, <2>1, FaultyTyped
  <2>3. lost' \subseteq Files /\ deleted' \subseteq Files /\ disk' \subseteq Files
    BY <1>1, <1>2, <1>6 DEF PipeWellTyped
  <2>4. exit' \in {0, 2, 3, 4}
    BY <1>1, <1>2 DEF PipeWellTyped
  <2>5. QED
    BY <1>1, <1>2, <1>3, <1>7, <2>2, <2>3, <2>4 DEF PipeWellTyped
<1>9. FilesAccounted'
  <2>1. Artifacts \subseteq disk' \cup deleted'
    BY <1>1, <1>2, <1>5 DEF FilesAccounted
  <2>2. disk' \subseteq Artifacts \cup Leftovers \cup {Manifest, Note}
    BY <1>1, <1>2 DEF FilesAccounted
  <2>3. deleted' \subseteq Carriers \cup {Manifest}
    BY <1>1, <1>6
  <2>4. QED
    BY <1>3, <1>7, <2>1, <2>2, <2>3 DEF FilesAccounted
<1>10. ScansComplete'
  <2>1. check'.report \subseteq {Manifest} /\ check'.stages = Carriers' \ check'.skipped
    BY <1>1, <1>3, <1>5
  <2>2. phase' = "rewrite" => Manifest \notin disk' /\ Manifest \in deleted'
    BY <1>1
  <2>3. deleted' \subseteq Named'
    BY <1>1, <1>6
  <2>4. todo' = {}
    BY <1>1, <1>2
  <2>5. QED
    BY <1>3, <1>6, <1>7, <2>1, <2>2, <2>3, <2>4 DEF ScansComplete, Scanned
<1>11. ExitTrue'
  <2>1. exit' = 0 => exit = 0
    BY <1>1
  <2>2. Named # {} => exit' = 4
    BY <1>1, <1>2 DEF ExitTrue, Scanned
  <2>3. status' = status /\ run' = run
    BY <1>1 DEF expVars
  <2>4. QED
    BY <1>1, <1>2, <1>6, <2>1, <2>2, <2>3 DEF ExitTrue, Scanned
<1>12. \A f \in disk : Echoes(f)' => f \in Named \cup Leftovers \cup check.skipped
  <2>1. ASSUME NEW f \in disk, Echoes(f)'
        PROVE  f \in Named \cup Leftovers \cup check.skipped
    <3>1. CASE f = Manifest
      BY <1>1, <1>3, <1>4, <1>6, <2>1, <3>1
    <3>2. CASE f # Manifest
      <4>1. Quoted(f) /\ f \in Artifacts \cup Leftovers
        BY <1>2, <1>3, <2>1, <3>2, StageFiles DEF FilesAccounted
      <4>2. QED
        BY <1>6, <4>1 DEF Carriers
    <3>3. QED
      BY <3>1, <3>2
  <2>2. QED
    BY <2>1
<1>13. Left'
  <2>1. \A f \in disk' : Echoes(f)' => f \in lost' \cup Leftovers' \cup check'.skipped
    BY <1>1, <1>3, <1>12
  <2>2. ASSUME phase' = "returned", exit' = 0, NEW f \in disk', Echoes(f)'
        PROVE  f \in check'.skipped
    <3>1. exit = 0 /\ Named = {}
      BY <1>1, <1>7, <2>2
    <3>2. Leftovers = {}
      BY <1>1, <1>2, <3>1 DEF ExitTrue, Scanned, Leftovers
    <3>3. QED
      BY <1>1, <1>12, <2>2, <3>1, <3>2
  <2>3. phase' \in {"note", "returned"} => Manifest' \in disk'
    BY <1>1, <1>3, <1>5
  <2>4. phase' = "returned" => Named' = {}
    BY <1>6, <1>7
  <2>5. QED
    BY <2>1, <2>2, <2>3, <2>4 DEF Left
<1>14. QED
  BY <1>3, <1>8, <1>9, <1>10, <1>11, <1>13 DEF PipeInv

\* However the rewrite of a manifest in quarantine and the note about it end, the exit
\* code and the other files are as they were, and a manifest that still quotes the
\* credential is known as lost, or was passed over by the scan.
LEMMA AftermathKeeps ==
    ASSUME Inv, phase \in {"rewrite", "note"}, phase' \in {"note", "returned", "raised"},
           UNCHANGED expVars, UNCHANGED <<todo, status, context>>,
           UNCHANGED <<exit, deleted>>,
           NEW S \in SUBSET {Manifest}, check' = [check EXCEPT !.skipped = @ \cup S],
           disk \subseteq disk', disk' \subseteq disk \cup {Manifest, Note},
           lost \subseteq lost', lost' \subseteq lost \cup {Manifest},
           echoing' \in BOOLEAN, faults' \in 0..MaxFaults,
           phase' # "raised" =>
               /\ Manifest \in disk' /\ leak # NoLeak /\ echoing' =>
                      Manifest \in lost' \cup check'.skipped
               /\ Manifest \in disk' \/ leak.kind = "shaped" \/ Manifest \in lost',
           phase' = "returned" => Note \in disk'
    PROVE  PipeInv' /\ ExperimentFirst'
<1>1. /\ PipeWellTyped /\ StagesAccounted /\ FilesAccounted /\ ScansComplete /\ ExitTrue
      /\ Left /\ todo = {}
  BY DEF Inv, PipeInv, ScansComplete
<1>2. /\ StagesAccounted' /\ ExperimentFirst'
      /\ Artifacts' = Artifacts /\ Leftovers' = Leftovers /\ Carriers' = Carriers
      /\ Manifest' = Manifest /\ Note' = Note /\ Files' = Files
      /\ \A f : f # Manifest => (Echoes(f)' <=> Quoted(f))
      /\ Echoes(Manifest)' <=> leak # NoLeak /\ echoing'
  BY <1>1, BooksClosed
<1>3. /\ Manifest \in Files /\ Note \in Files /\ Note # Manifest /\ ~Quoted(Note)
      /\ \A f : f # Manifest => (Echoes(f) <=> Quoted(f))
      /\ Manifest \notin Carriers
  BY StageFiles DEF Carriers
<1>4. /\ check' \in [stages : SUBSET Files, report : SUBSET Files, skipped : SUBSET Files]
      /\ check'.stages = check.stages /\ check'.report = check.report
      /\ check'.skipped = check.skipped \cup S
  <2>1. check \in [stages : SUBSET Files, report : SUBSET Files, skipped : SUBSET Files]
    BY <1>1 DEF PipeWellTyped
  <2>2. check' = [stages |-> check.stages, report |-> check.report,
                  skipped |-> check.skipped \cup S]
    BY <2>1
  <2>3. QED
    BY <1>3, <2>1, <2>2
<1>5. PipeWellTyped'
  <2>1. disk' \subseteq Files /\ lost' \subseteq Files /\ deleted' \subseteq Files
    BY <1>1, <1>3 DEF PipeWellTyped
  <2>2. QED
    BY <1>1, <1>2, <1>4, <2>1 DEF PipeWellTyped
<1>6. FilesAccounted'
  BY <1>1, <1>2 DEF FilesAccounted
<1>7. Named' = Named /\ Named # {}
  BY <1>1, <1>4 DEF Named, ScansComplete
<1>8. ScansComplete'
  <2>1. check'.stages = Carriers \ check'.skipped
    BY <1>1, <1>3, <1>4 DEF ScansComplete, Scanned
  <2>2. check'.report \subseteq {Manifest} /\ deleted' \subseteq Named'
    BY <1>1, <1>4, <1>7 DEF ScansComplete, Scanned
  <2>3. QED
    BY <1>1, <1>2, <1>7, <2>1, <2>2 DEF ScansComplete, Scanned
<1>9. exit = 4
  BY <1>1, <1>7 DEF ExitTrue, Scanned
<1>10. ExitTrue'
  BY <1>9 DEF ExitTrue
<1>11. Left'
  <2>1. ASSUME phase' # "raised", NEW f \in disk', Echoes(f)'
        PROVE  f \in lost' \cup Leftovers' \cup check'.skipped
    <3>1. CASE f = Manifest
      BY <1>2, <2>1, <3>1
    <3>2. CASE f # Manifest
      <4>1. f \in disk /\ Echoes(f)
        BY <1>2, <1>3, <2>1, <3>2
      <4>2. f \in lost \cup Leftovers \cup check.skipped
        BY <1>1, <4>1 DEF Left
      <4>3. QED
        BY <1>2, <1>4, <4>2
    <3>3. QED
      BY <3>1, <3>2
  <2>2. phase' # "raised" => Manifest' \in disk' \/ leak'.kind = "shaped" \/ Manifest' \in lost'
    BY <1>2 DEF expVars
  <2>3. phase' = "returned" => Note' \in disk'
    BY <1>2
  <2>4. QED
    BY <1>9, <2>1, <2>2, <2>3 DEF Left
<1>12. QED
  BY <1>2, <1>5, <1>6, <1>8, <1>10, <1>11 DEF PipeInv

\* The new manifest is clean, or it is deleted unless its scan passes over it.
LEMMA RewriteManifestKeeps ==
    ASSUME Inv, RewriteManifest
    PROVE  PipeInv' /\ ExperimentFirst'
<1>1. PICK S \in SUBSET {f \in {Manifest} : leak.kind = "shaped"} :
         /\ phase = "rewrite" /\ phase' = "note"
         /\ Faulty(Cardinality(S))
         /\ disk' = disk \cup {f \in {Manifest} : leak.kind # "shaped" \/ f \in S}
         /\ check' = [check EXCEPT !.skipped = @ \cup S]
         /\ echoing' = (leak.kind = "shaped")
         /\ UNCHANGED expVars /\ UNCHANGED <<todo, status, context>>
         /\ UNCHANGED <<exit, deleted, lost>>
  BY DEF RewriteManifest, Rewritten
<1>2. Manifest \notin disk /\ PipeWellTyped /\ PlanTyped
  BY <1>1 DEF Inv, PipeInv, ScansComplete, ExpInv
<1>3. S \in SUBSET {Manifest} /\ Cardinality(S) \in Nat
  <2>1. S \subseteq {Manifest} /\ {Manifest} \subseteq Files
    BY StageFiles
  <2>2. QED
    BY <1>2, <2>1, FilesFinite
<1>4. faults' \in 0..MaxFaults
  BY <1>1, <1>2, <1>3, FaultyTyped
<1>5. check'.skipped = check.skipped \cup S
  BY <1>1, <1>2 DEF PipeWellTyped
<1>6. Manifest \in disk' /\ echoing' => Manifest \in check'.skipped
  BY <1>1, <1>2, <1>5
<1>7. Manifest \in disk' \/ leak.kind = "shaped"
  BY <1>1
<1>8. disk \subseteq disk' /\ disk' \subseteq disk \cup {Manifest, Note}
  BY <1>1
<1>9. echoing' \in BOOLEAN
  BY <1>1
<1>10. QED
  BY <1>1, <1>3, <1>4, <1>6, <1>7, <1>8, <1>9, AftermathKeeps

\* A rewrite that fails leaves its file known as lost.
LEMMA RewriteFailsKeeps ==
    ASSUME Inv, NEW partly \in BOOLEAN, RewriteFails(partly)
    PROVE  PipeInv' /\ ExperimentFirst'
<1>1. /\ phase = "rewrite" /\ phase' = "note"
      /\ Faulty(1)
      /\ disk' = disk \cup {f \in {Manifest} : partly}
      /\ echoing' = (leak.kind = "shaped")
      /\ lost' = lost \cup {Manifest}
      /\ UNCHANGED expVars /\ UNCHANGED <<todo, status, context>>
      /\ UNCHANGED <<check, exit, deleted>>
  BY DEF RewriteFails
<1>2. faults' \in 0..MaxFaults
  BY <1>1, FaultyTyped DEF Inv, PipeInv
<1>3. check' = [check EXCEPT !.skipped = @ \cup {}]
  BY <1>1 DEF Inv, PipeInv, PipeWellTyped
<1>4. /\ disk \subseteq disk' /\ disk' \subseteq disk \cup {Manifest, Note}
      /\ echoing' \in BOOLEAN /\ {} \in SUBSET {Manifest}
  BY <1>1
<1>5. QED
  BY <1>1, <1>2, <1>3, <1>4, AftermathKeeps

\* The note changes nothing but that it is there.
LEMMA WriteNoteKeeps ==
    ASSUME Inv, WriteNote
    PROVE  PipeInv' /\ ExperimentFirst'
<1>1. /\ phase = "note" /\ phase' = "returned"
      /\ disk' = disk \cup {Note}
      /\ UNCHANGED expVars /\ UNCHANGED <<todo, status, context>>
      /\ UNCHANGED <<check, exit, deleted, echoing, faults, lost>>
  BY DEF WriteNote
<1>2. PipeWellTyped /\ Left
  BY DEF Inv, PipeInv
<1>3. check' = [check EXCEPT !.skipped = @ \cup {}]
  BY <1>1, <1>2 DEF PipeWellTyped
<1>4. /\ Note # Manifest /\ Manifest \notin Leftovers
      /\ Echoes(Manifest) <=> leak # NoLeak /\ echoing
  BY StageFiles
<1>5. Manifest \in disk' /\ leak # NoLeak /\ echoing' =>
          Manifest \in lost' \cup check'.skipped
  BY <1>1, <1>2, <1>4 DEF Left
<1>6. Manifest \in disk' \/ leak.kind = "shaped" \/ Manifest \in lost'
  BY <1>1, <1>2 DEF Left
<1>7. /\ disk \subseteq disk' /\ disk' \subseteq disk \cup {Manifest, Note} /\ Note \in disk'
      /\ echoing' \in BOOLEAN /\ faults' \in 0..MaxFaults /\ {} \in SUBSET {Manifest}
  BY <1>1, <1>2 DEF PipeWellTyped
<1>8. QED
  BY <1>1, <1>3, <1>5, <1>6, <1>7, AftermathKeeps

\* When deleting the new manifest or writing the note raises there is no result.
LEMMA QuarantineRaisesKeeps ==
    ASSUME Inv, QuarantineRaises
    PROVE  PipeInv' /\ ExperimentFirst'
<1>1. /\ phase \in {"rewrite", "note"} /\ phase' = "raised"
      /\ Faulty(1)
      /\ disk' = disk \cup {f \in {Manifest} : phase = "rewrite"}
      /\ UNCHANGED expVars /\ UNCHANGED <<todo, status, context>>
      /\ UNCHANGED <<check, exit, deleted, echoing, lost>>
  BY DEF QuarantineRaises
<1>2. PipeWellTyped
  BY DEF Inv, PipeInv
<1>3. check' = [check EXCEPT !.skipped = @ \cup {}]
  BY <1>1, <1>2 DEF PipeWellTyped
<1>4. faults' \in 0..MaxFaults
  BY <1>1, <1>2, FaultyTyped
<1>5. /\ disk \subseteq disk' /\ disk' \subseteq disk \cup {Manifest, Note}
      /\ echoing' \in BOOLEAN /\ {} \in SUBSET {Manifest}
  BY <1>1, <1>2 DEF PipeWellTyped
<1>6. QED
  BY <1>1, <1>3, <1>4, <1>5, AftermathKeeps

\* Every step of the pipeline keeps its invariant.
LEMMA PipeKeeps ==
    ASSUME Inv, Modes > 0, PipeNext
    PROVE  ExpInv' /\ PipeInv' /\ ExperimentFirst'
           /\ plan' = plan /\ dry' = dry
<1>0. UNCHANGED expVars => ExpInv' /\ plan' = plan /\ dry' = dry
  BY ExpUnchanged DEF Inv, expVars
<1>1. CASE RunExperiment
  <2>1. "experiment" \in todo /\ ExpNext /\ UNCHANGED pipeVars
    BY <1>1 DEF RunExperiment, AtStage
  <2>2. QED
    BY <2>1, ExpKeeps, ExpSteps, ExperimentAtWork DEF Inv
<1>2. CASE ExperimentFails
  BY <1>0, <1>2, ExperimentFailsKeeps DEF ExperimentFails
<1>3. ASSUME NEW s \in Stages, SkipStage(s)
      PROVE  ExpInv' /\ PipeInv' /\ ExperimentFirst' /\ plan' = plan /\ dry' = dry
  BY <1>0, <1>3, SkipStageKeeps DEF SkipStage
<1>4. ASSUME NEW s \in Stages, StageSucceeds(s)
      PROVE  ExpInv' /\ PipeInv' /\ ExperimentFirst' /\ plan' = plan /\ dry' = dry
  BY <1>0, <1>4, StageSucceedsKeeps DEF StageSucceeds
<1>5. ASSUME NEW s \in Stages, NEW n \in 0..(Modes * Trials), NEW partly \in BOOLEAN,
             StageFails(s, n, partly)
      PROVE  ExpInv' /\ PipeInv' /\ ExperimentFirst' /\ plan' = plan /\ dry' = dry
  <2>1. n \in Nat
    OBVIOUS
  <2>2. QED
    BY <1>0, <1>5, <2>1, StageFailsKeeps DEF StageFails
<1>6. CASE WriteManifest
  BY <1>0, <1>6, WriteManifestKeeps DEF WriteManifest
<1>7. CASE ManifestFails
  BY <1>0, <1>7, ManifestFailsKeeps DEF ManifestFails
<1>8. CASE ScanReport
  BY <1>0, <1>8, ScanReportKeeps DEF ScanReport
<1>9. ASSUME NEW stuck \in SUBSET Named, Quarantine(stuck)
      PROVE  ExpInv' /\ PipeInv' /\ ExperimentFirst' /\ plan' = plan /\ dry' = dry
  BY <1>0, <1>9, QuarantineKeeps DEF Quarantine
<1>10. CASE RewriteManifest
  BY <1>0, <1>10, RewriteManifestKeeps DEF RewriteManifest
<1>11. ASSUME NEW partly \in BOOLEAN, RewriteFails(partly)
       PROVE  ExpInv' /\ PipeInv' /\ ExperimentFirst' /\ plan' = plan /\ dry' = dry
  BY <1>0, <1>11, RewriteFailsKeeps DEF RewriteFails
<1>12. CASE WriteNote
  BY <1>0, <1>12, WriteNoteKeeps DEF WriteNote
<1>13. CASE QuarantineRaises
  BY <1>0, <1>13, QuarantineRaisesKeeps DEF QuarantineRaises
<1>14. QED
  BY <1>1, <1>2, <1>3, <1>4, <1>5, <1>6, <1>7, <1>8, <1>9, <1>10, <1>11, <1>12, <1>13
     DEF PipeNext

-------------------------------------------------------------------------------
(* The request.                                                            *)

\* Nothing that happens changes whether a request is refused, or its plan.
LEMMA FrontKept ==
    ASSUME UNCHANGED <<request, policy>>
    PROVE  /\ Refused(request)' = Refused(request)
           /\ PlanOf(request)' = PlanOf(request)
           /\ Piped' = Piped
<1>1. BrowserRefuses(request)' = BrowserRefuses(request)
  BY DEF BrowserRefuses, Obeyable, PolicyRefuses, PlanInvalid
<1>2. Refused(request)' = Refused(request)
  BY <1>1 DEF Refused
<1>3. PlanOf(request)' = PlanOf(request)
  BY DEF PlanOf, Tightened
<1>4. QED
  BY <1>2, <1>3 DEF Piped

\* A request that runs has a plan with modes.
LEMMA PlanHasModes ==
    ASSUME FrontInv, ~Refused(request)
    PROVE  Modes > 0
BY PlanOfTyped DEF FrontInv

\* The stages that are selected are stages, and outside the pipeline all of them.
LEMMA StagesSelected ==
    ASSUME NEW r \in Asked
    PROVE  /\ StagesOf(r) \subseteq Stages
           /\ r.client \notin {"browser", "pipeline", "caller"} => StagesOf(r) = Stages
<1>1. \A s \in Stages : Needs[s] \subseteq Stages
  BY StagesAre DEF Needs
<1>2. \A S \in SUBSET Stages : Expanded(S) \subseteq Stages
  BY <1>1 DEF Expanded
<1>3. StagesOf(r) \subseteq Stages
  BY <1>2 DEF StagesOf
<1>4. ASSUME r.client \notin {"browser", "pipeline", "caller"}
      PROVE  StagesOf(r) = Stages
  <2>1. r.client \in {"experiment", "single"}
    BY <1>4, RequestsSayable
  <2>2. r.stages = {}
    BY <2>1, RequestsSayable DEF ExperimentSays, SingleSays
  <2>3. QED
    BY <2>2 DEF StagesOf
<1>5. QED
  BY <1>3, <1>4

\* The invariant holds when a request is made.
LEMMA InitHolds ==
    ASSUME Init
    PROVE  Inv
<1>1. /\ request \in Asked /\ stand = "asked" /\ view = NoView
      /\ ExpInit(IF Refused(request) THEN NoPlan ELSE PlanOf(request), ~request.generate)
      /\ PipeInit(StagesOf(request))
  BY DEF Init
<1>2. policy \in Policies
  BY PoliciesTyped DEF Init
<1>3. plan = (IF Refused(request) THEN NoPlan ELSE PlanOf(request))
      /\ dry = ~request.generate /\ step = "idle" /\ run = None
  BY <1>1 DEF ExpInit
<1>4. PlanTyped
  <2>1. CASE Refused(request)
    <3>1. plan.modes = <<>> /\ plan.trials = 1 /\ plan.limits = NoLimits /\ plan.available = 0
      BY <1>3, <2>1 DEF NoPlan
    <3>2. NoLimits \in RunLimits
      BY DEF NoLimits, RunLimits, Limit
    <3>3. QED
      BY <3>1, <3>2 DEF PlanTyped, Modes, Trials, limits
  <2>2. CASE ~Refused(request)
    BY <1>1, <1>2, <1>3, <2>2, PlanOfTyped
  <2>3. QED
    BY <2>1, <2>2
<1>5. request.generate \in BOOLEAN
  BY <1>1, RequestsTyped
<1>6. ExpInv
  BY <1>1, <1>4, <1>5, ExpInitHolds
<1>7. StagesOf(request) \subseteq Stages /\ (~Piped => StagesOf(request) = Stages)
  BY <1>1, StagesSelected DEF Piped
<1>8. /\ todo = StagesOf(request) /\ DOMAIN status = StagesOf(request)
      /\ \A s \in DOMAIN status : status[s] = "pending"
      /\ disk = {} /\ context = [runs |-> 0, errors |-> FALSE, scanned |-> FALSE]
      /\ check = [stages |-> {}, report |-> {}, skipped |-> {}]
      /\ phase = "stages" /\ exit = 0
      /\ deleted = {} /\ echoing = FALSE /\ faults = 0 /\ lost = {}
  BY <1>1 DEF PipeInit
<1>9. FrontInv
  <2>1. view \in Receipts
    BY <1>1 DEF NoView, Receipts
  <2>2. ~Piped => "experiment" \in todo
    BY <1>7, <1>8, StagesAre
  <2>3. QED
    BY <1>1, <1>2, <1>3, <2>1, <2>2 DEF FrontInv
<1>10. Artifacts = {} /\ Leftovers = {} /\ Carriers = {} /\ Named = {}
  BY <1>8 DEF Artifacts, Leftovers, Carriers, Named
<1>11. PipeWellTyped
  <2>1. Range(status) \subseteq {"pending", "ok", "skipped", "failed"}
    BY <1>8 DEF Range
  <2>2. context \in [runs : Nat, errors : BOOLEAN, scanned : BOOLEAN]
    BY <1>8
  <2>3. check \in [stages : SUBSET Files, report : SUBSET Files, skipped : SUBSET Files]
    BY <1>8
  <2>4. echoing \in BOOLEAN
    BY <1>8
  <2>5. faults \in 0..MaxFaults
    <3>1. faults = 0
      BY <1>8
    <3>2. QED
      BY <3>1, FaultsTyped
  <2>6. QED
    BY <1>7, <1>8, <2>1, <2>2, <2>3, <2>4, <2>5 DEF PipeWellTyped
<1>12. StagesAccounted /\ FilesAccounted /\ ExitTrue /\ Left
  BY <1>8, <1>10 DEF StagesAccounted, FilesAccounted, ExitTrue, Left, Scanned
<1>13. ScansComplete
  BY <1>8, <1>10 DEF ScansComplete, Scanned
<1>14. ExperimentFirst
  BY <1>3, <1>8 DEF ExperimentFirst
<1>15. QED
  BY <1>6, <1>9, <1>11, <1>12, <1>13, <1>14 DEF Inv, PipeInv

\* A step of the author's that leaves the experiment and the pipeline alone.
LEMMA FrontStep ==
    ASSUME Inv, UNCHANGED <<expVars, pipeVars, request, policy>>,
           stand' \in {"asked", "previewed", "refused", "running", "shown", "crashed"},
           stand' \in {"previewed", "running"} => ~Refused(request),
           view' \in Receipts
    PROVE  Inv'
<1>1. ExpInv'
  BY ExpUnchanged DEF Inv
<1>2. /\ UNCHANGED <<todo, status, disk, context, check, phase, exit, deleted, echoing,
                     faults, lost>>
      /\ UNCHANGED <<plan, dry, step, leak, run>>
  BY DEF pipeVars, expVars
<1>3. FrontInv'
  BY <1>2, FrontKept DEF Inv, FrontInv
<1>4. ExperimentFirst'
  BY <1>2 DEF Inv, ExperimentFirst
<1>5. \A u \in DOMAIN status : Outputs(u)' = Outputs(u)
  BY <1>2, OutputsKept DEF Inv, PipeInv, PipeWellTyped
<1>6. Artifacts' = Artifacts
  <2>1. Artifacts' = UNION {Range(Outputs(s)') : s \in {u \in DOMAIN status : status[u] = "ok"}}
    BY <1>2 DEF Artifacts
  <2>2. QED
    BY <1>5, <2>1 DEF Artifacts
<1>7. Leftovers' = Leftovers
  <2>1. Leftovers' = UNION {Range(Outputs(s)') : s \in {u \in DOMAIN status : status[u] = "failed"}}
    BY <1>2 DEF Leftovers
  <2>2. QED
    BY <1>5, <2>1 DEF Leftovers
<1>8. Carriers' = Carriers /\ Named' = Named /\ Manifest' = Manifest /\ Files' = Files
  BY <1>2, <1>6 DEF Carriers, Quoted, NoLeak, Named, Manifest, File, Files, RawFile, Modes, Trials
<1>9. \A f : Echoes(f)' <=> Echoes(f)
  BY <1>2, <1>8 DEF Echoes, NoLeak
<1>10. PipeWellTyped' /\ StagesAccounted'
  BY <1>2, <1>8 DEF Inv, PipeInv, PipeWellTyped, StagesAccounted
<1>11. FilesAccounted'
  BY <1>2, <1>6, <1>7, <1>8 DEF Inv, PipeInv, FilesAccounted
<1>12. ScansComplete'
  BY <1>2, <1>8, <1>9 DEF Inv, PipeInv, ScansComplete, Scanned
<1>13. ExitTrue'
  BY <1>2, <1>8 DEF Inv, PipeInv, ExitTrue, Scanned
<1>14. Left'
  BY <1>2, <1>7, <1>8, <1>9 DEF Inv, PipeInv, Left
<1>15. QED
  BY <1>1, <1>3, <1>4, <1>10, <1>11, <1>12, <1>13, <1>14 DEF Inv, PipeInv

\* A request that is refused changes nothing but what its author is told.
LEMMA RefuseKeeps ==
    ASSUME Inv, Refuse
    PROVE  Inv'
<1>1. /\ stand' = "refused" /\ view' = [NoView EXCEPT !.shown = TRUE]
      /\ UNCHANGED <<expVars, pipeVars, request, policy>>
  BY DEF Refuse
<1>2. view' \in Receipts
  BY <1>1 DEF NoView, Receipts
<1>3. QED
  BY <1>1, <1>2, FrontStep

\* A preview changes nothing, and neither does the beginning of a run.
LEMMA PreviewKeeps ==
    ASSUME Inv, Preview \/ Begin
    PROVE  Inv'
<1>1. /\ stand' \in {"previewed", "running"} /\ ~Refused(request) /\ view' = view
      /\ UNCHANGED <<expVars, pipeVars, request, policy>>
  BY DEF Preview, Begin
<1>2. view' \in Receipts
  BY <1>1 DEF Inv, FrontInv
<1>3. QED
  BY <1>1, <1>2, FrontStep

\* A crash changes nothing either.
LEMMA CrashKeeps ==
    ASSUME Inv, Crash
    PROVE  Inv'
<1>1. /\ stand' = "crashed" /\ view' = view
      /\ UNCHANGED <<expVars, pipeVars, request, policy>>
  BY DEF Crash
<1>2. view' \in Receipts
  BY <1>1 DEF Inv, FrontInv
<1>3. QED
  BY <1>1, <1>2, FrontStep

\* A receipt is a receipt.
LEMMA ReceiptTyped ==
    ASSUME Inv, NEW code \in {0, 2, 3, 4}, NEW notes \in SUBSET Notes
    PROVE  Receipt(code, notes) \in Receipts
<1>1. PipelineResult.dry \in BOOLEAN
  <2>1. (run = None \/ dry) \in BOOLEAN
    OBVIOUS
  <2>2. QED
    BY <2>1 DEF PipelineResult
<1>2. PipelineResult.requests \in Nat
  <2>1. run # None => run.requests \in Nat
    BY DEF Inv, ExpInv, ExpTypeOK, Summaries
  <2>2. QED
    BY <2>1 DEF PipelineResult
<1>3. QED
  BY <1>1, <1>2 DEF Receipt, Receipts

\* The result is shown.
LEMMA ShowKeeps ==
    ASSUME Inv, Show
    PROVE  Inv'
<1>1. /\ stand' = "shown"
      /\ UNCHANGED <<expVars, pipeVars, request, policy>>
      /\ view' = Shown
  BY DEF Show
<1>2. exit \in {0, 2, 3, 4} /\ CommandExit \in {0, 2, 3, 4}
  BY DEF Inv, PipeInv, PipeWellTyped, CommandExit
<1>3. /\ StatusNotes \in SUBSET Notes /\ PipelineNotes \in SUBSET Notes
      /\ ExperimentNotes \in SUBSET Notes /\ {} \in SUBSET Notes
  BY DEF StatusNotes, PipelineNotes, ExperimentNotes
<1>4. \E code \in {0, 2, 3, 4}, notes \in SUBSET Notes : view' = Receipt(code, notes)
  <2>1. CASE request.client = "browser"
    BY <1>1, <1>2, <1>3, <2>1 DEF Shown
  <2>2. CASE request.client = "pipeline"
    BY <1>1, <1>2, <1>3, <2>2 DEF Shown
  <2>3. CASE request.client = "caller"
    BY <1>1, <1>2, <1>3, <2>3 DEF Shown
  <2>4. CASE request.client = "experiment"
    BY <1>1, <1>2, <1>3, <2>4 DEF Shown
  <2>5. CASE request.client \notin {"browser", "pipeline", "caller", "experiment"}
    BY <1>1, <1>2, <1>3, <2>5 DEF Shown
  <2>6. QED
    BY <2>1, <2>2, <2>3, <2>4, <2>5
<1>5. view' \in Receipts
  BY <1>4, ReceiptTyped
<1>6. QED
  BY <1>1, <1>5, FrontStep

\* The pipeline at work.
LEMMA RunPipelineKeeps ==
    ASSUME Inv, RunPipeline
    PROVE  Inv'
<1>1. stand = "running" /\ Piped /\ PipeNext /\ UNCHANGED <<request, policy, stand, view>>
  BY DEF RunPipeline, frontVars
<1>2. Modes > 0
  BY <1>1, PlanHasModes DEF Inv, FrontInv
<1>3. ExpInv' /\ PipeInv' /\ ExperimentFirst' /\ plan' = plan /\ dry' = dry
  BY <1>1, <1>2, PipeKeeps
<1>4. FrontInv'
  BY <1>1, <1>3, FrontKept DEF Inv, FrontInv
<1>5. QED
  BY <1>3, <1>4 DEF Inv

\* The experiment outside the pipeline.
LEMMA ExperimentAloneKeeps ==
    ASSUME Inv, stand = "running", ~Piped, UNCHANGED <<pipeVars, frontVars>>,
           ExpInv', plan' = plan, dry' = dry
    PROVE  Inv'
<1>1. "experiment" \in todo /\ UNCHANGED pipeVars /\ UNCHANGED <<request, policy, stand, view>>
      /\ todo' = todo
  BY DEF Inv, FrontInv, frontVars, pipeVars
<1>2. PipeInv' /\ ExperimentFirst'
  BY <1>1, ExperimentAtWork
<1>3. FrontInv'
  BY <1>1, FrontKept DEF Inv, FrontInv
<1>4. QED
  BY <1>2, <1>3 DEF Inv

\* The experiment command.
LEMMA RunExperimentAloneKeeps ==
    ASSUME Inv, RunExperimentAlone
    PROVE  Inv'
<1>1. /\ stand = "running" /\ ~Piped /\ ExpNext
      /\ UNCHANGED <<pipeVars, frontVars>>
  BY DEF RunExperimentAlone, Piped
<1>2. Modes > 0
  BY <1>1, PlanHasModes DEF Inv, FrontInv
<1>3. ExpInv' /\ plan' = plan /\ dry' = dry
  BY <1>1, <1>2, ExpKeeps, ExpSteps DEF Inv
<1>4. QED
  BY <1>1, <1>3, ExperimentAloneKeeps

\* The command of a single mode, which a ceiling ends.
LEMMA RunSingleModeKeeps ==
    ASSUME Inv, RunSingleMode
    PROVE  Inv'
<1>1. stand = "running" /\ ~Piped /\ UNCHANGED <<pipeVars, frontVars>>
  BY DEF RunSingleMode, Piped
<1>2. Modes > 0
  BY <1>1, PlanHasModes DEF Inv, FrontInv
<1>3. CASE Loops
  <2>1. ExpInv' /\ plan' = plan /\ dry' = dry
    BY <1>2, <1>3, ExpKeeps, ExpSteps DEF Inv, ExpNext
  <2>2. QED
    BY <1>1, <2>1, ExperimentAloneKeeps
<1>4. CASE Proceed("gate", "raised") /\ Unwind /\ UNCHANGED <<plan, dry, calls, leak, run>>
  <2>1. ExpInv' /\ plan' = plan /\ dry' = dry
    BY <1>4, RaiseKeeps DEF Inv, Proceed
  <2>2. QED
    BY <1>1, <2>1, ExperimentAloneKeeps
<1>5. QED
  BY <1>3, <1>4 DEF RunSingleMode

\* Every step of a request keeps the invariant.
LEMMA Step ==
    ASSUME Inv, [Next]_vars
    PROVE  Inv'
<1>1. CASE UNCHANGED vars
  <2>1. UNCHANGED <<expVars, pipeVars, request, policy>> /\ stand' = stand /\ view' = view
    BY <1>1 DEF vars
  <2>2. QED
    BY <2>1, FrontStep DEF Inv, FrontInv
<1>2. CASE Next
  BY <1>1, <1>2, RefuseKeeps, PreviewKeeps, RunPipelineKeeps, RunExperimentAloneKeeps,
     RunSingleModeKeeps, CrashKeeps, ShowKeeps DEF Next, Leave
<1>3. QED
  BY <1>1, <1>2

\* The invariant holds in every state of every request.
LEMMA Invariance == Spec => []Inv
<1>1. Init => Inv
  BY InitHolds
<1>2. Inv /\ [Next]_vars => Inv'
  BY Step
<1>3. QED
  BY <1>1, <1>2, PTL DEF Spec

-------------------------------------------------------------------------------
(* What follows.                                                           *)

\* The preview announces the whole run, and only a request that was not refused pays.
LEMMA WorkIsPlanned ==
    ASSUME Inv
    PROVE  /\ Planned = Whole
           /\ calls > 0 => ~Refused(request) /\ ~dry
<1>1. Modes \in Nat /\ Trials \in Nat \ {0} /\ Selected \in Nat /\ calls \in Nat
  BY PlanFacts DEF Inv, ExpInv, ExpTypeOK
<1>2. Planned = Whole
  BY DEF Planned, Whole
<1>3. Refused(request) => Modes = 0
  BY DEF Inv, FrontInv, NoPlan, Modes
<1>4. Refused(request) => Whole = 0
  BY <1>1, <1>3 DEF Whole
<1>5. calls > 0 => ~Refused(request) /\ ~dry
  BY <1>1, <1>4 DEF Inv, ExpInv, Accounted
<1>6. QED
  BY <1>2, <1>5

\* A request that pays has asked for answers and brought a key; the tab's has leave of
\* the deployment and keeps its ceiling, the preset's and the warning.
LEMMA PaidForIsAsked ==
    ASSUME Inv, calls > 0
    PROVE  /\ request.generate /\ request.key
           /\ calls <= Announced.requests
           /\ request.client = "browser" =>
                 /\ policy.generation
                 /\ calls <= policy.requests
                 /\ calls <= Presets[request.preset].limits.requests
                 /\ "billed" \in Announced.warnings
<1>1. request \in Asked /\ policy \in Policies /\ ~Refused(request) /\ ~dry
      /\ plan = PlanOf(request) /\ dry = ~request.generate
  BY WorkIsPlanned DEF Inv, FrontInv
<1>2. request.generate /\ request.key
  BY <1>1, NotRefused
<1>3. calls <= Announced.requests
  <2>1. calls <= Planned
    BY WorkIsPlanned DEF Inv, ExpInv, Accounted
  <2>2. QED
    BY <2>1 DEF Announced
<1>4. ASSUME request.client = "browser"
      PROVE  /\ policy.generation
             /\ calls <= policy.requests
             /\ calls <= Presets[request.preset].limits.requests
             /\ "billed" \in Announced.warnings
  <2>1. policy.generation
    BY <1>1, <1>2, <1>4, NotRefused
  <2>2. /\ limits.requests \in Nat /\ limits.requests <= policy.requests
        /\ limits.requests <= Presets[request.preset].limits.requests
    BY <1>1, <1>4, PlanOfTyped
  <2>3. calls <= limits.requests /\ calls \in Nat
    BY <2>2, SizesTyped DEF Inv, ExpInv, Bounded, ExpTypeOK
  <2>4. policy.requests \in Int
    BY <1>1 DEF Policies
  <2>5. Presets[request.preset].limits.requests \in Int
    <3>1. request.preset \in DOMAIN Presets
      BY <1>1, <1>4, NotRefused
    <3>2. Presets[request.preset].limits \in RunLimits
          /\ Presets[request.preset].limits.requests # None
      BY <3>1, PresetsTyped
    <3>3. QED
      BY <3>2 DEF RunLimits, Limit
  <2>6. "billed" \in Warnings(request)
    BY <1>2 DEF Warnings
  <2>7. QED
    BY <2>1, <2>2, <2>3, <2>4, <2>5, <2>6 DEF Announced
<1>5. QED
  BY <1>2, <1>3, <1>4

\* What the tab runs is no more than the deployment allows, and a form left as it is no
\* more than its preset is said to be.
LEMMA TabKeepsPreset ==
    ASSUME Inv, request.client = "browser", ~Refused(request)
    PROVE  /\ Selected <= policy.tasks
           /\ request.modes = <<>> /\ Given(request) = {} =>
                 Planned <= PresetViews[request.preset].planned
<1> DEFINE preset == Presets[request.preset]
<1>1. /\ request \in Asked /\ policy \in Policies /\ plan = PlanOf(request)
      /\ Modes \in Nat /\ Trials \in Nat \ {0} /\ Selected \in Nat
      /\ limits.tasks # None => Selected <= limits.tasks
  BY PlanFacts DEF Inv, FrontInv, ExpInv
<1>2. /\ limits.tasks \in Nat /\ limits.tasks <= policy.tasks
      /\ request.modes = <<>> /\ Given(request) = {} =>
            /\ limits.tasks <= preset.limits.tasks
            /\ preset.limits.tasks \in Nat
            /\ Modes = Len(preset.modes) /\ Trials = preset.trials
  BY <1>1, PlanOfTyped
<1>3. Selected <= limits.tasks
  BY <1>1, <1>2, SizesTyped
<1>4. policy.tasks \in Int
  BY <1>1 DEF Policies
<1>5. ASSUME request.modes = <<>>, Given(request) = {}
      PROVE  Planned <= PresetViews[request.preset].planned
  <2>1. request.preset \in DOMAIN Presets
    BY <1>1, NotRefused
  <2>2. preset.limits.tasks # None
    BY <2>1, PresetsTyped
  <2>3. PresetViews[request.preset].planned
            = preset.limits.tasks * Len(preset.modes) * preset.trials
    BY <2>1, <2>2 DEF PresetViews
  <2>4. PresetViews[request.preset].planned = preset.limits.tasks * Modes * Trials
    BY <1>2, <1>5, <2>3
  <2>5. \A a, b, m, t \in Nat : a <= b => a * m * t <= b * m * t
    <3>1. \A a, b, m \in Nat : a <= b => a * m <= b * m /\ a * m \in Nat /\ b * m \in Nat
      OBVIOUS
    <3>2. QED
      BY <3>1
  <2>6. Selected <= preset.limits.tasks /\ preset.limits.tasks \in Nat
    BY <1>1, <1>2, <1>3, <1>5
  <2> HIDE DEF preset
  <2>7. QED
    BY <1>1, <2>4, <2>5, <2>6 DEF Planned
<1>6. QED
  BY <1>1, <1>2, <1>3, <1>4, <1>5

\* Nobody pays for what was not announced.
LEMMA SpendFollows ==
    ASSUME Inv
    PROVE  SpendAuthorised
<1>1. CeilingsHold
  BY CeilingsFollow DEF Inv
<1>2. run # None => \/ run.requests + run.skips = Planned
                    \/ run.aborted /\ run.requests + run.skips < Planned
                    \/ dry /\ run.requests + run.skips = 0
  BY WorkIsPlanned DEF Inv, ExpInv, RunTrue
<1>3. QED
  BY <1>1, <1>2, PaidForIsAsked, TabKeepsPreset DEF SpendAuthorised

\* The exit code 0 is worth what it says.
LEMMA ExitFollows ==
    ASSUME Inv
    PROVE  ExitZeroIsSound
<1>1. PassedIsWhole
  BY WholenessFollows DEF Inv
<1> SUFFICES ASSUME phase = "returned", exit = 0
             PROVE  /\ \A s \in DOMAIN status :
                          \/ status[s] = "ok" /\ Range(Outputs(s)) \subseteq disk
                          \/ /\ status[s] = "skipped"
                             /\ s = "plots" \/ Expanded(DOMAIN status) # DOMAIN status
                    /\ run # None => run.violations = {} /\ ~run.aborted
                    /\ "experiment" \in DOMAIN status =>
                          Cardinality({r \in run.results : r.complete}) = Modes * Trials
                    /\ \A f \in disk : Echoes(f) => f \in check.skipped
  BY <1>1 DEF ExitZeroIsSound
<1>2. /\ \A s \in DOMAIN status : status[s] # "failed"
      /\ run # None => run.violations = {} /\ ~run.aborted
      /\ Named = {}
      /\ \A f \in disk : Echoes(f) => f \in check.skipped
  BY DEF Inv, PipeInv, ExitTrue, Left, Scanned
<1>3. todo = {} /\ deleted = {} /\ Artifacts \subseteq disk
  BY <1>2 DEF Inv, PipeInv, ScansComplete, FilesAccounted, Scanned
<1>4. \A s \in DOMAIN status : status[s] \in {"ok", "skipped"}
  BY <1>2, <1>3 DEF Inv, PipeInv, StagesAccounted, PipeWellTyped, Range
<1>5. run # None => Cardinality(run.results) # 0
  <2>1. SUFFICES ASSUME run # None PROVE Cardinality(run.results) # 0
    OBVIOUS
  <2>2. Modes \in Nat /\ Trials \in Nat \ {0} /\ Modes > 0
    <3>1. ~Refused(request)
      BY <2>1 DEF Inv, FrontInv, ExpInv, RunTrue
    <3>2. QED
      BY <3>1, PlanHasModes, PlanFacts DEF Inv, ExpInv
  <2>3. Cardinality(run.results) = Modes * Trials
    BY <1>2, <2>1 DEF Inv, ExpInv, RunTrue, WholeRun
  <2>4. Modes * Trials > 0
    BY <2>2
  <2>5. QED
    BY <2>3, <2>4
<1>6. ASSUME NEW s \in DOMAIN status
      PROVE  \/ status[s] = "ok" /\ Range(Outputs(s)) \subseteq disk
             \/ /\ status[s] = "skipped"
                /\ s = "plots" \/ Expanded(DOMAIN status) # DOMAIN status
  <2>1. CASE status[s] = "ok"
    BY <1>3, <2>1 DEF Artifacts
  <2>2. CASE status[s] = "skipped"
    BY <1>2, <1>5, <2>2 DEF Inv, PipeInv, StagesAccounted
  <2>3. QED
    BY <1>4, <2>1, <2>2
<1>7. ASSUME "experiment" \in DOMAIN status
      PROVE  Cardinality({r \in run.results : r.complete}) = Modes * Trials
  <2>1. status["experiment"] = "ok"
    BY <1>2, <1>3, <1>7 DEF Inv, ExperimentFirst
  <2>2. run # None
    BY <1>3, <1>7, <2>1 DEF Inv, ExperimentFirst, ExpInv, RunTrue
  <2>3. WholeRun
    BY <1>2, <2>2 DEF Inv, ExpInv, RunTrue
  <2>4. {r \in run.results : r.complete} = run.results
    BY <2>3 DEF WholeRun
  <2>5. QED
    BY <2>3, <2>4 DEF WholeRun
<1>8. QED
  BY <1>2, <1>6, <1>7

\* What the quarantine leaves.
LEMMA QuarantineFollows ==
    ASSUME Inv
    PROVE  QuarantineComplete
<1> SUFFICES ASSUME phase = "returned"
             PROVE  /\ \A f \in disk : Echoes(f) =>
                          \/ f \in lost \cup check.skipped
                          \/ \E s \in DOMAIN status :
                                 status[s] = "failed" /\ f \in Range(Outputs(s))
                    /\ Named # {} => exit = 4 /\ Note \in disk
                    /\ \A f \in Artifacts : f \in disk \/ Echoes(f)
                    /\ Manifest \in disk \/ leak.kind = "shaped" \/ Manifest \in lost
  BY DEF QuarantineComplete
<1>1. \A f \in disk : Echoes(f) => f \in lost \cup Leftovers \cup check.skipped
  BY DEF Inv, PipeInv, Left
<1>2. \A f \in disk : Echoes(f) =>
          \/ f \in lost \cup check.skipped
          \/ \E s \in DOMAIN status : status[s] = "failed" /\ f \in Range(Outputs(s))
  BY <1>1 DEF Leftovers
<1>3. (Named # {} => exit = 4 /\ Note \in disk)
      /\ (Manifest \in disk \/ leak.kind = "shaped" \/ Manifest \in lost)
  BY DEF Inv, PipeInv, Left, ExitTrue, Scanned
<1>4. \A f \in Artifacts : f \in disk \/ Echoes(f)
  BY StageFiles DEF Inv, PipeInv, FilesAccounted, Carriers
<1>5. QED
  BY <1>2, <1>3, <1>4

-------------------------------------------------------------------------------
(* What the artifact and the author are told.                              *)

\* The records of one kind, counted over the modes and trials.
Cells      == ModeIds \X TrialIds
Of(x)      == collected[x[1]][x[2]]
Marked(x, kind) == {i \in DOMAIN Of(x) : Of(x)[i].kind = kind}
Count(kind) == [x \in Cells |-> Cardinality(Marked(x, kind))]
Tally(kind) == SumFunctionOnSet(Count(kind), Cells)

\* The records and the budget tell the same story: every failure and skip of the budget
\* has its record, every other request is an answer, and a dry run only measures.  A
\* run was stopped because a ceiling was reached, and what is called graded was paid for.
Books ==
    /\ Tally("failed") = budget.failures /\ Tally("skipped") = budget.skips
    /\ Tally("answered") + budget.failures = budget.requests
    /\ \A x \in Cells : \A i \in DOMAIN Of(x) : Of(x)[i].kind = "measured" <=> dry
    /\ step = "gate" \/ aborted => prompt > 0
    /\ step = "finish" /\ aborted => ~MayRequest
    /\ run # None /\ run.graded => calls > 0

\* There are finitely many modes and trials, and each has a finite count of each kind.
LEMMA CellsCounted ==
    ASSUME PlanTyped, collected \in [ModeIds -> [TrialIds -> Seq(Record)]]
    PROVE  /\ IsFiniteSet(Cells)
           /\ \A x \in Cells :
                  /\ x[1] \in ModeIds /\ x[2] \in TrialIds /\ x = <<x[1], x[2]>>
                  /\ Of(x) \in Seq(Record)
                  /\ \A kind : /\ IsFiniteSet(Marked(x, kind))
                               /\ Cardinality(Marked(x, kind)) \in Nat
                               /\ Count(kind)[x] = Cardinality(Marked(x, kind))
           /\ \A kind : Tally(kind) \in Nat
<1>1. IsFiniteSet(Cells)
  BY PairsCounted DEF Cells
<1>2. ASSUME NEW x \in Cells
      PROVE  x[1] \in ModeIds /\ x[2] \in TrialIds /\ x = <<x[1], x[2]>>
             /\ Of(x) \in Seq(Record)
  <2>1. x[1] \in ModeIds /\ x[2] \in TrialIds /\ x = <<x[1], x[2]>>
    BY DEF Cells
  <2>2. Of(x) \in Seq(Record)
    BY <2>1 DEF Of
  <2> QED BY <2>1, <2>2
<1>3. ASSUME NEW x \in Cells, NEW kind
      PROVE  /\ IsFiniteSet(Marked(x, kind))
             /\ Cardinality(Marked(x, kind)) \in Nat
             /\ Count(kind)[x] = Cardinality(Marked(x, kind))
  <2>1. DOMAIN Of(x) = 1..Len(Of(x)) /\ Len(Of(x)) \in Nat
    BY <1>2
  <2>2. Marked(x, kind) \subseteq 1..Len(Of(x)) /\ IsFiniteSet(1..Len(Of(x)))
    BY <2>1, FS_Interval DEF Marked
  <2>3. IsFiniteSet(Marked(x, kind)) /\ Cardinality(Marked(x, kind)) \in Nat
    BY <2>2, FS_Subset, FS_CardinalityType
  <2>4. Count(kind)[x] = Cardinality(Marked(x, kind))
    BY DEF Count
  <2> QED BY <2>3, <2>4
<1>4. ASSUME NEW kind PROVE Tally(kind) \in Nat
  BY <1>1, <1>3, SumTyped DEF Tally
<1> QED BY <1>1, <1>2, <1>3, <1>4

\* Where nothing is collected there is nothing of any kind.
LEMMA NothingCounted ==
    ASSUME PlanTyped, collected = [m \in ModeIds |-> [t \in TrialIds |-> <<>>]]
    PROVE  /\ \A kind : Tally(kind) = 0
           /\ \A x \in Cells : DOMAIN Of(x) = {}
<1>1. ASSUME NEW x \in Cells PROVE Of(x) = <<>>
  BY DEF Cells, Of
<1>2. \A x \in Cells : DOMAIN Of(x) = {}
  BY <1>1
<1>3. ASSUME NEW kind PROVE Tally(kind) = 0
  <2>1. \A x \in Cells : Count(kind)[x] = 0
    <3>1. ASSUME NEW x \in Cells PROVE Count(kind)[x] = 0
      <4>1. Marked(x, kind) = {}
        BY <1>2 DEF Marked
      <4>2. Count(kind)[x] = Cardinality(Marked(x, kind))
        BY DEF Count
      <4> QED BY <4>1, <4>2, FS_EmptySet
    <3> QED BY <3>1
  <2>2. IsFiniteSet(Cells)
    BY PairsCounted DEF Cells
  <2> QED BY <2>1, <2>2, SumZero DEF Tally
<1> QED BY <1>2, <1>3

\* A record that is collected counts once, as what it is.
LEMMA OneMore ==
    ASSUME PlanTyped, AtWork, collected \in [ModeIds -> [TrialIds -> Seq(Record)]],
           at \in [trial : Nat, task : Nat, mode : ModeIds \cup {1}], plan' = plan,
           NEW kind \in Kinds, NEW model \in {"requested", "other"},
           Collect(kind, model)
    PROVE  /\ \A k : Tally(k)' = Tally(k) + (IF k = kind THEN 1 ELSE 0)
           /\ Cells' = Cells
           /\ \A x \in Cells : \A i \in DOMAIN Of(x)' :
                  (i \in DOMAIN Of(x) /\ Of(x)'[i] = Of(x)[i]) \/ Of(x)'[i].kind = kind
<1> DEFINE r == [task |-> at.task, kind |-> kind, model |-> model]
<1>1. /\ collected' \in [ModeIds -> [TrialIds -> Seq(Record)]]
      /\ \A m \in ModeIds, t \in TrialIds :
             collected'[m][t] = IF m = at.mode /\ t = at.trial
                                THEN Append(collected[m][t], r) ELSE collected[m][t]
  BY RecordJoins
<1>2. Cells' = Cells /\ PlanTyped' /\ r.kind = kind
      /\ ModeIds' = ModeIds /\ TrialIds' = TrialIds
  BY PlanKept DEF Cells
<1>0. PICK c \in Cells : c = <<at.mode, at.trial>>
  BY DEF Cells, AtWork
<1> HIDE DEF r
<1>3. /\ \A x \in Cells : x # c => Of(x)' = Of(x)
      /\ Of(c)' = Append(Of(c), r)
  <2>1. ASSUME NEW x \in Cells
        PROVE  Of(x)' = IF x = c THEN Append(Of(x), r) ELSE Of(x)
    <3>1. x[1] \in ModeIds /\ x[2] \in TrialIds /\ x = <<x[1], x[2]>>
      BY DEF Cells
    <3>2. x = c <=> x[1] = at.mode /\ x[2] = at.trial
      BY <1>0, <3>1
    <3>3. Of(x)' = collected'[x[1]][x[2]] /\ Of(x) = collected[x[1]][x[2]]
      BY DEF Of
    <3> QED BY <1>1, <3>1, <3>2, <3>3
  <2> QED BY <1>2, <2>1
<1>4. Of(c) \in Seq(Record)
  BY <1>2, CellsCounted
<1>5. ASSUME NEW k
      PROVE  Cardinality(Marked(c, k)') = Cardinality(Marked(c, k)) + (IF k = kind THEN 1 ELSE 0)
  <2> DEFINE s == Of(c)
             n == Len(s) + 1
             u == Append(s, r)
  <2>1. /\ DOMAIN s = 1..Len(s) /\ DOMAIN u = 1..n /\ n \in Nat /\ n \notin DOMAIN s
        /\ \A i \in DOMAIN u : u[i] = IF i = n THEN r ELSE s[i]
        /\ DOMAIN u = DOMAIN s \cup {n}
    BY <1>4
  <2>2. Marked(c, k)' = {i \in DOMAIN u : u[i].kind = k}
    BY <1>3 DEF Marked
  <2>3. Marked(c, k) = {i \in DOMAIN s : s[i].kind = k}
    BY DEF Marked
  <2> HIDE DEF s, n, u
  <2>4. CASE k = kind
    <3>1. Marked(c, k)' = Marked(c, k) \cup {n} /\ n \notin Marked(c, k)
      BY <1>2, <2>1, <2>2, <2>3, <2>4
    <3>2. IsFiniteSet(Marked(c, k)) /\ Cardinality(Marked(c, k)) \in Nat
      BY CellsCounted
    <3> QED BY <2>4, <3>1, <3>2, FS_AddElement
  <2>5. CASE k # kind
    <3>1. Marked(c, k)' = Marked(c, k)
      BY <1>2, <2>1, <2>2, <2>3, <2>5
    <3> QED BY <1>2, <2>5, <3>1, CellsCounted
  <2> QED BY <2>4, <2>5
<1>6. ASSUME NEW k
      PROVE  Tally(k)' = Tally(k) + (IF k = kind THEN 1 ELSE 0)
  <2> DEFINE f == Count(k)
             g == [x \in Cells |-> Cardinality(Marked(x, k)')]
  <2>1. \A x \in Cells : x # c => g[x] = f[x]
    <3>1. ASSUME NEW x \in Cells, x # c PROVE Marked(x, k)' = Marked(x, k)
      BY <1>3, <3>1 DEF Marked
    <3> QED BY <3>1, CellsCounted
  <2>2. \A x \in Cells : f[x] \in Int /\ g[x] \in Int
    <3>1. \A x \in Cells : f[x] \in Nat
      BY CellsCounted
    <3>2. g[c] \in Int
      BY <1>2, <1>5, CellsCounted
    <3> HIDE DEF f, g
    <3>3. ASSUME NEW x \in Cells PROVE f[x] \in Int /\ g[x] \in Int
      <4>1. CASE x = c
        BY <3>1, <3>2, <4>1
      <4>2. CASE x # c
        BY <2>1, <3>1, <4>2
      <4> QED BY <4>1, <4>2
    <3> QED BY <3>3
  <2>3. IsFiniteSet(Cells) /\ c \in Cells
    BY <1>2, CellsCounted
  <2>4. Tally(k)' = SumFunctionOnSet(g, Cells)
    <3>1. Tally(k)' = SumFunctionOnSet(Count(k)', Cells')
      BY DEF Tally
    <3>2. Count(k)' = [x \in Cells' |-> Cardinality(Marked(x, k)')]
      BY DEF Count
    <3> QED BY <1>2, <3>1, <3>2
  <2>5. g[c] - f[c] = IF k = kind THEN 1 ELSE 0
    <3>1. f[c] = Cardinality(Marked(c, k)) /\ f[c] \in Nat /\ g[c] = Cardinality(Marked(c, k)')
      BY <1>2, CellsCounted
    <3> HIDE DEF f, g
    <3> QED BY <1>5, <3>1
  <2> HIDE DEF g
  <2>6. SumFunctionOnSet(g, Cells) = SumFunctionOnSet(f, Cells) + (g[c] - f[c])
    <3> HIDE DEF f
    <3> QED BY <2>1, <2>2, <2>3, SumChange
  <2> QED BY <2>4, <2>5, <2>6 DEF Tally
<1>7. ASSUME NEW x \in Cells, NEW i \in DOMAIN Of(x)'
      PROVE  (i \in DOMAIN Of(x) /\ Of(x)'[i] = Of(x)[i]) \/ Of(x)'[i].kind = kind
  <2>1. CASE x = c
    <3>1. i \in DOMAIN Append(Of(c), r)
      BY <1>3, <1>7, <2>1
    <3>2. \/ i \in DOMAIN Of(c) /\ Append(Of(c), r)[i] = Of(c)[i]
          \/ Append(Of(c), r)[i] = r
      BY <1>4, <3>1
    <3> QED BY <1>2, <1>3, <2>1, <3>2
  <2>2. CASE x # c
    BY <1>3, <1>7, <2>2
  <2> QED BY <2>1, <2>2
<1> QED BY <1>2, <1>6, <1>7

\* The counts are those of the records.
LEMMA TalliesKept ==
    ASSUME UNCHANGED <<plan, collected>>
    PROVE  /\ Cells' = Cells /\ \A x : Of(x)' = Of(x)
           /\ \A k : Tally(k)' = Tally(k)
<1>1. Cells' = Cells /\ \A x : Of(x)' = Of(x)
  BY PlanKept DEF Cells, Of
<1>2. ASSUME NEW k PROVE Tally(k)' = Tally(k)
  <2>1. \A x : Marked(x, k)' = Marked(x, k)
    BY <1>1 DEF Marked
  <2>2. Count(k)' = Count(k)
    BY <1>1, <2>1 DEF Count
  <2> QED BY <1>1, <2>2 DEF Tally
<1> QED BY <1>1, <1>2

\* The books depend on nothing but the experiment.
LEMMA BooksUnchanged ==
    ASSUME Books, UNCHANGED expVars
    PROVE  Books'
<1>1. UNCHANGED <<plan, dry, step, prompt, collected, budget, aborted, calls, run>>
  BY DEF expVars, counters
<1>2. MayRequest' <=> MayRequest
  BY <1>1 DEF MayRequest, Within, limits
<1>3. /\ Cells' = Cells /\ \A x : Of(x)' = Of(x)
      /\ \A k : Tally(k)' = Tally(k)
  BY <1>1, TalliesKept
<1> QED BY <1>1, <1>2, <1>3 DEF Books

\* Steps that collect nothing and do not end the run.
LEMMA BooksKept ==
    ASSUME Books, UNCHANGED <<plan, dry, collected, budget, run>>, run = None,
           step' = "gate" \/ aborted' => prompt' > 0,
           step' = "finish" /\ aborted' => ~MayRequest'
    PROVE  Books'
<1>1. /\ Cells' = Cells /\ \A x : Of(x)' = Of(x)
      /\ \A k : Tally(k)' = Tally(k)
  BY TalliesKept
<1> QED BY <1>1 DEF Books

\* Nothing is collected, nothing charged, and a run that is over was paid for.
Nothing == /\ PlanTyped /\ collected = [m \in ModeIds |-> [t \in TrialIds |-> <<>>]]
           /\ budget = FreshBudget /\ ~aborted /\ step # "gate"
           /\ run # None /\ run.graded => calls > 0

\* The books of nothing: before the experiment, and when its locals are gone.
LEMMA BooksEmpty == Nothing => Books
<1> SUFFICES ASSUME Nothing PROVE Books
  OBVIOUS
<1>1. /\ \A kind : Tally(kind) = 0
      /\ \A x \in Cells : DOMAIN Of(x) = {}
  BY NothingCounted DEF Nothing
<1> QED BY <1>1 DEF Books, FreshBudget, Nothing

\* What is collected is what the budget was charged for.
LEMMA BooksCollect ==
    ASSUME ExpInv, Books, step \in Active,
           NEW kind \in Kinds, NEW model \in {"requested", "other"}, Collect(kind, model),
           UNCHANGED <<plan, dry, aborted, run>>,
           kind = "measured" <=> dry,
           budget'.failures = budget.failures + (IF kind = "failed" THEN 1 ELSE 0),
           budget'.skips = budget.skips + (IF kind = "skipped" THEN 1 ELSE 0),
           budget'.requests = budget.requests + (IF kind \in {"answered", "failed"} THEN 1 ELSE 0)
    PROVE  Books'
<1>1. /\ PlanTyped /\ AtWork /\ collected \in [ModeIds -> [TrialIds -> Seq(Record)]]
      /\ at \in [trial : Nat, task : Nat, mode : ModeIds \cup {1}]
      /\ run = None /\ ~aborted
      /\ budget \in [requests : Nat, tokens : Nat, failures : Nat, skips : Nat]
  BY NoRunYet DEF ExpInv, Placed, Active, ExpTypeOK
<1>2. /\ \A k : Tally(k)' = Tally(k) + (IF k = kind THEN 1 ELSE 0)
      /\ Cells' = Cells
      /\ \A x \in Cells : \A i \in DOMAIN Of(x)' :
             (i \in DOMAIN Of(x) /\ Of(x)'[i] = Of(x)[i]) \/ Of(x)'[i].kind = kind
  BY <1>1, OneMore
<1>3. \A k : Tally(k) \in Nat
  BY <1>1, CellsCounted
<1>4. \A x \in Cells : \A i \in DOMAIN Of(x)' : Of(x)'[i].kind = "measured" <=> dry
  BY <1>2 DEF Books
<1>5. Tally("failed")' = budget'.failures /\ Tally("skipped")' = budget'.skips
  BY <1>2 DEF Books
<1>6. Tally("answered")' + budget'.failures = budget'.requests
  <2>1. Tally("answered") \in Nat /\ Tally("answered") + budget.failures = budget.requests
    BY <1>3 DEF Books
  <2>2. CASE kind = "answered"
    BY <1>1, <1>2, <2>1, <2>2
  <2>3. CASE kind = "failed"
    BY <1>1, <1>2, <2>1, <2>3
  <2>4. CASE kind \notin {"answered", "failed"}
    BY <1>1, <1>2, <2>1, <2>4
  <2> QED BY <2>2, <2>3, <2>4
<1>7. step' # "gate" /\ ~aborted'
  BY <1>1 DEF Collect
<1> QED BY <1>1, <1>2, <1>4, <1>5, <1>6, <1>7 DEF Books

\* A row of the artifact's table counts the records of its mode and trial.
LEMMA RowsCount ==
    ASSUME PlanTyped, collected \in [ModeIds -> [TrialIds -> Seq(Record)]], NEW x \in Cells
    PROVE  LET row == Headline(x[1], x[2])
           IN  /\ row.mode = x[1] /\ row.trial = x[2] /\ row.tasks = Len(Of(x))
               /\ row.graded = Count("answered")[x]
               /\ row.failures = Count("failed")[x]
               /\ row.skips = Count("skipped")[x]
<1> DEFINE number(kinds) == Cardinality({i \in DOMAIN Of(x) : Of(x)[i].kind \in kinds})
<1>1. Headline(x[1], x[2]) = [mode |-> x[1], trial |-> x[2], tasks |-> Len(Of(x)),
                              graded |-> number({"answered"}), failures |-> number({"failed"}),
                              skips |-> number({"skipped"})]
  BY DEF Headline, GenerationUsage, Of
<1>2. \A k : number({k}) = Count(k)[x]
  <2>1. ASSUME NEW k PROVE {i \in DOMAIN Of(x) : Of(x)[i].kind \in {k}} = Marked(x, k)
    BY DEF Marked
  <2>2. \A k : Count(k)[x] = Cardinality(Marked(x, k))
    BY CellsCounted
  <2> QED BY <2>1, <2>2
<1> HIDE DEF number
<1> QED BY <1>1, <1>2

\* What is graded was answered, and every answer was a request.
LEMMA GradedWasPaid ==
    ASSUME ExpInv, Books, step = "finish", \E r \in HeadlineRows : r.graded > 0
    PROVE  calls > 0
<1>1. /\ PlanTyped /\ collected \in [ModeIds -> [TrialIds -> Seq(Record)]]
      /\ budget \in [requests : Nat, tokens : Nat, failures : Nat, skips : Nat]
      /\ calls = budget.requests
  BY DEF ExpInv, ExpTypeOK, Accounted, Active
<1>2. PICK x \in Cells : Count("answered")[x] > 0
  <2>1. PICK x \in Replayed : Headline(x[1], x[2]).graded > 0
    BY DEF HeadlineRows
  <2>2. x \in Cells
    BY DEF Replayed, Cells
  <2>3. Headline(x[1], x[2]).graded = Count("answered")[x]
    BY <1>1, <2>2, RowsCount
  <2> QED BY <2>1, <2>2, <2>3
<1>3. IsFiniteSet(Cells) /\ \A y \in Cells : Count("answered")[y] \in Nat
  BY <1>1, CellsCounted
<1>4. Tally("answered") = Count("answered")[x]
                          + SumFunctionOnSet(Count("answered"), Cells \ {x})
  BY <1>3, SumRemove DEF Tally
<1>5. SumFunctionOnSet(Count("answered"), Cells \ {x}) \in Nat
  <2>1. IsFiniteSet(Cells \ {x})
    BY <1>3, FS_Subset
  <2> QED BY <1>3, <2>1, SumTyped
<1>6. Tally("answered") + budget.failures = budget.requests
  BY DEF Books
<1> QED BY <1>1, <1>2, <1>3, <1>4, <1>5, <1>6

\* A run that is given up leaves no records and no budget.
LEMMA BooksRaise ==
    ASSUME ExpInv, step \in {"idle", "replay", "gate"}, step' = "raised", Unwind,
           UNCHANGED <<plan, run>>
    PROVE  Books'
<1>1. run = None /\ PlanTyped'
  BY NoRunYet, PlanKept DEF ExpInv
<1>2. collected' = [m \in ModeIds' |-> [t \in TrialIds' |-> <<>>]]
      /\ budget' = FreshBudget' /\ ~aborted'
  BY PlanKept DEF Unwind, FreshBudget
<1>3. run' # None /\ run'.graded => calls' > 0
  BY <1>1
<1>4. Nothing'
  BY <1>1, <1>2, <1>3 DEF Nothing
<1> QED BY <1>4, BooksEmpty, PTL

\* An answer is one of the requests.
LEMMA AnswerIsBooked ==
    ASSUME ExpInv, Books, NEW input \in Nat, NEW output \in Nat,
           NEW model \in {"requested", "other"}, Answer(input, output, model)
    PROVE  Books'
<1>1. /\ step = "sent" /\ budget' = Charged(input, output, FALSE)
      /\ Collect("answered", model) /\ UNCHANGED <<plan, dry, aborted, run>>
  BY DEF Answer
<1>2. budget \in [requests : Nat, tokens : Nat, failures : Nat, skips : Nat] /\ ~dry
  BY <1>1 DEF ExpInv, ExpTypeOK, Accounted
<1>3. /\ budget'.requests = budget.requests + 1 /\ budget'.skips = budget.skips + 0
      /\ budget'.failures = budget.failures + 0
  BY <1>1, <1>2 DEF Charged
<1> QED BY <1>1, <1>2, <1>3, BooksCollect DEF Active, Kinds

\* A failure is one of the requests and one of the failures.
LEMMA FailIsBooked ==
    ASSUME ExpInv, Books, NEW input \in Nat, NEW output \in Nat,
           NEW model \in {"requested", "other"}, Fail(input, output, model)
    PROVE  Books'
<1>1. /\ step = "sent" /\ budget' = Charged(input, output, TRUE)
      /\ Collect("failed", model) /\ UNCHANGED <<plan, dry, aborted, run>>
  BY DEF Fail
<1>2. budget \in [requests : Nat, tokens : Nat, failures : Nat, skips : Nat] /\ ~dry
  BY <1>1 DEF ExpInv, ExpTypeOK, Accounted
<1>3. /\ budget'.requests = budget.requests + 1 /\ budget'.skips = budget.skips + 0
      /\ budget'.failures = budget.failures + 1
  BY <1>1, <1>2 DEF Charged
<1> QED BY <1>1, <1>2, <1>3, BooksCollect DEF Active, Kinds

\* Every step of the experiment keeps the books.
LEMMA BooksKeep ==
    ASSUME ExpInv, Books, ExpNext
    PROVE  Books'
<1>1. CASE BeginExperiment
  <2>1. /\ UNCHANGED <<plan, dry, collected, budget, run>> /\ step = "idle"
        /\ step' = "replay" /\ aborted' = aborted
    BY <1>1 DEF BeginExperiment, Proceed, counters
  <2> QED BY <2>1, NoRunYet, BooksKept
<1>2. CASE ExperimentRaises
  <2>1. step \in {"idle", "replay", "gate"} /\ step' = "raised" /\ Unwind
        /\ UNCHANGED <<plan, run>>
    BY <1>2 DEF ExperimentRaises, Proceed
  <2> QED BY <2>1, BooksRaise
<1>3. CASE Measure
  <2>1. /\ step = "replay" /\ dry /\ Collect("measured", "requested")
        /\ UNCHANGED <<plan, dry, budget, aborted, run>>
    BY <1>3 DEF Measure
  <2>2. budget \in [requests : Nat, tokens : Nat, failures : Nat, skips : Nat]
    BY DEF ExpInv, ExpTypeOK
  <2> QED BY <2>1, <2>2, BooksCollect DEF Active, Kinds
<1>4. CASE \E tokens \in PromptSizes : Replay(tokens)
  <2>1. /\ UNCHANGED <<plan, dry, collected, budget, run>> /\ step = "replay"
        /\ step' = "gate" /\ prompt' > 0
    BY <1>4, SizesTyped DEF Replay, Proceed, counters
  <2> QED BY <2>1, NoRunYet, BooksKept
<1>5. CASE Skip
  <2>1. /\ step = "gate" /\ Collect("skipped", "requested")
        /\ budget' = [budget EXCEPT !.skips = @ + 1]
        /\ UNCHANGED <<plan, dry, aborted, run>>
    BY <1>5 DEF Skip
  <2>2. budget \in [requests : Nat, tokens : Nat, failures : Nat, skips : Nat]
    BY DEF ExpInv, ExpTypeOK
  <2>3. ~dry
    BY <2>1 DEF ExpInv, Accounted
  <2> QED BY <2>1, <2>2, <2>3, BooksCollect DEF Active, Kinds
<1>6. CASE Send
  <2>1. /\ UNCHANGED <<plan, dry, collected, budget, run>> /\ step = "gate"
        /\ step' = "sent" /\ aborted' = aborted
    BY <1>6 DEF Send, Proceed, counters
  <2> QED BY <2>1, NoRunYet, BooksKept
<1>7. CASE \E input, output \in UsageSizes, model \in {"requested", "other"} :
              Answer(input, output, model) \/ Fail(input, output, model)
  <2>1. PICK input \in UsageSizes, output \in UsageSizes, model \in {"requested", "other"} :
            Answer(input, output, model) \/ Fail(input, output, model)
    BY <1>7
  <2> QED BY <2>1, AnswerIsBooked, FailIsBooked, SizesTyped
<1>8. CASE Fail(prompt, 0, "requested")
  <2>1. prompt \in Nat
    BY DEF ExpInv, ExpTypeOK
  <2> QED BY <1>8, <2>1, FailIsBooked
<1>9. CASE Finish
  <2> DEFINE graded == \E r \in HeadlineRows : r.graded > 0
  <2>1. /\ step = "finish" /\ step' = "done" /\ Unwind /\ UNCHANGED <<plan, calls>>
        /\ run' = [violations |-> Violations, aborted |-> aborted, results |-> ModeResults,
                   requests |-> budget.requests, skips |-> budget.skips, graded |-> graded]
    BY <1>9 DEF Finish, Proceed
  <2>2. run'.graded = graded
    BY <2>1
  <2>3. run' # None /\ run'.graded => calls' > 0
    BY <2>1, <2>2, GradedWasPaid
  <2>4. PlanTyped' /\ budget' = FreshBudget' /\ ~aborted'
        /\ collected' = [m \in ModeIds' |-> [t \in TrialIds' |-> <<>>]]
    BY <2>1, PlanKept DEF ExpInv, Unwind, FreshBudget
  <2>5. Nothing'
    BY <2>1, <2>3, <2>4 DEF Nothing
  <2> QED BY <2>5, BooksEmpty, PTL
<1>10. CASE Stop
  <2>1. /\ UNCHANGED <<plan, dry, prompt, collected, budget, run>> /\ step = "gate"
        /\ ~MayRequest
    BY <1>10 DEF Stop, Proceed, counters
  <2>2. ~MayRequest' /\ prompt' > 0
    BY <2>1 DEF MayRequest, Within, limits, Books
  <2> QED BY <2>1, <2>2, NoRunYet, BooksKept
<1> QED
  BY <1>1, <1>2, <1>3, <1>4, <1>5, <1>6, <1>7, <1>8, <1>9, <1>10 DEF ExpNext, Loops

\* The rows of the table add up to the tally of the records.
LEMMA RowsSum ==
    ASSUME PlanTyped, collected \in [ModeIds -> [TrialIds -> Seq(Record)]],
           NEW field, NEW kind,
           \A x \in Cells : Headline(x[1], x[2])[field] = Count(kind)[x]
    PROVE  SumFunctionOnSet([r \in HeadlineRows |-> r[field]], HeadlineRows) = Tally(kind)
<1> DEFINE f == Count(kind)
           g == [r \in HeadlineRows |-> r[field]]
           h == [x \in Replayed |-> Headline(x[1], x[2])]
           Empty == Cells \ Replayed
<1>1. Replayed \subseteq Cells /\ IsFiniteSet(Cells) /\ (\A x \in Cells : f[x] \in Nat)
      /\ \A x \in Cells : x = <<x[1], x[2]>>
  BY CellsCounted DEF Replayed, Cells
<1>2. IsFiniteSet(Replayed) /\ IsFiniteSet(Empty) /\ Replayed \cup Empty = Cells
      /\ Replayed \cap Empty = {}
  BY <1>1, FS_Subset
<1>3. HeadlineRows = {h[x] : x \in Replayed}
  BY DEF HeadlineRows
<1>4. \A x, y \in Replayed : h[x] = h[y] => x = y
  <2>1. \A x \in Replayed : h[x].mode = x[1] /\ h[x].trial = x[2]
    BY <1>1, RowsCount
  <2> HIDE DEF h
  <2> QED BY <1>1, <2>1
<1>5. \A x \in Replayed : f[x] = g[h[x]]
  <2>1. ASSUME NEW x \in Replayed PROVE f[x] = g[h[x]]
    <3>1. h[x] = Headline(x[1], x[2]) /\ h[x] \in HeadlineRows
      BY <1>3
    <3>2. Headline(x[1], x[2])[field] = f[x]
      BY <1>1
    <3> HIDE DEF f, h
    <3> QED BY <3>1, <3>2
  <2> QED BY <2>1
<1>6. ASSUME NEW x \in Empty PROVE f[x] = 0
  <2>1. Of(x) = <<>>
    BY <1>1 DEF Replayed, Cells, Of
  <2>2. Marked(x, kind) = {}
    BY <2>1 DEF Marked
  <2>3. f[x] = Cardinality(Marked(x, kind))
    BY DEF Count
  <2> QED BY <2>2, <2>3, FS_EmptySet
<1> HIDE DEF f, g, h, Empty
<1>7. SumFunctionOnSet(f, Cells) = SumFunctionOnSet(f, Replayed) + SumFunctionOnSet(f, Empty)
  <2>1. \A x \in Replayed \cup Empty : f[x] \in Int
    BY <1>1, <1>2
  <2>2. SumFunctionOnSet(f, Replayed \cup Empty)
            = SumFunctionOnSet(f, Replayed) + SumFunctionOnSet(f, Empty)
    BY <1>2, <2>1, SumUnion
  <2> QED BY <1>2, <2>2
<1>8. SumFunctionOnSet(f, Empty) = 0
  BY <1>2, <1>6, SumZero
<1>9. SumFunctionOnSet(f, Replayed) \in Int
  BY <1>1, <1>2, SumTyped
<1>10. SumFunctionOnSet(f, Replayed) = SumFunctionOnSet(g, {h[x] : x \in Replayed})
  <2>1. \A x \in Replayed : f[x] = g[h[x]] /\ f[x] \in Int
    BY <1>1, <1>5
  <2> QED BY <1>2, <1>4, <2>1, SumImage
<1>11. SumFunctionOnSet(g, HeadlineRows) = SumFunctionOnSet(f, Cells)
  BY <1>3, <1>7, <1>8, <1>9, <1>10
<1> QED BY <1>11 DEF f, g, Tally

\* Every record of a mode is an answer, a failure or a skip, but for those of a dry run.
LEMMA RowsAreWhole ==
    ASSUME ExpInv, Books, NEW x \in Cells
    PROVE  LET row == Headline(x[1], x[2])
           IN  IF dry THEN row.graded + row.failures + row.skips = 0
               ELSE row.graded + row.failures + row.skips = row.tasks
<1>1. PlanTyped /\ collected \in [ModeIds -> [TrialIds -> Seq(Record)]] /\ dry \in BOOLEAN
  BY DEF ExpInv, ExpTypeOK
<1> DEFINE A == Marked(x, "answered")
           F == Marked(x, "failed")
           S == Marked(x, "skipped")
<1>2. /\ Headline(x[1], x[2]).graded = Cardinality(A)
      /\ Headline(x[1], x[2]).failures = Cardinality(F)
      /\ Headline(x[1], x[2]).skips = Cardinality(S)
      /\ Headline(x[1], x[2]).tasks = Len(Of(x))
  BY <1>1, RowsCount, CellsCounted
<1>3. Of(x) \in Seq(Record) /\ \A i \in DOMAIN Of(x) : Of(x)[i].kind = "measured" <=> dry
  BY <1>1, CellsCounted DEF Books
<1>4. \A i \in DOMAIN Of(x) : Of(x)[i].kind \in {"measured", "skipped", "answered", "failed"}
  <2>1. ASSUME NEW i \in DOMAIN Of(x) PROVE Of(x)[i] \in Record
    BY <1>3
  <2> QED BY <2>1 DEF Record, Kinds
<1>5. /\ IsFiniteSet(A) /\ IsFiniteSet(F) /\ IsFiniteSet(S)
      /\ Cardinality(A) \in Nat /\ Cardinality(F) \in Nat /\ Cardinality(S) \in Nat
  BY <1>1, CellsCounted
<1>6. CASE dry
  <2>1. A = {} /\ F = {} /\ S = {}
    BY <1>3, <1>6 DEF Marked
  <2>2. Cardinality(A) = 0 /\ Cardinality(F) = 0 /\ Cardinality(S) = 0
    BY <2>1, FS_EmptySet
  <2> QED BY <1>2, <1>6, <2>2
<1>7. CASE ~dry
  <2>1. A \cup (F \cup S) = 1..Len(Of(x)) /\ A \cap (F \cup S) = {} /\ F \cap S = {}
    <3>1. DOMAIN Of(x) = 1..Len(Of(x))
      BY <1>3
    <3>2. A \cup (F \cup S) = DOMAIN Of(x)
      BY <1>3, <1>4, <1>7 DEF Marked
    <3>3. A \cap (F \cup S) = {} /\ F \cap S = {}
      BY DEF Marked
    <3> HIDE DEF A, F, S
    <3> QED BY <3>1, <3>2, <3>3
  <2> HIDE DEF A, F, S
  <2>2. ASSUME NEW U, NEW V, IsFiniteSet(U), IsFiniteSet(V), U \cap V = {}
        PROVE  /\ IsFiniteSet(U \cup V)
               /\ Cardinality(U \cup V) = Cardinality(U) + Cardinality(V)
    <3>1. Cardinality(U \cup V) = Cardinality(U) + Cardinality(V) - Cardinality(U \cap V)
          /\ IsFiniteSet(U \cup V)
      BY <2>2, FS_Union
    <3>2. Cardinality(U \cap V) = 0 /\ Cardinality(U) \in Nat /\ Cardinality(V) \in Nat
      BY <2>2, FS_EmptySet, FS_CardinalityType
    <3> QED BY <3>1, <3>2
  <2>3. IsFiniteSet(F \cup S) /\ Cardinality(F \cup S) = Cardinality(F) + Cardinality(S)
    BY <1>5, <2>1, <2>2
  <2>4. Cardinality(A \cup (F \cup S)) = Cardinality(A) + Cardinality(F \cup S)
    BY <1>5, <2>1, <2>2, <2>3
  <2>5. Cardinality(A \cup (F \cup S)) = Len(Of(x))
    <3>1. Len(Of(x)) \in Nat
      BY <1>3
    <3>2. Cardinality(1..Len(Of(x))) = Len(Of(x))
      BY <3>1, FS_Interval
    <3> QED BY <2>1, <3>2
  <2>6. Cardinality(A) + Cardinality(F) + Cardinality(S) = Len(Of(x))
    BY <1>5, <2>3, <2>4, <2>5
  <2> QED BY <1>2, <1>7, <2>6
<1> QED BY <1>1, <1>6, <1>7

\* What is left of a limit.
LEMMA RemainingIs ==
    ASSUME NEW limit \in Nat, NEW used \in Nat
    PROVE  Remaining(limit, used) = IF used < limit THEN limit - used ELSE 0
<1> DEFINE S == {0, limit - used}
<1>1. Remaining(limit, used) = Max(S)
  BY SizesTyped DEF Remaining
<1>2. \E i \in S : \A j \in S : i >= j
  BY limit - used \in Int, 0 \in Int
<1>3. Max(S) \in S /\ \A j \in S : Max(S) >= j
  <2> HIDE DEF S
  <2> QED BY <1>2 DEF Max
<1> QED BY <1>1, <1>3

\* The books agree with the artifact's table and its report.
LEMMA TotalsFollow ==
    ASSUME ExpInv, Books
    PROVE  TotalsAgree
<1> DEFINE total(f) == SumFunctionOnSet([r \in HeadlineRows |-> r[f]], HeadlineRows)
           report == BudgetSnapshot
<1> SUFFICES ASSUME step = "finish"
             PROVE  /\ total("failures") = report.failures
                    /\ total("skips") = report.skips
                    /\ total("graded") + report.failures = report.requests
                    /\ \A r \in HeadlineRows :
                           IF dry THEN r.graded + r.failures + r.skips = 0
                           ELSE r.graded + r.failures + r.skips = r.tasks
                    /\ ~report.within => report.remaining.tokens = 0
                    /\ aborted =>
                          \/ 0 \in {report.remaining.requests, report.remaining.failures}
                          \/ /\ report.remaining.tokens # None
                             /\ report.remaining.tokens < prompt
  BY DEF TotalsAgree
<1>1. /\ PlanTyped /\ collected \in [ModeIds -> [TrialIds -> Seq(Record)]]
      /\ budget \in [requests : Nat, tokens : Nat, failures : Nat, skips : Nat]
      /\ prompt \in Nat
  BY DEF ExpInv, ExpTypeOK
<1>2. /\ limits.requests \in Nat \cup {None} /\ limits.total \in Nat \cup {None}
      /\ limits.failures \in Nat \cup {None}
  BY <1>1, PlanFacts DEF Limit
<1>3. /\ report.requests = budget.requests /\ report.failures = budget.failures
      /\ report.skips = budget.skips
      /\ report.remaining.requests = Remaining(limits.requests, budget.requests)
      /\ report.remaining.tokens = Remaining(limits.total, budget.tokens)
      /\ report.remaining.failures = Remaining(limits.failures, budget.failures)
      /\ report.within <=> /\ limits.requests # None => budget.requests <= limits.requests
                           /\ limits.total # None => budget.tokens <= limits.total
                           /\ limits.failures # None => budget.failures <= limits.failures
  BY DEF BudgetSnapshot
<1>4. /\ total("failures") = Tally("failed") /\ total("skips") = Tally("skipped")
      /\ total("graded") = Tally("answered")
  <2>1. ASSUME NEW x \in Cells
        PROVE  /\ Headline(x[1], x[2])["failures"] = Count("failed")[x]
               /\ Headline(x[1], x[2])["skips"] = Count("skipped")[x]
               /\ Headline(x[1], x[2])["graded"] = Count("answered")[x]
    BY <1>1, RowsCount
  <2>2. total("failures") = Tally("failed")
    BY <1>1, <2>1, RowsSum
  <2>3. total("skips") = Tally("skipped")
    BY <1>1, <2>1, RowsSum
  <2>4. total("graded") = Tally("answered")
    BY <1>1, <2>1, RowsSum
  <2> QED BY <2>2, <2>3, <2>4
<1>5. \A r \in HeadlineRows : IF dry THEN r.graded + r.failures + r.skips = 0
                               ELSE r.graded + r.failures + r.skips = r.tasks
  <2>1. Replayed \subseteq Cells
    BY DEF Replayed, Cells
  <2> QED BY <2>1, RowsAreWhole DEF HeadlineRows
<1> HIDE DEF total, report
<1>6. ~report.within => report.remaining.tokens = 0
  <2>1. /\ limits.requests # None => budget.requests <= limits.requests
        /\ limits.failures # None => budget.failures <= limits.failures
    BY <1>1, <1>2 DEF ExpInv, Bounded, Accounted, Active
  <2>2. ASSUME ~report.within PROVE report.remaining.tokens = 0
    <3>1. limits.total \in Nat /\ ~(budget.tokens <= limits.total) /\ budget.tokens \in Nat
      BY <1>1, <1>2, <1>3, <2>1, <2>2
    <3>2. Remaining(limits.total, budget.tokens) = 0
      BY <3>1, RemainingIs
    <3> QED BY <1>3, <3>2
  <2> QED BY <2>2
<1>7. ASSUME aborted
      PROVE  \/ 0 \in {report.remaining.requests, report.remaining.failures}
             \/ report.remaining.tokens # None /\ report.remaining.tokens < prompt
  <2>1. ~MayRequest
    BY <1>7 DEF Books
  <2>2. CASE ~Within(budget.requests, limits.requests)
    <3>1. limits.requests \in Nat /\ ~(budget.requests < limits.requests)
      BY <1>1, <1>2, <2>2 DEF Within
    <3>2. Remaining(limits.requests, budget.requests) = 0
      BY <1>1, <3>1, RemainingIs
    <3> QED BY <1>3, <3>2
  <2>3. CASE ~Within(budget.failures, limits.failures)
    <3>1. limits.failures \in Nat /\ ~(budget.failures < limits.failures)
      BY <1>1, <1>2, <2>3 DEF Within
    <3>2. Remaining(limits.failures, budget.failures) = 0
      BY <1>1, <3>1, RemainingIs
    <3> QED BY <1>3, <3>2
  <2>4. CASE ~Within(budget.tokens, limits.total)
             \/ ~(limits.total # None => budget.tokens + prompt <= limits.total)
    <3>1. limits.total \in Nat /\ budget.tokens \in Nat
          /\ (~(budget.tokens < limits.total) \/ ~(budget.tokens + prompt <= limits.total))
      BY <1>1, <1>2, <2>4 DEF Within
    <3>2. prompt > 0
      BY <1>7 DEF Books
    <3>3. Remaining(limits.total, budget.tokens)
              = IF budget.tokens < limits.total THEN limits.total - budget.tokens ELSE 0
      BY <3>1, RemainingIs
    <3>4. Remaining(limits.total, budget.tokens) < prompt
          /\ Remaining(limits.total, budget.tokens) \in Nat
      BY <1>1, <3>1, <3>2, <3>3
    <3> QED BY <1>3, <3>4, SizesTyped
  <2> QED BY <2>1, <2>2, <2>3, <2>4 DEF MayRequest
<1>8. /\ total("failures") = report.failures /\ total("skips") = report.skips
      /\ total("graded") + report.failures = report.requests
  BY <1>3, <1>4 DEF Books
<1> QED BY <1>5, <1>6, <1>7, <1>8 DEF total, report

\* The quarantine is over, or on its way.
Aftermath == {"rewrite", "note", "returned", "raised"}

\* A request that was answered did run, and what its author was shown is what there is to
\* show: nothing happens any more.  A file is lost only where the scans found something.
Told ==
    /\ Books
    /\ lost # {} => phase \in Aftermath /\ Named # {}
    /\ stand = "refused" => Refused(request)
    /\ stand = "shown" =>
           /\ ~Refused(request)
           /\ IF Piped THEN phase = "returned" ELSE step = "done"
           /\ view = Shown

\* It holds when a request is made.
LEMMA ToldAtFirst ==
    ASSUME Init
    PROVE  Told
<1>1. Inv
  BY InitHolds
<1>2. /\ \E p, d : ExpInit(p, d)
      /\ \E s : PipeInit(s)
      /\ stand = "asked"
  BY DEF Init
<1>3. Nothing
  BY <1>1, <1>2 DEF Nothing, Inv, ExpInv, ExpInit
<1>4. Books
  BY <1>3, BooksEmpty
<1>5. lost = {}
  BY <1>2 DEF PipeInit
<1> QED BY <1>2, <1>4, <1>5 DEF Told

\* What is shown depends on nothing but what has happened.
LEMMA ShownKept ==
    ASSUME UNCHANGED <<expVars, pipeVars, request, policy>>
    PROVE  /\ Shown' = Shown /\ Piped' = Piped /\ Named' = Named
           /\ Refused(request)' = Refused(request)
<1>1. /\ UNCHANGED <<plan, dry, step, run>> /\ UNCHANGED <<request, policy>>
      /\ UNCHANGED <<status, check, exit, phase>>
  BY DEF expVars, pipeVars
<1>2. PipelineResult' = PipelineResult /\ Named' = Named
  BY <1>1 DEF PipelineResult, Named
<1>3. /\ StatusNotes' = StatusNotes /\ ExperimentNotes' = ExperimentNotes
      /\ CommandExit' = CommandExit
  BY <1>1, <1>2 DEF StatusNotes, ExperimentNotes, CommandExit
<1>4. PipelineNotes' = PipelineNotes
  BY <1>1, <1>3 DEF PipelineNotes
<1>5. \A code, notes : Receipt(code, notes)' = Receipt(code, notes)
  BY <1>2 DEF Receipt
<1>6. Shown' = Shown
  BY <1>1, <1>3, <1>4, <1>5 DEF Shown
<1> QED BY <1>1, <1>2, <1>6, FrontKept

\* The front end's own steps.
LEMMA FrontTells ==
    ASSUME Inv, Told, UNCHANGED <<expVars, pipeVars, request, policy>>,
           stand' = "refused" => Refused(request),
           stand' = "shown" =>
               /\ ~Refused(request)
               /\ IF Piped THEN phase = "returned" ELSE step = "done"
               /\ view' = Shown
    PROVE  Told'
<1>1. Books'
  BY BooksUnchanged DEF Told, expVars
<1>2. UNCHANGED <<lost, phase, step>>
  BY DEF expVars, pipeVars
<1> QED BY <1>1, <1>2, ShownKept DEF Told

\* The steps of a request that is running.
LEMMA RunTells ==
    ASSUME Told, stand = "running", UNCHANGED frontVars, Books',
           lost' # {} => phase' \in Aftermath /\ Named' # {}
    PROVE  Told'
BY DEF Told, frontVars

\* The pipeline.
LEMMA PipelineTells ==
    ASSUME Inv, Told, RunPipeline
    PROVE  Told'
<1>1. stand = "running" /\ PipeNext /\ UNCHANGED frontVars
  BY DEF RunPipeline
<1>2. CASE RunExperiment
  <2>1. ExpNext /\ UNCHANGED pipeVars
    BY <1>2 DEF RunExperiment
  <2>2. Books'
    BY <2>1, BooksKeep DEF Inv, Told
  <2>3. UNCHANGED <<lost, phase, check>>
    BY <2>1 DEF pipeVars
  <2> QED BY <1>1, <2>2, <2>3, RunTells DEF Named, Told
<1>3. ASSUME UNCHANGED expVars, lost' = lost, phase \notin Aftermath
      PROVE  Told'
  <2>1. Books'
    BY <1>3, BooksUnchanged DEF Told
  <2>2. lost' = {}
    BY <1>3 DEF Told
  <2> QED BY <1>1, <2>1, <2>2, RunTells
<1>5. CASE ExperimentFails
  BY <1>3, <1>5 DEF ExperimentFails, EndStage, AtStage, Aftermath
<1>6. ASSUME NEW s \in Stages, SkipStage(s) PROVE Told'
  BY <1>3, <1>6 DEF SkipStage, EndStage, AtStage, Aftermath
<1>7. ASSUME NEW s \in Stages, StageSucceeds(s) PROVE Told'
  BY <1>3, <1>7 DEF StageSucceeds, EndStage, AtStage, Aftermath
<1>8. ASSUME NEW s \in Stages, NEW n \in 0..(Modes * Trials), NEW partly \in BOOLEAN,
             StageFails(s, n, partly)
      PROVE  Told'
  BY <1>3, <1>8 DEF StageFails, EndStage, AtStage, Aftermath
<1>9. CASE WriteManifest
  BY <1>3, <1>9 DEF WriteManifest, Aftermath
<1>10. CASE ManifestFails
  BY <1>3, <1>10 DEF ManifestFails, Aftermath
<1>11. CASE ScanReport
  BY <1>3, <1>11 DEF ScanReport, Aftermath
<1>12. ASSUME NEW stuck \in SUBSET Named, Quarantine(stuck) PROVE Told'
  <2>1. /\ UNCHANGED expVars /\ phase = "scanned" /\ lost' = lost \cup stuck
        /\ phase' \in Aftermath /\ check' = check
    BY <1>12 DEF Quarantine, Aftermath
  <2>2. lost' # {} => Named' # {}
    BY <2>1 DEF Named, Told, Aftermath
  <2> QED BY <1>1, <2>1, <2>2, BooksUnchanged, RunTells DEF Told
<1>13. ASSUME UNCHANGED expVars, phase \in {"rewrite", "note"}, phase' \in Aftermath,
              Named' = Named
       PROVE  Told'
  <2>1. Named # {}
    BY <1>13 DEF Inv, PipeInv, ScansComplete
  <2> QED BY <1>1, <1>13, <2>1, BooksUnchanged, RunTells DEF Told
<1>14. CASE RewriteManifest
  <2>1. /\ UNCHANGED expVars /\ phase = "rewrite" /\ phase' = "note"
        /\ \E S : check' = [check EXCEPT !.skipped = @ \cup S]
    BY <1>14 DEF RewriteManifest
  <2>2. Named' = Named
    BY <2>1 DEF Named, Inv, PipeInv, PipeWellTyped
  <2> QED BY <1>13, <2>1, <2>2 DEF Aftermath
<1>15. ASSUME NEW partly \in BOOLEAN, RewriteFails(partly) PROVE Told'
  BY <1>13, <1>15 DEF RewriteFails, Named, Aftermath
<1>16. CASE WriteNote
  BY <1>13, <1>16 DEF WriteNote, Named, Aftermath
<1>17. CASE QuarantineRaises
  BY <1>13, <1>17 DEF QuarantineRaises, Named, Aftermath
<1> QED
  BY <1>1, <1>2, <1>5, <1>6, <1>7, <1>8, <1>9, <1>10, <1>11, <1>12, <1>14, <1>15, <1>16,
     <1>17
  DEF PipeNext

\* The commands.
LEMMA CommandTells ==
    ASSUME Inv, Told, RunExperimentAlone \/ RunSingleMode
    PROVE  Told'
<1>1. /\ stand = "running" /\ UNCHANGED <<pipeVars, frontVars>>
      /\ \/ ExpNext
         \/ Proceed("gate", "raised") /\ Unwind /\ UNCHANGED <<plan, run>>
  BY DEF RunExperimentAlone, RunSingleMode, ExpNext
<1>2. Books'
  <2>1. CASE ExpNext
    BY <2>1, BooksKeep DEF Inv, Told
  <2>2. CASE Proceed("gate", "raised") /\ Unwind /\ UNCHANGED <<plan, run>>
    BY <2>2, BooksRaise DEF Inv, Proceed
  <2> QED BY <1>1, <2>1, <2>2
<1>3. UNCHANGED <<lost, phase, check>> /\ UNCHANGED frontVars
  BY <1>1 DEF pipeVars
<1> QED BY <1>1, <1>2, <1>3, RunTells DEF Told, Named

\* Every step of a request keeps what is told.
LEMMA StepTells ==
    ASSUME Inv, Told, [Next]_vars
    PROVE  Told'
<1>1. CASE UNCHANGED vars
  <2>1. UNCHANGED <<expVars, pipeVars, request, policy>> /\ stand' = stand /\ view' = view
    BY <1>1 DEF vars
  <2> QED BY <2>1, FrontTells DEF Told
<1>2. CASE Refuse
  BY <1>2, FrontTells DEF Refuse
<1>3. CASE Preview \/ Begin \/ Crash
  BY <1>3, FrontTells DEF Preview, Begin, Crash
<1>4. CASE Show
  BY <1>4, FrontTells DEF Show, Inv, FrontInv
<1> QED
  BY <1>1, <1>2, <1>3, <1>4, PipelineTells, CommandTells DEF Next, Leave

\* What is told is told in every state of every request.
LEMMA ToldAlways == Spec => []Told
<1>1. Init => Told
  BY ToldAtFirst
<1>2. Inv /\ Told /\ [Next]_vars => Told'
  BY StepTells
<1> QED BY <1>1, <1>2, Invariance, PTL DEF Spec

\* A form whose choices were offered is refused only for a reason its author can see.
LEMMA RefusalFollows ==
    ASSUME Inv, Refused(request)
    PROVE  RefusalExplained
<1> DEFINE r == request
<1> SUFFICES ASSUME r.client = "browser", Obeyable(policy), Offered(r)
             PROVE  \/ r.generate /\ ("retrieval only" \in PolicyNotice \/ ~r.key)
                    \/ r.earlier >= policy.runs
                    \/ r.dataset \notin Runnable
  BY DEF RefusalExplained
<1>1. PolicyRefuses(r) \/ (r.generate /\ ~r.key) \/ r.dataset \notin Runnable \/ PlanInvalid(r)
  BY DEF Refused, BrowserRefuses
<1>2. r \in Asked /\ FormSays(r)
  BY RequestsSayable DEF Inv, FrontInv
<1>3. r.preset \in DOMAIN Presets /\ r.preset \in policy.presets
  BY DEF Offered, PresetViews
<1>4. r.generate /\ ~policy.generation => "retrieval only" \in PolicyNotice
  BY DEF PolicyNotice
<1>5. \A m \in Range(ModeOrder) \cup Range(AblationOrder) : m \in DOMAIN Canonical
  BY ModesCanonical
<1>6. ModesKnown(r) /\ r.baseline \in DOMAIN Canonical
  BY <1>5 DEF Offered, ModesKnown
<1>7. \A f \in Given(r) : ~(r.limits[f] < 0)
  <2>1. ASSUME NEW f \in Given(r) PROVE f = "tasks" /\ r.limits[f] \in Int /\ r.limits[f] > 0
    BY <1>2, RequestsTyped DEF Given, FormSays
  <2> QED BY <2>1
<1>8. ~PlanInvalid(r)
  BY <1>3, <1>6, <1>7 DEF PlanInvalid
<1> QED BY <1>1, <1>3, <1>4, <1>8 DEF PolicyRefuses

-------------------------------------------------------------------------------
(* The command that repeats a plan.                                        *)

\* There are n numbers from 1 to n.
LEMMA UpTo == \A n \in Nat : IsFiniteSet(1..n) /\ Cardinality(1..n) = n
BY FS_Interval

\* Each element of a sequence is named where it comes first, and only there.
LEMMA DistinctIs ==
    ASSUME NEW n \in Nat, NEW s, DOMAIN s = 1..n
    PROVE  LET d == Distinct(s)
           IN  \E c \in Nat : /\ DOMAIN d = 1..c /\ d = [k \in 1..c |-> d[k]]
                              /\ \A k \in 1..c : \E i \in 1..n : d[k] = s[i]
                              /\ \A j, k \in 1..c : d[j] = d[k] => j = k
<1> DEFINE F == {i \in DOMAIN s : \A j \in 1..(i - 1) : s[j] # s[i]}
           upto(i) == {j \in F : j <= i}
           rank(i) == Cardinality(upto(i))
           c == Cardinality(F)
           nth(k) == CHOOSE i \in F : rank(i) = k
           R == [i \in F |-> rank(i)]
<1>1. F \subseteq 1..n /\ IsFiniteSet(F) /\ c \in Nat
  <2>1. F \subseteq 1..n /\ IsFiniteSet(1..n)
    BY FS_Interval
  <2>2. IsFiniteSet(F)
    BY <2>1, FS_Subset
  <2> QED BY <2>1, <2>2, FS_CardinalityType
<1>2. \A i \in F : /\ upto(i) \subseteq F /\ IsFiniteSet(upto(i))
                    /\ rank(i) \in 1..c /\ rank(i) \in Nat
  <2> HIDE DEF F
  <2>1. ASSUME NEW i \in F
        PROVE  /\ upto(i) \subseteq F /\ IsFiniteSet(upto(i))
               /\ rank(i) \in 1..c /\ rank(i) \in Nat
    <3>1. upto(i) \subseteq F /\ i \in upto(i)
      BY <1>1
    <3>2. IsFiniteSet(upto(i)) /\ rank(i) <= c /\ rank(i) \in Nat
      BY <1>1, <3>1, FS_Subset, FS_CardinalityType
    <3>3. rank(i) # 0
      BY <3>1, <3>2, FS_EmptySet
    <3> QED BY <1>1, <3>1, <3>2, <3>3
  <2> QED BY <2>1
<1>3. \A i, j \in F : i < j => rank(i) < rank(j)
  <2> HIDE DEF F
  <2>1. ASSUME NEW i \in F, NEW j \in F, i < j PROVE rank(i) < rank(j)
    <3>1. upto(i) \cup {j} \subseteq upto(j) /\ j \notin upto(i)
      <4>1. i \in Int /\ j \in Int /\ \A k \in upto(i) : k \in Int /\ k \in F /\ k <= i
        BY <1>1
      <4>2. \A k \in upto(i) : k \in upto(j) /\ k # j
        BY <2>1, <4>1
      <4>3. j \in upto(j)
        BY <4>1
      <4> HIDE DEF upto
      <4> QED BY <4>2, <4>3
    <3>2. Cardinality(upto(i) \cup {j}) = rank(i) + 1
      BY <1>2, <3>1, FS_AddElement
    <3>3. Cardinality(upto(i) \cup {j}) <= rank(j)
      BY <1>2, <3>1, FS_Subset
    <3>4. rank(i) \in Nat /\ rank(j) \in Nat
      BY <1>2
    <3> HIDE DEF rank
    <3> QED BY <3>2, <3>3, <3>4
  <2> QED BY <2>1
<1>4. \A i, j \in F : rank(i) = rank(j) => i = j
  <2>1. \A i \in F : rank(i) \in Nat
    BY <1>2
  <2> HIDE DEF F, rank
  <2> QED BY <1>1, <1>3, <2>1
<1>5. \A k \in 1..c : \E i \in F : rank(i) = k
  <2> DEFINE Ranks == {rank(i) : i \in F}
  <2>1. R \in [F -> Ranks] /\ (\A r \in Ranks : \E i \in F : R[i] = r)
        /\ (\A i, j \in F : R[i] = R[j] => i = j)
    BY <1>4
  <2>2. IsFiniteSet(Ranks) /\ Cardinality(Ranks) = c
    <3> HIDE DEF F, R, Ranks
    <3> QED BY <1>1, <2>1, Tabulated
  <2>3. Ranks \subseteq 1..c /\ IsFiniteSet(1..c) /\ Cardinality(1..c) = c
    <3> HIDE DEF F, rank, c
    <3> QED BY <1>1, <1>2, UpTo
  <2>4. Ranks = 1..c
    <3> HIDE DEF Ranks, c
    <3> QED BY <2>2, <2>3, FS_Subset
  <2> QED BY <2>4
<1>6. \A k \in 1..c : nth(k) \in F /\ rank(nth(k)) = k
  <2> HIDE DEF F, rank
  <2> QED BY <1>5
<1>7. Distinct(s) = [k \in 1..c |-> s[nth(k)]]
  BY DEF Distinct
<1>8. \A i, j \in F : s[i] = s[j] => i = j
  BY <1>1
<1> HIDE DEF F, rank, c, nth, upto
<1>9. \A k \in 1..c : Distinct(s)[k] = s[nth(k)]
  BY <1>7
<1>10. /\ DOMAIN Distinct(s) = 1..c /\ Distinct(s) = [k \in 1..c |-> Distinct(s)[k]]
       /\ \A k \in 1..c : \E i \in 1..n : Distinct(s)[k] = s[i]
  BY <1>1, <1>6, <1>7, <1>9
<1>11. \A j, k \in 1..c : Distinct(s)[j] = Distinct(s)[k] => j = k
  BY <1>6, <1>8, <1>9
<1> QED BY <1>1, <1>10, <1>11

\* A sequence that names each element once is left as it is.
LEMMA DistinctOnce ==
    ASSUME NEW n \in Nat, NEW s, DOMAIN s = 1..n, s = [i \in 1..n |-> s[i]],
           \A i, j \in 1..n : s[i] = s[j] => i = j
    PROVE  Distinct(s) = s
<1> DEFINE F == {i \in DOMAIN s : \A j \in 1..(i - 1) : s[j] # s[i]}
           rank(i) == Cardinality({j \in F : j <= i})
           nth(k) == CHOOSE i \in F : rank(i) = k
<1>1. F = 1..n
  <2>1. ASSUME NEW i \in 1..n, NEW j \in 1..(i - 1) PROVE s[j] # s[i]
    <3>1. j \in 1..n /\ j # i
      OBVIOUS
    <3> QED BY <3>1
  <2> QED BY <2>1
<1>2. \A i \in 1..n : rank(i) = i
  <2> HIDE DEF F
  <2>1. ASSUME NEW i \in 1..n PROVE rank(i) = i
    <3>1. {j \in F : j <= i} = 1..i
      BY <1>1
    <3>2. Cardinality(1..i) = i
      BY UpTo
    <3> QED BY <3>1, <3>2
  <2> QED BY <2>1
<1>3. Cardinality(F) = n
  <2>1. Cardinality(1..n) = n
    BY UpTo
  <2> HIDE DEF F
  <2> QED BY <1>1, <2>1
<1>4. Distinct(s) = [k \in 1..Cardinality(F) |-> s[nth(k)]]
  BY DEF Distinct
<1> HIDE DEF F, rank
<1>5. \A k \in 1..n : nth(k) = k
  BY <1>1, <1>2
<1> HIDE DEF nth
<1> QED BY <1>3, <1>4, <1>5

\* The modes of a plan are the preset's, or modes by their names, each once.
LEMMA ModesNamed ==
    ASSUME NEW r \in Asked, ~Refused(r), r.modes # <<>>, r.client # "single"
    PROVE  LET modes == ModesOf(r)
           IN  /\ modes # <<>> /\ Len(modes) \in Nat /\ DOMAIN modes = 1..Len(modes)
               /\ modes = [i \in 1..Len(modes) |-> modes[i]]
               /\ \A i \in 1..Len(modes) : /\ modes[i] \in DOMAIN Canonical
                                           /\ Canonical[modes[i]] = modes[i]
                                           /\ modes[i] \notin {"all", "ablations"}
               /\ \A i, j \in 1..Len(modes) : modes[i] = modes[j] => i = j
<1> DEFINE modes == ModesOf(r)
<1>0. r.modes \in Seq(STRING)
  BY RequestsTyped
<1>1. CASE Keyword(r, "all") \/ Keyword(r, "ablations")
  <2>1. modes \in {ModeOrder, AblationOrder}
    BY <1>1 DEF ModesOf
  <2>2. modes \in Seq(STRING) /\ modes # <<>>
    BY <2>1, ModesTyped
  <2>3. DOMAIN modes = 1..Len(modes) /\ Len(modes) \in Nat
        /\ modes = [i \in 1..Len(modes) |-> modes[i]]
    <3> HIDE DEF modes
    <3> QED BY <2>2
  <2>4. /\ \A m \in Range(modes) : m \in DOMAIN Canonical /\ Canonical[m] = m
        /\ \A i, j \in DOMAIN modes : modes[i] = modes[j] => i = j
    <3> HIDE DEF modes
    <3> QED BY <2>1, ModesCanonical
  <2>5. \A i \in 1..Len(modes) : modes[i] \in Range(modes)
    <3> HIDE DEF modes
    <3> QED BY <2>3 DEF Range
  <2>6. \A m \in DOMAIN Canonical : Canonical[m] \notin {"all", "ablations"}
    BY ModesCanonical
  <2> HIDE DEF modes
  <2>7. \A i \in 1..Len(modes) : /\ modes[i] \in DOMAIN Canonical
                                 /\ Canonical[modes[i]] = modes[i]
                                 /\ modes[i] \notin {"all", "ablations"}
    BY <2>4, <2>5, <2>6
  <2> QED BY <2>2, <2>3, <2>4, <2>7 DEF modes
<1>2. CASE ~Keyword(r, "all") /\ ~Keyword(r, "ablations")
  <2> DEFINE s == [i \in DOMAIN r.modes |-> Canonical[r.modes[i]]]
             n == Len(r.modes)
  <2>1. modes = Distinct(s)
    BY <1>2 DEF ModesOf
  <2>2. DOMAIN s = 1..n /\ n \in Nat \ {0}
    BY <1>0
  <2>3. Range(r.modes) \subseteq DOMAIN Canonical
    BY <1>2 DEF Refused, BrowserRefuses, ExperimentRefuses, PipelineRefuses, PlanInvalid,
                ModesKnown
  <2>4. \A i \in 1..n : /\ s[i] \in DOMAIN Canonical /\ Canonical[s[i]] = s[i]
                        /\ s[i] \notin {"all", "ablations"}
    <3>1. ASSUME NEW i \in 1..n
          PROVE  /\ s[i] \in DOMAIN Canonical /\ Canonical[s[i]] = s[i]
                 /\ s[i] \notin {"all", "ablations"}
      <4>1. i \in DOMAIN r.modes /\ r.modes[i] \in Range(r.modes)
        BY <1>0 DEF Range
      <4>2. r.modes[i] \in DOMAIN Canonical /\ s[i] = Canonical[r.modes[i]]
        BY <2>3, <4>1
      <4> HIDE DEF s
      <4> QED BY <4>2, ModesCanonical
    <3> QED BY <3>1
  <2> HIDE DEF s, n
  <2>5. PICK c \in Nat : /\ DOMAIN modes = 1..c /\ modes = [k \in 1..c |-> modes[k]]
                         /\ \A k \in 1..c : \E i \in 1..n : modes[k] = s[i]
                         /\ \A j, k \in 1..c : modes[j] = modes[k] => j = k
    <3> HIDE DEF modes
    <3> QED BY <2>1, <2>2, DistinctIs
  <2>6. Len(modes) \in Nat \ {0}
    <3> HIDE DEF modes
    <3> QED BY <2>1, <2>2, DistinctLength
  <2> HIDE DEF modes
  <2>7. Len(modes) = c /\ modes # <<>>
    BY <2>5, <2>6
  <2>8. \A i \in 1..c : /\ modes[i] \in DOMAIN Canonical
                        /\ Canonical[modes[i]] = modes[i]
                        /\ modes[i] \notin {"all", "ablations"}
    BY <2>4, <2>5
  <2> QED BY <2>5, <2>7, <2>8 DEF modes
<1> QED BY <1>1, <1>2

\* A limit that is not the preset's is set: it was given, or is the deployment's.
LEMMA LimitsAreSet ==
    ASSUME Inv, ~Refused(request), Piped
    PROVE  LET base == Presets[request.preset].limits
           IN  /\ base \in RunLimits /\ plan.limits \in RunLimits
               /\ \A f \in LimitNames :
                      plan.limits[f] # base[f] =>
                          plan.limits[f] # None /\ (f = "tasks" => plan.limits[f] # 0)
<1> DEFINE r == request
           base == Presets[r.preset].limits
           asked == Overridden(base, r)
           tight == Tightened(asked)
<1>1. /\ r \in Asked /\ policy \in Policies /\ plan = PlanOf(r)
      /\ r.client \in {"browser", "pipeline", "caller"}
  BY DEF Inv, FrontInv, Piped
<1>2. base \in RunLimits /\ \A f \in Given(r) : r.limits[f] \in Nat
  BY <1>1, NotRefused, PresetsTyped
<1>3. plan.limits = IF r.client = "browser" THEN tight ELSE asked
  BY <1>1 DEF PlanOf
<1>4. plan.limits \in RunLimits
  BY DEF Inv, ExpInv, PlanTyped, limits
<1>5. /\ asked \in RunLimits
      /\ \A f \in LimitNames : asked[f] = IF f \in Given(r) THEN r.limits[f] ELSE base[f]
  <2> HIDE DEF base
  <2> QED BY <1>2, OverriddenTyped
<1>6. "tasks" \in Given(r) => r.limits["tasks"] # 0
  <2>1. "tasks" \in Given(r) => r.limits["tasks"] \in Nat
    BY <1>2
  <2> QED BY <1>1, <2>1 DEF Given
<1> HIDE DEF base
<1>7. \A f \in LimitNames :
          asked[f] # base[f] => asked[f] \in Nat /\ (f = "tasks" => asked[f] # 0)
  BY <1>2, <1>5, <1>6
<1>8. CASE r.client # "browser"
  <2>1. plan.limits = asked
    BY <1>3, <1>8
  <2> HIDE DEF asked
  <2> QED BY <1>2, <1>4, <1>7, <2>1, SizesTyped DEF base
<1>9. CASE r.client = "browser"
  <2>1. policy.tasks \in Nat \ {0} /\ policy.requests \in Nat \ {0} /\ plan.limits = tight
    BY <1>1, <1>3, <1>9, NotRefused
  <2>2. \A f \in LimitNames :
            tight[f] # asked[f] => tight[f] \in Nat /\ (f = "tasks" => tight[f] # 0)
    <3>1. DOMAIN asked = LimitNames
      BY <1>5, LimitFields
    <3> HIDE DEF asked
    <3>2. /\ tight.tasks = IF asked.tasks = None \/ asked.tasks > policy.tasks
                           THEN policy.tasks ELSE asked.tasks
          /\ tight.requests = IF asked.requests = None \/ asked.requests > policy.requests
                              THEN policy.requests ELSE asked.requests
          /\ \A f \in LimitNames \ {"tasks", "requests"} : tight[f] = asked[f]
      BY <3>1 DEF Tightened, LimitNames
    <3> HIDE DEF tight
    <3>3. ASSUME NEW f \in LimitNames, tight[f] # asked[f]
          PROVE  tight[f] \in Nat /\ (f = "tasks" => tight[f] # 0)
      <4>1. f \in {"tasks", "requests"}
        BY <3>2, <3>3
      <4>2. CASE f = "tasks"
        BY <2>1, <3>2, <3>3, <4>2
      <4>3. CASE f = "requests"
        BY <2>1, <3>2, <3>3, <4>3
      <4> QED BY <4>1, <4>2, <4>3
    <3> QED BY <3>3
  <2> HIDE DEF asked, tight
  <2>3. ASSUME NEW f \in LimitNames, plan.limits[f] # base[f]
        PROVE  plan.limits[f] \in Nat /\ (f = "tasks" => plan.limits[f] # 0)
    <3>1. CASE tight[f] = asked[f]
      BY <1>7, <2>1, <2>3, <3>1
    <3>2. CASE tight[f] # asked[f]
      BY <2>1, <2>2, <3>2
    <3> QED BY <3>1, <3>2
  <2> QED BY <1>2, <1>4, <2>3, SizesTyped DEF base
<1> QED BY <1>8, <1>9

\* The command that repeats a run repeats its plan.
LEMMA RerunFollows ==
    ASSUME Inv, ~Refused(request), Piped
    PROVE  PlanOf(RerunOf(plan)) = plan
<1> DEFINE r == request
           reference == Presets[r.preset]
           flags == LimitFlags(plan.limits, reference.limits)
           modes == IF plan.modes = reference.modes THEN <<>> ELSE plan.modes
           trials == IF plan.trials = reference.trials THEN None ELSE plan.trials
           again == RerunOf(plan)
<1>1. /\ r \in Asked /\ policy \in Policies /\ plan = PlanOf(r)
      /\ r.client \in {"browser", "pipeline", "caller"}
  BY DEF Inv, FrontInv, Piped
<1>2. /\ plan = [name |-> r.preset, modes |-> plan.modes, trials |-> plan.trials,
                 limits |-> plan.limits, available |-> Contents[r.dataset]]
      /\ plan.modes = ModesOf(r)
  BY <1>1 DEF PlanOf
<1>3. /\ again.client = "pipeline" /\ again.preset = r.preset /\ again.dataset = r.dataset
      /\ again.modes = modes /\ again.trials = trials /\ again.limits = flags
  <2>1. plan.name = r.preset
    BY <1>2
  <2>2. again = [r EXCEPT !.client = "pipeline", !.modes = modes, !.trials = trials,
                          !.limits = flags, !.stages = {}]
    BY <2>1 DEF RerunOf
  <2>3. {"client", "preset", "modes", "trials", "limits", "dataset", "stages"} \subseteq DOMAIN r
    BY <1>1, RequestsTyped
  <2> HIDE DEF modes, trials, flags, again
  <2> QED BY <2>2, <2>3
<1>4. ModesOf(again) = plan.modes
  <2>1. CASE plan.modes = reference.modes
    BY <1>3, <2>1 DEF ModesOf
  <2>2. CASE plan.modes # reference.modes
    <3> DEFINE named == plan.modes
               n == Len(named)
    <3>1. r.modes # <<>>
      BY <1>2, <2>2 DEF ModesOf
    <3>2. /\ named # <<>> /\ n \in Nat /\ DOMAIN named = 1..n
          /\ named = [i \in 1..n |-> named[i]]
          /\ \A i \in 1..n : /\ Canonical[named[i]] = named[i]
                             /\ named[i] \notin {"all", "ablations"}
          /\ \A i, j \in 1..n : named[i] = named[j] => i = j
      BY <1>1, <1>2, <3>1, ModesNamed
    <3>3. again.modes = named
      BY <1>3, <2>2
    <3> HIDE DEF named, again
    <3>4. ~Keyword(again, "all") /\ ~Keyword(again, "ablations")
      <4>1. again.modes # <<"all">> /\ again.modes # <<"ablations">>
        <5>1. ASSUME NEW w \in {"all", "ablations"}, named = <<w>> PROVE FALSE
          <6>1. 1 \in 1..n /\ named[1] = w
            BY <3>2, <5>1
          <6> QED BY <3>2, <6>1
        <5> QED BY <3>3, <5>1
      <4> QED BY <1>3, <4>1 DEF Keyword
    <3>5. ModesOf(again) = Distinct([i \in DOMAIN named |-> Canonical[named[i]]])
      BY <3>2, <3>3, <3>4 DEF ModesOf
    <3>6. [i \in DOMAIN named |-> Canonical[named[i]]] = named
      BY <3>2
    <3>7. Distinct(named) = named
      BY <3>2, DistinctOnce
    <3> QED BY <3>5, <3>6, <3>7 DEF named
  <2> QED BY <2>1, <2>2
<1>5. (IF again.trials = None THEN reference.trials ELSE again.trials) = plan.trials
  <2>1. plan.trials # None
    BY SizesTyped DEF Inv, ExpInv, PlanTyped, Trials
  <2> QED BY <1>3, <2>1
<1>6. Overridden(reference.limits, again) = plan.limits
  <2> DEFINE base == reference.limits
             l == plan.limits
             asked == Overridden(base, again)
  <2>1. /\ base \in RunLimits /\ l \in RunLimits
        /\ \A f \in LimitNames : l[f] # base[f] => l[f] # None /\ (f = "tasks" => l[f] # 0)
    BY LimitsAreSet
  <2>2. DOMAIN base = LimitNames /\ DOMAIN l = LimitNames /\ l = [f \in LimitNames |-> l[f]]
    <3> HIDE DEF base, l
    <3>1. DOMAIN base = LimitNames /\ DOMAIN l = LimitNames
      BY <2>1, LimitFields
    <3>2. l = [f \in DOMAIN l |-> l[f]]
      BY <2>1 DEF RunLimits
    <3> QED BY <3>1, <3>2
  <2>3. asked = [f \in DOMAIN base |-> IF f \in Given(again) THEN again.limits[f] ELSE base[f]]
    BY DEF Overridden
  <2>4. again.limits = [f \in {g \in DOMAIN l : l[g] # None /\ l[g] # base[g]} |-> l[f]]
    BY <1>3 DEF LimitFlags
  <2> HIDE DEF base, l, again, reference
  <2>5. DOMAIN again.limits = {g \in LimitNames : l[g] # None /\ l[g] # base[g]}
        /\ \A f \in DOMAIN again.limits : again.limits[f] = l[f]
    BY <2>2, <2>4
  <2>6. Given(again) = {g \in LimitNames : l[g] # base[g]}
    <3>1. Given(again) = {f \in DOMAIN again.limits : f = "tasks" => again.limits.tasks # 0}
      BY <1>3 DEF Given
    <3> QED BY <2>1, <2>5, <3>1
  <2>7. \A f \in LimitNames : (IF f \in Given(again) THEN again.limits[f] ELSE base[f]) = l[f]
    BY <2>1, <2>5, <2>6
  <2>8. asked = [f \in LimitNames |-> l[f]]
    BY <2>2, <2>3, <2>7
  <2> QED BY <2>2, <2>8 DEF base, l
<1>7. PlanOf(again) = [name |-> r.preset, modes |-> plan.modes, trials |-> plan.trials,
                       limits |-> plan.limits, available |-> Contents[r.dataset]]
  <2> HIDE DEF again
  <2>1. PlanOf(again) = [name |-> again.preset, modes |-> ModesOf(again),
                         trials |-> IF again.trials = None THEN Presets[again.preset].trials
                                    ELSE again.trials,
                         limits |-> Overridden(Presets[again.preset].limits, again),
                         available |-> Contents[again.dataset]]
    BY <1>3 DEF PlanOf
  <2> QED BY <1>3, <1>4, <1>5, <1>6, <2>1
<1> QED BY <1>2, <1>7

-------------------------------------------------------------------------------
(* What is shown.                                                          *)

\* What is shown of a run that is over is what happened.
LEMMA ResultFollows ==
    ASSUME Inv, Told, stand = "shown"
    PROVE  ResultTrue
<1> DEFINE result == PipelineResult
<1>1. /\ ~Refused(request) /\ view = Shown
      /\ IF Piped THEN phase = "returned" ELSE step = "done"
      /\ request \in Asked
  BY DEF Told, Inv, FrontInv
<1>2. PICK code, notes : /\ view = Receipt(code, notes)
                         /\ Piped => code = exit
                         /\ notes \subseteq IF Piped THEN StatusNotes ELSE ExperimentNotes
                         /\ request.client = "browser" => notes = StatusNotes
                         /\ "clean" \in notes => request.client \in {"browser", "pipeline"}
                         /\ request.client = "pipeline" => notes = PipelineNotes
  <2>1. PipelineNotes \subseteq StatusNotes
    BY DEF PipelineNotes
  <2>2. "clean" \notin ExperimentNotes
    BY DEF ExperimentNotes
  <2>3. CASE request.client = "browser"
    BY <1>1, <2>3 DEF Shown, Piped
  <2>4. CASE request.client = "pipeline"
    BY <1>1, <2>1, <2>4 DEF Shown, Piped
  <2>5. CASE request.client = "caller"
    BY <1>1, <2>5 DEF Shown, Piped
  <2>6. CASE request.client = "experiment"
    BY <1>1, <2>2, <2>6 DEF Shown, Piped
  <2>7. CASE request.client \notin {"browser", "pipeline", "caller", "experiment"}
    BY <1>1, <2>7 DEF Shown, Piped
  <2> QED BY <2>3, <2>4, <2>5, <2>6, <2>7
<1>3. /\ view.ok <=> code = 0
      /\ view.dry = result.dry /\ view.requests = result.requests /\ view.notes = notes
  BY <1>2 DEF Receipt
<1>4. /\ result.dry = (run = None \/ dry)
      /\ result.requests = (IF run = None THEN 0 ELSE run.requests)
      /\ result.violations = (run # None /\ run.violations # {})
      /\ result.aborted = (run # None /\ run.aborted)
      /\ result.failed = {s \in DOMAIN status : status[s] = "failed"}
      /\ result.findings = Named /\ result.graded = (run # None /\ run.graded)
  BY DEF PipelineResult
<1>5. dry \in BOOLEAN /\ calls \in Nat /\ (run # None => run.requests = calls)
      /\ (dry => calls = 0)
  BY DEF Inv, ExpInv, ExpTypeOK, RunTrue, Accounted
<1>6. \A n \in StatusNotes : /\ n \in Notes
                             /\ n = "violations" => result.violations
                             /\ n = "ceiling" => result.aborted
                             /\ n = "failed" => result.failed # {}
                             /\ n = "findings" => result.findings # {}
                             /\ n = "clean" => result.findings = {}
  BY DEF StatusNotes
<1>7. /\ "failed" \in StatusNotes <=> result.failed # {}
      /\ "ungraded" \in StatusNotes <=> ~result.graded
  BY DEF StatusNotes, Notes
<1> HIDE DEF result
<1>8. ASSUME view.ok
      PROVE  /\ PassedIsWhole
             /\ run # None /\ Piped => Passed(run)
             /\ Piped => view.notes \subseteq {"skipped", "clean", "ungraded"}
  <2>1. PassedIsWhole
    BY WholenessFollows DEF Inv
  <2>2. ASSUME Piped
        PROVE  /\ run # None => Passed(run)
               /\ view.notes \subseteq {"skipped", "clean", "ungraded"}
    <3>1. phase = "returned" /\ exit = 0
      BY <1>1, <1>2, <1>3, <1>8, <2>2
    <3>2. /\ \A s \in DOMAIN status : status[s] # "failed"
          /\ run # None => run.violations = {} /\ ~run.aborted
          /\ Named = {}
      BY <3>1 DEF Inv, PipeInv, ExitTrue, Scanned
    <3>3. run # None => Passed(run)
      BY <3>2 DEF Passed
    <3>4. ~result.violations /\ ~result.aborted /\ result.failed = {} /\ result.findings = {}
      BY <1>4, <3>2
    <3>5. StatusNotes \subseteq {"skipped", "clean", "ungraded"}
      BY <1>6, <3>4 DEF Notes
    <3>6. notes \subseteq StatusNotes
      BY <1>2, <2>2
    <3> QED BY <1>3, <3>3, <3>5, <3>6
  <2> QED BY <2>1, <2>2
<1>9. /\ run # None => view.requests = calls /\ view.dry = dry
      /\ run = None => view.requests = 0 /\ view.dry
      /\ view.requests > 0 => ~view.dry
  <2>1. CASE run = None
    <3>1. view.dry = TRUE /\ view.requests = 0
      BY <1>3, <1>4, <2>1
    <3> QED BY <2>1, <3>1
  <2>2. CASE run # None
    <3>1. view.dry = dry /\ view.requests = calls
      <4>1. (run = None \/ dry) = dry
        BY <1>5, <2>2
      <4> QED BY <1>3, <1>4, <1>5, <2>2, <4>1
    <3> QED BY <1>5, <2>2, <3>1
  <2> QED BY <2>1, <2>2
<1>10. ASSUME "clean" \in view.notes, \E f \in disk \ check.skipped : Echoes(f)
       PROVE  "failed" \in view.notes
  <2>1. request.client \in {"browser", "pipeline"} /\ "clean" \in StatusNotes
    BY <1>2, <1>3, <1>10 DEF Piped
  <2>2. phase = "returned" /\ Named = {}
    BY <1>1, <1>4, <1>6, <2>1 DEF Piped
  <2>3. lost = {}
    BY <2>2 DEF Told
  <2>4. PICK f \in disk : f \in Leftovers
    BY <1>10, <2>2, <2>3 DEF Inv, PipeInv, Left
  <2>5. result.failed # {}
    BY <1>4, <2>4 DEF Leftovers
  <2>6. "failed" \in StatusNotes
    BY <1>7, <2>5
  <2>7. StatusNotes \ {"ungraded"} \subseteq notes
    BY <1>2, <2>1 DEF PipelineNotes
  <2> QED BY <1>3, <2>6, <2>7
<1>11. request.client = "browser" /\ "ungraded" \notin view.notes => calls > 0
  <2>1. run # None /\ run.graded => calls > 0
    BY DEF Told, Books
  <2> QED BY <1>2, <1>3, <1>4, <1>7, <2>1
<1>12. Piped => PlanOf(RerunOf(plan)) = plan
  BY <1>1, RerunFollows
<1> QED BY <1>8, <1>9, <1>10, <1>11, <1>12 DEF ResultTrue

-------------------------------------------------------------------------------
(* The theorems.                                                           *)

\* The state of a request, of its pipeline and of its experiment stays well formed.
THEOREM TypeCorrect == Spec => []TypeOK
<1>1. Inv => TypeOK
  BY DEF Inv, FrontInv, PipeInv, PipeWellTyped, ExpInv, TypeOK, PipeTypeOK
<1>2. QED
  BY <1>1, Invariance, PTL

\* A ceiling may stop a run anywhere: what is collected by then is paired, task by task
\* and mode by mode, and accounted for in the budget (experiment.py, limits.py).
THEOREM RecordsArePaired == Spec => []RecordsPaired
<1>1. Inv => RecordsPaired
  BY PairingFollows DEF Inv
<1>2. QED
  BY <1>1, Invariance, PTL

\* Nobody pays for what was not asked for, allowed and announced: for every policy of a
\* deployment, every preset, every dataset and every request (app/evaluation.py,
\* evaluation/pipeline.py, limits.py).
THEOREM SpendIsAuthorised == Spec => []SpendAuthorised
<1>1. Inv => SpendAuthorised
  BY SpendFollows
<1>2. QED
  BY <1>1, Invariance, PTL

\* Exit code 0 means a whole and controlled run, all of whose files are there and none
\* of whose files holds a credential but one that a scan passed over, whatever stage or
\* file operation failed (_exit_code of pipeline.py, scan_file of security/scan.py).
THEOREM ExitZeroMeansSound == Spec => []ExitZeroIsSound
<1>1. Inv => ExitZeroIsSound
  BY ExitFollows
<1>2. QED
  BY <1>1, Invariance, PTL

\* When a pipeline returns, the scans have named every file of its stages that holds a
\* credential, but those they passed over; the quarantine has left none of the named but
\* what it could not remove, and of the others none but what a failed stage had written;
\* it has deleted nothing else, and a note says that it was at work (_quarantine of
\* pipeline.py, scan_file of security/scan.py).
THEOREM QuarantineIsComplete == Spec => []QuarantineComplete
<1>1. Inv => QuarantineComplete
  BY QuarantineFollows
<1>2. QED
  BY <1>1, Invariance, PTL

\* What is reported is what happened, for every policy, every preset and every request:
\* the artifact's totals are those of the budget, a run that is called good is whole, a
\* receipt counts the calls that were paid for and gives the command that repeats them,
\* files that are called clean are so as far as the scans read them, and a refusal has a reason its author can see (headline_rows and BudgetSnapshot of
\* experiment.py and limits.py, _status_line and _executed_cost of app/evaluation.py,
\* pipeline_rerun_command).
THEOREM ReportIsTrue == Spec => []ReportTrue
<1>1. Inv /\ Told => ReportTrue
  <2>1. ASSUME Inv, Told PROVE ReportTrue
    <3>1. TotalsAgree
      BY <2>1, TotalsFollow DEF Inv, Told
    <3>2. stand = "shown" => ResultTrue
      BY <2>1, ResultFollows
    <3>3. stand = "refused" => RefusalExplained
      BY <2>1, RefusalFollows DEF Told
    <3> QED BY <3>1, <3>2, <3>3 DEF ReportTrue
  <2> QED BY <2>1
<1> QED BY <1>1, Invariance, ToldAlways, PTL
===============================================================================
