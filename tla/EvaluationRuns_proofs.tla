------------------------ MODULE EvaluationRuns_proofs -------------------------
(***************************************************************************)
(* Proofs about EvaluationRuns, for every set of handlers and sessions.    *)
(***************************************************************************)
EXTENDS EvaluationRuns, FiniteSetTheorems, WellFoundedInduction, TLAPS

(* What the operators return.                                              *)

\* A nonempty set of times has a greatest member.
LEMMA MaxIsGreatest ==
    ASSUME NEW n \in Nat, NEW S \in SUBSET (0..n), S # {}
    PROVE  Max(S) \in S /\ \A i \in S : i <= Max(S)
<1> DEFINE T == {n - i : i \in S}
           R == OpToRel(<, Nat)
<1>1. IsWellFoundedOn(R, Nat)
  BY NatLessThanWellFounded
<1>2. \A x, y \in Nat : y < x => <<y, x>> \in R
  BY DEF OpToRel
<1>3. T \subseteq Nat /\ T # {}
  <2>1. \A i \in S : n - i \in Nat
    <3> HIDE DEF T, R
    <3> QED OBVIOUS
  <2> HIDE DEF R
  <2> QED BY <2>1
<1>4. \E x \in T : \A y \in T : ~(<<y, x>> \in R)
  <2> HIDE DEF T, R
  <2> QED BY <1>1, <1>3, WFMin
<1>5. PICK x \in T : \A y \in T : ~(y < x)
  <2> HIDE DEF R
  <2> QED BY <1>2, <1>3, <1>4
<1>6. PICK m \in S : x = n - m
  OBVIOUS
<1>7. ASSUME NEW i \in S PROVE m >= i /\ i \in Int
  <2>1. n - i \in T
    OBVIOUS
  <2>2. ~(n - i < n - m)
    BY <1>5, <1>6, <2>1
  <2>3. i \in Int /\ m \in Int /\ n \in Int
    OBVIOUS
  <2> HIDE DEF T
  <2> QED BY <2>2, <2>3
<1>8. Max(S) \in S /\ \A i \in S : Max(S) >= i
  <2> HIDE DEF T, R
  <2> QED BY <1>7 DEF Max
<1> QED BY <1>7, <1>8

\* The age of a directory is that of its newest file.
LEMMA NewestFile ==
    ASSUME TypeOK, NEW s \in Sids, tree[s] # {}
    PROVE  Newest(s) \in 0..MaxClock /\ \A f \in tree[s] : f.at <= Newest(s)
<1> DEFINE T == {f.at : f \in tree[s]}
<1>1. T \in SUBSET (0..MaxClock) /\ T # {}
  BY DEF TypeOK, Files
<1>2. Newest(s) = Max(T)
  BY DEF Newest
<1>3. \A f \in tree[s] : f.at \in T
  OBVIOUS
<1> HIDE DEF T
<1> QED BY <1>1, <1>2, <1>3, MaxIsGreatest, ClockTyped

\* A fresh identifier is one of the identifiers.
LEMMA NewSidTyped ==
    ASSUME TypeOK, NEW s \in Sids
    PROVE  NewSid \in Sids
<1>1. \E t \in Sids : used # Sids => t \notin used
  BY DEF TypeOK
<1> QED BY <1>1 DEF NewSid

-------------------------------------------------------------------------------
(* Types.                                                                  *)

HandlersTyped ==
    /\ pc \in [Handlers -> {"idle"} \cup RunSteps \cup EndSteps]
    /\ job \in [Handlers -> Jobs]
    /\ \A h \in Handlers : pc[h] # "idle" => job[h].sid \in Sids /\ job[h].run # EarlierRun

DataTyped ==
    /\ live \subseteq used /\ used \subseteq Sids
    /\ tree \in [Sids -> SUBSET Files]
    /\ index \in [Sids -> Seq(Runs \ {EarlierRun})]
    /\ rows \in [Sids -> SUBSET (Runs \ {EarlierRun})]
    /\ clock \in Epoch..MaxClock
    /\ calls \in 0..MaxCalls
    /\ ended \subseteq used /\ overlapped \subseteq used

\* The variables start in their types.
LEMMA TypeInit == Init => TypeOK
<1> SUFFICES ASSUME Init PROVE TypeOK
  OBVIOUS
<1>1. NoJob \in Jobs
  BY ClockTyped, CallsTyped DEF NoJob, Jobs, Runs, EarlierRun
<1>2. job \in [Handlers -> Jobs]
  BY <1>1 DEF Init
<1>3. tree \in [Sids -> SUBSET Files]
  <2>1. PICK written \in [Abandoned -> 0..Epoch] :
            tree = [s \in Sids |-> IF s \in Abandoned
                                   THEN {[run |-> EarlierRun, at |-> written[s]]} ELSE {}]
    BY DEF Init
  <2>2. \A s \in Abandoned : [run |-> EarlierRun, at |-> written[s]] \in Files
    BY ClockTyped, CallsTyped DEF Files, Runs, EarlierRun
  <2> QED BY <2>1, <2>2
<1>4. index \in [Sids -> Seq(Runs \ {EarlierRun})]
  BY DEF Init
<1>5. rows \in [Sids -> SUBSET (Runs \ {EarlierRun})]
  BY DEF Init
<1>6. /\ live \subseteq used /\ used \subseteq Sids /\ clock \in Epoch..MaxClock
      /\ calls \in 0..MaxCalls /\ ended \subseteq used /\ overlapped \subseteq used
      /\ pc \in [Handlers -> {"idle"} \cup RunSteps \cup EndSteps]
      /\ \A h \in Handlers : pc[h] = "idle"
  BY SessionsTyped, ClockTyped, CallsTyped DEF Init
<1> QED BY <1>2, <1>3, <1>4, <1>5, <1>6 DEF TypeOK

\* What a job must be for its handler to be at a step.
JobFits(j, step) ==
    j \in Jobs /\ (step # "idle" => j.sid \in Sids /\ j.run # EarlierRun)

\* One handler moves; the pc and job of all keep their types.
LEMMA HandlerTyped ==
    ASSUME TypeOK, NEW h \in Handlers,
           NEW step \in {"idle"} \cup RunSteps \cup EndSteps, NEW j, JobFits(j, step),
           pc' = [pc EXCEPT ![h] = step], job' = [job EXCEPT ![h] = j]
    PROVE  HandlersTyped'
  BY DEF TypeOK, JobFits, HandlersTyped

\* The handler keeps its job, or returns.
LEMMA StepTyped ==
    ASSUME TypeOK, NEW h \in Handlers,
           NEW from \in RunSteps \cup EndSteps,
           NEW to \in {"idle"} \cup RunSteps \cup EndSteps,
           \/ Goto(h, from, to) /\ job' = job
           \/ Return(h, from)
    PROVE  HandlersTyped'
<1>1. NoJob \in Jobs
  BY ClockTyped, CallsTyped DEF NoJob, Jobs, Runs, EarlierRun
<1>2. CASE Return(h, from)
  BY <1>1, <1>2 DEF Return, Goto, TypeOK, HandlersTyped
<1>3. CASE Goto(h, from, to) /\ job' = job
  <2>1. pc[h] # "idle"
    BY <1>3 DEF Goto, RunSteps, EndSteps
  <2> QED BY <1>3, <2>1 DEF Goto, TypeOK, HandlersTyped
<1> QED BY <1>2, <1>3

\* The job of a callback, or of a run whose sweep is over.
LEMMA JobShape ==
    ASSUME NEW s, NEW r, NEW j, j = [NoJob EXCEPT !.sid = s, !.run = r]
    PROVE  j = [sid |-> s, run |-> r, moment |-> 0, queue |-> {}, removed |-> 0,
                truncated |-> FALSE, gone |-> {}, stuck |-> {}]
  BY DEF NoJob

\* A callback begins with a typed job.
LEMMA BeginTyped ==
    ASSUME TypeOK, NEW h \in Handlers, NEW to \in RunSteps \cup EndSteps, NEW s \in Sids,
           Begin(h, to, s)
    PROVE  /\ HandlersTyped'
           /\ calls' \in 0..MaxCalls
           /\ job'[h].sid = s
<1> DEFINE j == [NoJob EXCEPT !.sid = s, !.run = calls']
<1>1. calls' \in 0..MaxCalls /\ calls' # EarlierRun /\ calls' \in Runs
  BY CallsTyped DEF Begin, TypeOK, EarlierRun, Runs
<1>2. j = [sid |-> s, run |-> calls', moment |-> 0, queue |-> {}, removed |-> 0,
           truncated |-> FALSE, gone |-> {}, stuck |-> {}]
  BY JobShape
<1>3. JobFits(j, to)
  <2> HIDE DEF j
  <2> QED BY <1>1, <1>2, ClockTyped DEF JobFits, Jobs
<1>4. pc' = [pc EXCEPT ![h] = to] /\ job' = [job EXCEPT ![h] = j]
  BY DEF Begin, Goto
<1>5. j.sid = s
  BY <1>2
<1> HIDE DEF j
<1> QED BY <1>1, <1>3, <1>4, <1>5, HandlerTyped DEF TypeOK

\* A directory gains a file of the time, or loses some.
LEMMA TreeTyped ==
    ASSUME TypeOK, NEW s \in Sids, NEW T \in SUBSET Files, tree' = [tree EXCEPT ![s] = T]
    PROVE  tree' \in [Sids -> SUBSET Files]
  BY DEF TypeOK

\* The files a run writes now.
LEMMA FileTyped ==
    ASSUME TypeOK, NEW h \in Handlers, pc[h] # "idle"
    PROVE  [run |-> job[h].run, at |-> clock] \in Files
  BY ClockTyped DEF TypeOK, Jobs, Files

\* Every action keeps the variables in their types.
LEMMA TypeNext == TypeOK /\ [Next]_vars => TypeOK'
<1> SUFFICES ASSUME TypeOK, [Next]_vars PROVE TypeOK'
  OBVIOUS
<1> USE DEF registry, kept, history
<1>0. DataTyped /\ HandlersTyped
  BY DEF TypeOK, HandlersTyped, DataTyped
<1>s. HandlersTyped' /\ DataTyped' => TypeOK'
  BY DEF TypeOK, HandlersTyped, DataTyped
<1>1. ASSUME NEW h \in Handlers, NEW asked \in Sids, BeginRun(h, asked) PROVE TypeOK'
  <2>1. Resolved(asked) \in Sids /\ NewSid \in Sids
    BY NewSidTyped DEF Resolved
  <2>2. HandlersTyped' /\ calls' \in 0..MaxCalls
    BY <1>1, <2>1, BeginTyped DEF BeginRun, RunSteps
  <2>3. live' \subseteq used' /\ used' \subseteq Sids /\ used \subseteq used'
        /\ Resolved(asked) \in used'
    BY <1>0, <1>1, <2>1 DEF BeginRun, DataTyped, Resolved
  <2> QED
    BY <1>0, <1>1, <2>2, <2>3, <1>s DEF BeginRun, DataTyped, NoteOverlap
<1>2. ASSUME NEW h \in Handlers, Refuse(h) PROVE TypeOK'
  <2>1. PICK step \in {"ask", "plan"} : Return(h, step)
    BY <1>2 DEF Refuse
  <2>2. HandlersTyped'
    BY <2>1, StepTyped DEF RunSteps
  <2> QED BY <1>0, <1>2, <2>2, <1>s DEF Refuse, DataTyped
<1>3. ASSUME NEW h \in Handlers, ListCandidates(h) PROVE TypeOK'
  <2>1. Candidates \subseteq Listings
    BY NewestFile DEF Candidates, Listings
  <2>2. clock \in 0..MaxClock
    BY <1>0, ClockTyped DEF DataTyped
  <2>3. HandlersTyped'
    BY <1>0, <1>3, <2>1, <2>2 DEF ListCandidates, Goto, HandlersTyped, Jobs, RunSteps
  <2> QED BY <1>0, <1>3, <2>3, <1>s DEF ListCandidates, DataTyped
<1>4. ASSUME NEW h \in Handlers, NEW c \in job[h].queue, SweepRemoves(h, c) PROVE TypeOK'
  <2>1. c \in Listings /\ c.sid \in Sids
    BY <1>0 DEF HandlersTyped, Jobs, Listings
  <2>2. tree' \in [Sids -> SUBSET Files]
    BY <1>4, <2>1, TreeTyped DEF SweepRemoves
  <2>3. HandlersTyped'
    <3> DEFINE new == {d \in {c} : tree[c.sid] # {}}
    <3>1. new \subseteq Listings
      BY <2>1
    <3>2. /\ pc' = pc
          /\ job' = [job EXCEPT ![h].queue = @ \ {c}, ![h].removed = @ + 1,
                                ![h].gone = @ \cup new]
      BY <1>4 DEF SweepRemoves
    <3> HIDE DEF new
    <3>3. job[h].gone \cup new \in SUBSET Listings
      BY <1>0, <3>1 DEF HandlersTyped, Jobs
    <3> QED BY <1>0, <3>2, <3>3 DEF HandlersTyped, Jobs
  <2> QED BY <1>0, <1>4, <2>2, <2>3, <1>s DEF SweepRemoves, DataTyped
<1>5. ASSUME NEW h \in Handlers, NEW c \in job[h].queue, SweepFails(h, c) PROVE TypeOK'
  <2>1. c \in Listings /\ c.sid \in Sids
    BY <1>0 DEF HandlersTyped, Jobs, Listings
  <2>2. tree' \in [Sids -> SUBSET Files]
    <3>1. CASE UNCHANGED tree
      BY <1>0, <3>1 DEF DataTyped
    <3>2. CASE tree' # tree
      <4>1. PICK g \in Handlers :
                pc[g] = "run"
                /\ tree' = [tree EXCEPT ![c.sid] = {[run |-> job[g].run, at |-> clock]}]
        BY <1>5, <3>2 DEF SweepFails
      <4>2. [run |-> job[g].run, at |-> clock] \in Files
        BY <4>1, FileTyped
      <4>3. {[run |-> job[g].run, at |-> clock]} \in SUBSET Files
        BY <4>2
      <4>4. tree \in [Sids -> SUBSET Files]
        BY <1>0 DEF DataTyped
      <4> QED BY <4>1, <4>3, <4>4
    <3> QED BY <3>1, <3>2
  <2>3. HandlersTyped'
    BY <1>0, <1>5, <2>1 DEF SweepFails, HandlersTyped, Jobs
  <2> QED BY <1>0, <1>5, <2>2, <2>3, <1>s DEF SweepFails, DataTyped
<1>6. ASSUME NEW h \in Handlers, SweepEnds(h) PROVE TypeOK'
  <2>1. \/ job' = job
        \/ job' = [job EXCEPT ![h] = [job[h] EXCEPT !.truncated = TRUE]]
    BY <1>6 DEF SweepEnds
  <2>2. job' \in [Handlers -> Jobs] /\ \A g \in Handlers : /\ job'[g].sid = job[g].sid
                                                          /\ job'[g].run = job[g].run
    <3>1. CASE job' = job
      BY <1>0, <3>1 DEF HandlersTyped
    <3>2. CASE job' = [job EXCEPT ![h] = [job[h] EXCEPT !.truncated = TRUE]]
      <4> DEFINE j == [job[h] EXCEPT !.truncated = TRUE]
      <4>1. j \in Jobs /\ j.sid = job[h].sid /\ j.run = job[h].run
        BY <1>0 DEF HandlersTyped, Jobs
      <4>2. job' = [job EXCEPT ![h] = j] /\ job \in [Handlers -> Jobs]
        BY <1>0, <3>2 DEF HandlersTyped
      <4> HIDE DEF j
      <4> QED BY <4>1, <4>2
    <3> QED BY <2>1, <3>1, <3>2
  <2>3. pc[h] = "sweep" /\ pc' = [pc EXCEPT ![h] = "plan"]
    BY <1>6 DEF SweepEnds, Goto
  <2>4. HandlersTyped'
    BY <1>0, <2>2, <2>3 DEF HandlersTyped, RunSteps
  <2> QED BY <1>0, <1>6, <2>4, <1>s DEF SweepEnds, DataTyped
<1>7. ASSUME NEW h \in Handlers, Admit(h) PROVE TypeOK'
  <2> DEFINE j == [NoJob EXCEPT !.sid = job[h].sid, !.run = job[h].run]
  <2>1. job[h] \in Jobs /\ job[h].sid \in Sids /\ job[h].run # EarlierRun
    BY <1>0, <1>7 DEF Admit, Goto, HandlersTyped
  <2>2. JobFits(j, "run")
    <3>1. j = [sid |-> job[h].sid, run |-> job[h].run, moment |-> 0, queue |-> {},
               removed |-> 0, truncated |-> FALSE, gone |-> {}, stuck |-> {}]
      BY JobShape
    <3> HIDE DEF j
    <3> QED BY <2>1, <3>1, ClockTyped DEF JobFits, Jobs
  <2>3. job' = [job EXCEPT ![h] = j] /\ pc' = [pc EXCEPT ![h] = "run"]
    BY <1>7 DEF Admit, Goto
  <2>4. HandlersTyped'
    <3> HIDE DEF j
    <3> QED BY <2>2, <2>3, HandlerTyped DEF RunSteps
  <2> QED BY <1>0, <1>7, <2>4, <1>s DEF Admit, DataTyped
<1>8. ASSUME NEW h \in Handlers, WriteArtifacts(h) \/ WriteManifest(h) PROVE TypeOK'
  <2>1. pc[h] = "run" /\ Write(h)
    BY <1>8 DEF WriteArtifacts, WriteManifest, Goto
  <2>2. [run |-> job[h].run, at |-> clock] \in Files /\ job[h].sid \in Sids
    BY <1>0, <2>1, FileTyped DEF HandlersTyped
  <2>3. tree' \in [Sids -> SUBSET Files]
    BY <1>0, <2>1, <2>2 DEF Write, DataTyped
  <2>4. HandlersTyped'
    BY <1>0, <1>8, StepTyped DEF WriteArtifacts, WriteManifest, HandlersTyped, RunSteps
  <2> QED BY <1>0, <1>8, <2>3, <2>4, <1>s DEF WriteArtifacts, WriteManifest, DataTyped
<1>9. ASSUME NEW h \in Handlers, PipelineFails(h) PROVE TypeOK'
  <2>1. HandlersTyped'
    BY <1>9, StepTyped DEF PipelineFails, RunSteps
  <2> QED BY <1>0, <1>9, <2>1, <1>s DEF PipelineFails, DataTyped
<1>10. ASSUME NEW h \in Handlers, Persist(h) PROVE TypeOK'
  <2>1. HandlersTyped'
    BY <1>10, StepTyped DEF Persist, RunSteps
  <2>2. job[h].run \in Runs \ {EarlierRun}
    BY <1>0, <1>10 DEF Persist, Goto, HandlersTyped, Jobs
  <2> QED BY <1>0, <1>10, <2>1, <2>2, <1>s DEF Persist, DataTyped
<1>11. ASSUME NEW h \in Handlers, Record(h) PROVE TypeOK'
  <2>1. HandlersTyped'
    BY <1>11, StepTyped DEF Record, RunSteps
  <2>2. job[h].run \in Runs \ {EarlierRun} /\ job[h].sid \in Sids
    BY <1>0, <1>11 DEF Record, Return, Goto, HandlersTyped, Jobs
  <2>3. index' \in [Sids -> Seq(Runs \ {EarlierRun})]
    BY <1>0, <1>11, <2>2 DEF Record, DataTyped
  <2> QED BY <1>0, <1>11, <2>1, <2>3, <1>s DEF Record, DataTyped
<1>12. ASSUME NEW h \in Handlers, NEW asked \in Sids, BeginEnd(h, asked) PROVE TypeOK'
  <2>1. HandlersTyped' /\ calls' \in 0..MaxCalls
    BY <1>12, BeginTyped DEF BeginEnd, EndSteps
  <2>2. index' \in [Sids -> Seq(Runs \ {EarlierRun})]
    BY <1>0, <1>12 DEF BeginEnd, DataTyped
  <2> QED BY <1>0, <1>12, <2>1, <2>2, <1>s DEF BeginEnd, DataTyped, NoteOverlap
<1>13. ASSUME NEW h \in Handlers, Discard(h) \/ DeleteRows(h) PROVE TypeOK'
  <2>1. HandlersTyped'
    BY <1>13, StepTyped DEF Discard, DeleteRows, EndSteps
  <2> QED BY <1>0, <1>13, <2>1, <1>s DEF Discard, DeleteRows, DataTyped
<1>14. ASSUME NEW h \in Handlers, Close(h) PROVE TypeOK'
  <2>1. HandlersTyped'
    BY <1>14, StepTyped DEF Close, EndSteps
  <2>2. job[h].sid \in Sids /\ NewSid \in Sids
    BY <1>0, <1>14, NewSidTyped DEF Close, Return, Goto, HandlersTyped
  <2> QED BY <1>0, <1>14, <2>1, <2>2, <1>s DEF Close, DataTyped
<1>15. CASE Tick
  BY <1>0, <1>15, ClockTyped, <1>s DEF Tick, DataTyped, HandlersTyped
<1>16. CASE UNCHANGED vars
  BY <1>0, <1>16, <1>s DEF vars, DataTyped, HandlersTyped
<1> QED
  BY <1>1, <1>2, <1>3, <1>4, <1>5, <1>6, <1>7, <1>8, <1>9, <1>10, <1>11, <1>12, <1>13,
     <1>14, <1>15, <1>16 DEF Next, Step, Rest

\* Sessions, files, rows, the index and the callbacks' locals keep their types.
THEOREM TypeCorrect == Spec => []TypeOK
  BY TypeInit, TypeNext, PTL DEF Spec

-------------------------------------------------------------------------------
(* The run ceiling.  A handler between its check and its record will count *)
(* its run whatever the index says by then: the invariant counts it first. *)

Started(s) == {h \in Handlers : pc[h] \in {"run", "persist", "record"} /\ job[h].sid = s}

CeilingInv ==
    \A s \in Sids :
        Len(index[s]) + Cardinality(Started(s)) < MaxRuns + Cardinality(Handlers)

\* The started runs of a session are no more than there are handlers.
LEMMA StartedCounts ==
    ASSUME NEW s
    PROVE  /\ IsFiniteSet(Started(s)) /\ Cardinality(Started(s)) \in Nat
           /\ Cardinality(Handlers) \in Nat
           /\ Cardinality(Started(s)) <= Cardinality(Handlers)
<1>1. Started(s) \in SUBSET Handlers
  BY DEF Started
<1> QED BY <1>1, HandlersFinite, FS_Subset, FS_CardinalityType

\* A step that starts no run of the session and records none keeps its bound.
LEMMA NothingStarted ==
    ASSUME NEW s \in Sids, Started(s)' \subseteq Started(s)
    PROVE  Cardinality(Started(s)') \in Nat
           /\ Cardinality(Started(s)') <= Cardinality(Started(s))
<1> DEFINE new == Started(s)'
<1>1. new \in SUBSET Started(s)
  OBVIOUS
<1> HIDE DEF new
<1>2. Cardinality(new) \in Nat /\ Cardinality(new) <= Cardinality(Started(s))
  BY <1>1, StartedCounts, FS_Subset, FS_CardinalityType
<1> QED BY <1>2 DEF new

\* Every step keeps the ceiling, started runs included.
LEMMA CeilingNext == TypeOK /\ CeilingInv /\ [Next]_vars => CeilingInv'
<1> SUFFICES ASSUME TypeOK, CeilingInv, [Next]_vars, NEW s \in Sids
             PROVE  Len(index'[s]) + Cardinality(Started(s)')
                        < MaxRuns + Cardinality(Handlers)
  BY DEF CeilingInv
<1> USE DEF registry, kept, history
<1>1. /\ Len(index[s]) + Cardinality(Started(s)) < MaxRuns + Cardinality(Handlers)
      /\ Len(index[s]) \in Nat /\ MaxRuns \in Nat \ {0}
      /\ Cardinality(Started(s)) \in Nat /\ Cardinality(Handlers) \in Nat
  BY StartedCounts, PolicyTyped DEF CeilingInv, TypeOK
<1>2. ASSUME Started(s)' \subseteq Started(s), index'[s] = index[s] \/ index'[s] = <<>>
      PROVE  Len(index'[s]) + Cardinality(Started(s)')
                 < MaxRuns + Cardinality(Handlers)
  <2>1. Cardinality(Started(s)') \in Nat
        /\ Cardinality(Started(s)') <= Cardinality(Started(s))
    BY <1>2, NothingStarted
  <2>2. Len(index'[s]) \in Nat /\ Len(index'[s]) <= Len(index[s])
    BY <1>1, <1>2
  <2> QED BY <1>1, <2>1, <2>2
<1>3. ASSUME NEW h \in Handlers, NEW asked \in Sids, BeginRun(h, asked)
      PROVE  Started(s)' \subseteq Started(s) /\ index' = index
  BY <1>3 DEF BeginRun, Begin, Goto, Started, TypeOK
<1>4. ASSUME NEW h \in Handlers, NEW asked \in Sids, BeginEnd(h, asked)
      PROVE  Started(s)' \subseteq Started(s)
             /\ (index'[s] = index[s] \/ index'[s] = <<>>)
  BY <1>4 DEF BeginEnd, Begin, Goto, Started, TypeOK
<1>5. ASSUME NEW h \in Handlers, Refuse(h) \/ PipelineFails(h) \/ Close(h)
      PROVE  Started(s)' \subseteq Started(s) /\ index' = index
  BY <1>5 DEF Refuse, PipelineFails, Close, Return, Goto, Started, TypeOK
<1>6. ASSUME NEW h \in Handlers, ListCandidates(h) \/ SweepEnds(h)
      PROVE  Started(s)' \subseteq Started(s) /\ index' = index
  BY <1>6 DEF ListCandidates, SweepEnds, Goto, Started, TypeOK, Jobs
<1>7. ASSUME NEW h \in Handlers, NEW c \in job[h].queue,
             SweepRemoves(h, c) \/ SweepFails(h, c)
      PROVE  Started(s)' \subseteq Started(s) /\ index' = index
  BY <1>7 DEF SweepRemoves, SweepFails, Started, TypeOK, Jobs
<1>8. ASSUME NEW h \in Handlers,
             WriteArtifacts(h) \/ WriteManifest(h) \/ Persist(h) \/ Discard(h)
             \/ DeleteRows(h)
      PROVE  Started(s)' \subseteq Started(s) /\ index' = index
  BY <1>8 DEF WriteArtifacts, WriteManifest, Persist, Discard, DeleteRows, Goto,
              Started, TypeOK
<1>9. ASSUME NEW h \in Handlers, Admit(h)
      PROVE  Len(index'[s]) + Cardinality(Started(s)')
                 < MaxRuns + Cardinality(Handlers)
  <2>1. CASE job[h].sid = s
    <3>1. Cardinality(Started(s)') \in Nat
          /\ Cardinality(Started(s)') <= Cardinality(Handlers)
      <4> DEFINE new == Started(s)'
      <4>1. new \in SUBSET Handlers
        BY DEF Started
      <4> HIDE DEF new
      <4>2. Cardinality(new) \in Nat /\ Cardinality(new) <= Cardinality(Handlers)
        BY <4>1, HandlersFinite, FS_Subset, FS_CardinalityType
      <4> QED BY <4>2 DEF new
    <3>2. Len(index[s]) < MaxRuns /\ index' = index
      BY <1>9, <2>1 DEF Admit
    <3> QED BY <1>1, <3>1, <3>2
  <2>2. CASE job[h].sid # s
    <3>1. \A g \in Handlers : g # h => job'[g] = job[g] /\ pc'[g] = pc[g]
      BY <1>9 DEF Admit, Goto, TypeOK
    <3>2. job'[h].sid = job[h].sid
      BY <1>9 DEF Admit, NoJob, TypeOK
    <3>3. Started(s)' \subseteq Started(s)
      BY <2>2, <3>1, <3>2 DEF Started
    <3> QED BY <1>2, <1>9, <3>3 DEF Admit
  <2> QED BY <2>1, <2>2
<1>10. ASSUME NEW h \in Handlers, Record(h)
       PROVE  Len(index'[s]) + Cardinality(Started(s)')
                  < MaxRuns + Cardinality(Handlers)
  <2>1. \A g \in Handlers : g # h => job'[g] = job[g] /\ pc'[g] = pc[g]
    BY <1>10 DEF Record, Return, Goto, TypeOK
  <2>2. pc'[h] = "idle" /\ pc[h] = "record"
    BY <1>10 DEF Record, Return, Goto, TypeOK
  <2>3. Started(s)' = Started(s) \ {h}
    BY <2>1, <2>2 DEF Started
  <2>4. CASE job[h].sid = s
    <3>1. h \in Started(s)
      BY <2>2, <2>4 DEF Started
    <3>2. Cardinality(Started(s)') = Cardinality(Started(s)) - 1
      BY <2>3, <3>1, StartedCounts, FS_RemoveElement
    <3>3. index'[s] = Append(index[s], job[h].run)
      BY <1>10, <2>4 DEF Record, TypeOK
    <3>4. Len(index'[s]) = Len(index[s]) + 1
      BY <3>3 DEF TypeOK
    <3> QED BY <1>1, <3>2, <3>4
  <2>5. CASE job[h].sid # s
    <3>1. index'[s] = index[s]
      BY <1>10, <2>5 DEF Record, TypeOK
    <3> QED BY <1>2, <2>3, <3>1
  <2> QED BY <2>4, <2>5
<1>11. CASE Tick \/ UNCHANGED vars
  BY <1>2, <1>11 DEF Tick, vars, Started
<1> QED
  BY <1>2, <1>3, <1>4, <1>5, <1>6, <1>7, <1>8, <1>9, <1>10, <1>11 DEF Next, Step, Rest

\* A session's recorded runs pass max_runs_per_session by less than one per handler.
THEOREM RunCeiling == Spec => []RunsBounded
<1>1. Init => CeilingInv
  <2> SUFFICES ASSUME Init, NEW s \in Sids
               PROVE  Len(index[s]) + Cardinality(Started(s))
                          < MaxRuns + Cardinality(Handlers)
    BY DEF CeilingInv
  <2>1. Started(s) = {} /\ Len(index[s]) = 0
    BY DEF Init, Started
  <2> QED BY <2>1, StartedCounts, PolicyTyped, FS_EmptySet
<1>2. TypeOK /\ CeilingInv => RunsBounded
  BY StartedCounts, PolicyTyped DEF CeilingInv, RunsBounded, TypeOK
<1> QED BY <1>1, <1>2, CeilingNext, TypeCorrect, PTL DEF Spec

-------------------------------------------------------------------------------
(* What a sweep removes.  Its list goes out of date while it works; what   *)
(* stays true is that every file the list does not account for was written *)
(* after the sweep had taken the time.                                     *)

Listed ==
    \A h \in Handlers : pc[h] = "sweep" =>
        /\ job[h].moment <= clock
        /\ \A c \in job[h].queue : \A f \in tree[c.sid] :
               f.at <= c.newest \/ f.at >= job[h].moment

\* No file appears in a directory, except those written now.
OnlyNewFiles ==
    \A s \in Sids : \A f \in tree'[s] : f \in tree[s] \/ f.at = clock

\* A step of another kind than the sweep's own keeps every list accounted for.
LEMMA ListsStay ==
    ASSUME TypeOK, Listed, OnlyNewFiles, clock' \in Nat, clock <= clock',
           \A g \in Handlers : pc'[g] = "sweep" =>
               /\ pc[g] = "sweep" /\ job'[g].moment = job[g].moment
               /\ job'[g].queue \subseteq job[g].queue
    PROVE  Listed'
<1> SUFFICES ASSUME NEW h \in Handlers, pc'[h] = "sweep"
             PROVE  /\ job'[h].moment <= clock'
                    /\ \A c \in job'[h].queue : \A f \in tree'[c.sid] :
                           f.at <= c.newest \/ f.at >= job'[h].moment
  BY DEF Listed
<1>1. job[h].moment \in Nat /\ clock \in Nat /\ job[h].moment <= clock
  BY ClockTyped DEF TypeOK, Jobs, Listed
<1>2. ASSUME NEW c \in job[h].queue, NEW f \in tree'[c.sid]
      PROVE  f.at <= c.newest \/ f.at >= job[h].moment
  <2>1. c.sid \in Sids
    BY DEF TypeOK, Jobs, Listings
  <2>2. CASE f \in tree[c.sid]
    BY <2>2 DEF Listed
  <2>3. CASE f.at = clock
    BY <1>1, <2>3
  <2> QED BY <2>1, <2>2, <2>3 DEF OnlyNewFiles
<1> QED BY <1>1, <1>2

\* A round of the sweep's loop shortens its list, and nobody else moves.
LEMMA SweepMoves ==
    ASSUME TypeOK, NEW h \in Handlers, NEW c \in job[h].queue,
           SweepRemoves(h, c) \/ SweepFails(h, c)
    PROVE  /\ job'[h].queue = job[h].queue \ {c}
           /\ \A g \in Handlers : /\ pc'[g] = pc[g] /\ job'[g].moment = job[g].moment
                                  /\ job'[g].queue \subseteq job[g].queue
                                  /\ job'[g].sid = job[g].sid
<1>1. PICK n, G, K :
          job' = [job EXCEPT ![h] = [job[h] EXCEPT !.queue = job[h].queue \ {c},
                                                   !.removed = n, !.gone = G,
                                                   !.stuck = K]]
  <2>1. CASE SweepRemoves(h, c)
    <3> DEFINE G == job[h].gone \cup {d \in {c} : tree[c.sid] # {}}
    <3>1. job' = [job EXCEPT ![h] = [job[h] EXCEPT !.queue = job[h].queue \ {c},
                                       !.removed = job[h].removed + 1, !.gone = G]]
      BY <2>1 DEF SweepRemoves, TypeOK, Jobs
    <3>2. job' = [job EXCEPT ![h] = [job[h] EXCEPT !.queue = job[h].queue \ {c},
                                       !.removed = job[h].removed + 1, !.gone = G,
                                       !.stuck = job[h].stuck]]
      BY <3>1 DEF TypeOK, Jobs
    <3> HIDE DEF G
    <3> QED BY <3>2
  <2>2. CASE SweepFails(h, c)
    <3>1. job' = [job EXCEPT ![h] = [job[h] EXCEPT !.queue = job[h].queue \ {c},
                                       !.removed = job[h].removed - 1,
                                       !.stuck = job[h].stuck \cup {c}]]
      BY <2>2 DEF SweepFails, TypeOK, Jobs
    <3>2. job' = [job EXCEPT ![h] = [job[h] EXCEPT !.queue = job[h].queue \ {c},
                                       !.removed = job[h].removed - 1,
                                       !.gone = job[h].gone,
                                       !.stuck = job[h].stuck \cup {c}]]
      BY <3>1 DEF TypeOK, Jobs
    <3> QED BY <3>2
  <2> QED BY <2>1, <2>2
<1>2. pc' = pc
  BY DEF SweepRemoves, SweepFails
<1>3. job[h] \in Jobs /\ job \in [Handlers -> Jobs]
  BY DEF TypeOK
<1> QED BY <1>1, <1>2, <1>3 DEF Jobs

\* Every step keeps the lists accounted for.
LEMMA ListedNext == TypeOK /\ Listed /\ [Next]_vars => Listed'
<1> SUFFICES ASSUME TypeOK, Listed, [Next]_vars PROVE Listed'
  OBVIOUS
<1> USE DEF registry, kept, history
<1>0. clock \in Nat /\ clock <= clock
  BY ClockTyped DEF TypeOK
<1>1. ASSUME UNCHANGED <<tree, clock>>,
             \A g \in Handlers : pc'[g] = "sweep" =>
                 /\ pc[g] = "sweep" /\ job'[g].moment = job[g].moment
                 /\ job'[g].queue \subseteq job[g].queue
      PROVE  Listed'
  BY <1>0, <1>1, ListsStay DEF OnlyNewFiles
<1>2. ASSUME NEW h \in Handlers, NEW asked \in Sids,
             BeginRun(h, asked) \/ BeginEnd(h, asked)
      PROVE  Listed'
  BY <1>1, <1>2 DEF BeginRun, BeginEnd, Begin, Goto, TypeOK
<1>3. ASSUME NEW h \in Handlers, Refuse(h) \/ PipelineFails(h) \/ Record(h) \/ Close(h)
      PROVE  Listed'
  BY <1>1, <1>3 DEF Refuse, PipelineFails, Record, Close, Return, Goto, TypeOK
<1>4. ASSUME NEW h \in Handlers,
             SweepEnds(h) \/ Admit(h) \/ Persist(h) \/ DeleteRows(h)
      PROVE  Listed'
  BY <1>1, <1>4 DEF SweepEnds, Admit, Persist, DeleteRows, Goto, TypeOK
<1>5. ASSUME NEW h \in Handlers, ListCandidates(h) PROVE Listed'
  <2>1. \A c \in Candidates : \A f \in tree[c.sid] : f.at <= c.newest
    BY NewestFile DEF Candidates
  <2>2. job'[h].moment = clock /\ job'[h].queue = Candidates
    BY <1>5 DEF ListCandidates, TypeOK, Jobs
  <2>3. \A g \in Handlers : g # h => pc'[g] = pc[g] /\ job'[g] = job[g]
    BY <1>5 DEF ListCandidates, Goto, TypeOK
  <2>4. UNCHANGED <<tree, clock>>
    BY <1>5 DEF ListCandidates
  <2> QED BY <1>0, <2>1, <2>2, <2>3, <2>4 DEF Listed
<1>6. ASSUME NEW h \in Handlers, NEW c \in job[h].queue,
             SweepRemoves(h, c) \/ SweepFails(h, c)
      PROVE  Listed'
  <2>1. c.sid \in Sids
    BY DEF TypeOK, Jobs, Listings
  <2>2. OnlyNewFiles
    <3>1. PICK T : /\ \A f \in T : f \in tree[c.sid] \/ f.at = clock
                   /\ tree' = [tree EXCEPT ![c.sid] = T]
      <4>1. CASE SweepRemoves(h, c)
        BY <4>1 DEF SweepRemoves
      <4>2. CASE SweepFails(h, c) /\ tree' = tree
        <5>1. tree' = [tree EXCEPT ![c.sid] = tree[c.sid]]
          BY <2>1, <4>2 DEF TypeOK
        <5> QED BY <5>1
      <4>3. CASE SweepFails(h, c) /\ tree' # tree
        <5>1. PICK g \in Handlers :
                  tree' = [tree EXCEPT ![c.sid] = {[run |-> job[g].run, at |-> clock]}]
          BY <4>3 DEF SweepFails
        <5>2. \A f \in {[run |-> job[g].run, at |-> clock]} : f.at = clock
          OBVIOUS
        <5> QED BY <5>1, <5>2
      <4> QED BY <1>6, <4>1, <4>2, <4>3
    <3>2. \A t \in Sids : tree'[t] = IF t = c.sid THEN T ELSE tree[t]
      BY <3>1 DEF TypeOK
    <3> QED BY <3>1, <3>2 DEF OnlyNewFiles
  <2>3. \A g \in Handlers : /\ pc'[g] = pc[g] /\ job'[g].moment = job[g].moment
                            /\ job'[g].queue \subseteq job[g].queue
    BY <1>6, SweepMoves
  <2>4. clock' = clock
    BY <1>6 DEF SweepRemoves, SweepFails
  <2> QED BY <1>0, <2>2, <2>3, <2>4, ListsStay
<1>7. ASSUME NEW h \in Handlers, WriteArtifacts(h) \/ WriteManifest(h) \/ Discard(h)
      PROVE  Listed'
  <2>1. OnlyNewFiles
    <3>1. CASE WriteArtifacts(h) \/ WriteManifest(h)
      <4> DEFINE new == [run |-> job[h].run, at |-> clock]
                 T == {f \in tree[job[h].sid] : f.run # job[h].run} \cup {new}
      <4>1. tree' = [tree EXCEPT ![job[h].sid] = T]
        BY <3>1 DEF WriteArtifacts, WriteManifest, Write
      <4>2. \A f \in T : f \in tree[job[h].sid] \/ f.at = clock
        OBVIOUS
      <4> HIDE DEF T
      <4> QED BY <4>1, <4>2 DEF OnlyNewFiles, TypeOK
    <3>2. CASE Discard(h)
      BY <3>2 DEF Discard, OnlyNewFiles, TypeOK
    <3> QED BY <1>7, <3>1, <3>2
  <2>2. clock' = clock /\ job' = job
    BY <1>7 DEF WriteArtifacts, WriteManifest, Discard
  <2>3. \A g \in Handlers : pc'[g] = "sweep" => pc[g] = "sweep"
    BY <1>7 DEF WriteArtifacts, WriteManifest, Discard, Goto, TypeOK
  <2> QED BY <1>0, <2>1, <2>2, <2>3, ListsStay
<1>8. CASE Tick
  <2>1. OnlyNewFiles /\ clock' \in Nat /\ clock <= clock'
    BY <1>0, <1>8 DEF Tick, OnlyNewFiles
  <2> QED BY <1>8, <2>1, ListsStay DEF Tick
<1>9. CASE UNCHANGED vars
  BY <1>1, <1>9 DEF vars
<1> QED
  BY <1>2, <1>3, <1>4, <1>5, <1>6, <1>7, <1>8, <1>9 DEF Next, Step, Rest

\* The only steps that take a file away are the discard of its session and the
\* removal of an expired directory.
FreshFilesStep ==
    \A s \in Sids : \A f \in {g \in tree[s] : \A n \in tree'[s] : n.run # g.run} :
          \/ \E h \in Handlers : pc[h] = "discard" /\ pc'[h] # pc[h] /\ job[h].sid = s
          \/ \E h \in Handlers : /\ pc[h] = "sweep" /\ job'[h] # job[h]
                                 /\ clock - f.at > MaxAge \/ f.at >= job[h].moment

\* A file goes in no other way than through a discard or a sweep.
LEMMA FilesNext == TypeOK /\ Listed /\ [Next]_vars => FreshFilesStep
<1> SUFFICES ASSUME TypeOK, Listed, [Next]_vars, NEW s \in Sids, NEW f \in tree[s],
                    \A n \in tree'[s] : n.run # f.run
             PROVE
               \/ \E h \in Handlers : pc[h] = "discard" /\ pc'[h] # pc[h] /\ job[h].sid = s
               \/ \E h \in Handlers : /\ pc[h] = "sweep" /\ job'[h] # job[h]
                                      /\ clock - f.at > MaxAge \/ f.at >= job[h].moment
  BY DEF FreshFilesStep
<1> USE DEF registry, kept, history
<1>1. tree' # tree
  OBVIOUS
<1>2. ASSUME NEW h \in Handlers, WriteArtifacts(h) \/ WriteManifest(h) PROVE FALSE
  <2>1. Write(h)
    BY <1>2 DEF WriteArtifacts, WriteManifest
  <2>2. CASE job[h].sid = s
    <3>1. tree'[s] = {g \in tree[s] : g.run # job[h].run}
                         \cup {[run |-> job[h].run, at |-> clock]}
      BY <2>1, <2>2 DEF Write, TypeOK
    <3>2. CASE f.run # job[h].run
      BY <3>1, <3>2
    <3>3. CASE f.run = job[h].run
      <4>1. [run |-> job[h].run, at |-> clock] \in tree'[s]
        BY <3>1
      <4> QED BY <3>3, <4>1
    <3> QED BY <3>2, <3>3
  <2>3. CASE job[h].sid # s
    BY <2>1, <2>3 DEF Write, TypeOK
  <2> QED BY <2>2, <2>3
<1>3. ASSUME NEW h \in Handlers, Discard(h)
      PROVE  pc[h] = "discard" /\ pc'[h] # pc[h] /\ job[h].sid = s
  BY <1>3 DEF Discard, Goto, TypeOK
<1>4. ASSUME NEW h \in Handlers, NEW c \in job[h].queue,
             SweepRemoves(h, c) \/ SweepFails(h, c)
      PROVE  /\ pc[h] = "sweep" /\ job'[h] # job[h]
             /\ clock - f.at > MaxAge \/ f.at >= job[h].moment
  <2>1. pc[h] = "sweep" /\ Expired(h, c)
    BY <1>4 DEF SweepRemoves, SweepFails, NextExpired
  <2>2. c.sid = s
    BY <1>4 DEF SweepRemoves, SweepFails, TypeOK
  <2>3. job'[h] # job[h]
    <3>1. job'[h].queue = job[h].queue \ {c}
      BY <1>4, SweepMoves
    <3> QED BY <3>1
  <2>4. job[h].moment <= clock /\ (f.at <= c.newest \/ f.at >= job[h].moment)
    BY <2>1, <2>2 DEF Listed
  <2>5. /\ f.at \in Int /\ c.newest \in Int /\ clock \in Int
        /\ job[h].moment \in Int /\ MaxAge \in Int
    BY ClockTyped, PolicyTyped DEF TypeOK, Jobs, Listings, Files
  <2> QED BY <2>1, <2>3, <2>4, <2>5 DEF Expired
<1>5. ASSUME NEW h \in Handlers,
             \/ \E asked \in Sids : BeginRun(h, asked) \/ BeginEnd(h, asked)
             \/ Refuse(h) \/ ListCandidates(h) \/ SweepEnds(h) \/ Admit(h)
             \/ PipelineFails(h) \/ Persist(h) \/ Record(h) \/ DeleteRows(h) \/ Close(h)
      PROVE  FALSE
  BY <1>1, <1>5 DEF BeginRun, BeginEnd, Refuse, ListCandidates, SweepEnds, Admit,
                    PipelineFails, Persist, Record, DeleteRows, Close
<1>6. CASE Tick \/ UNCHANGED vars
  BY <1>1, <1>6 DEF Tick, vars
<1> QED BY <1>2, <1>3, <1>4, <1>5, <1>6 DEF Next, Step, Rest

\* No sweep takes a file that is younger than the window and older than itself.
THEOREM FreshFilesAreKept == Spec => FreshFilesKept
<1>1. Init => Listed
  BY DEF Init, Listed
<1>2. TypeOK /\ Listed /\ [Next]_vars => [FreshFilesStep]_vars
  BY FilesNext
<1>3. Spec => [][FreshFilesStep]_vars
  BY <1>1, <1>2, ListedNext, TypeCorrect, PTL DEF Spec
<1> QED BY <1>3, PTL DEF FreshFilesKept, FreshFilesStep

-------------------------------------------------------------------------------
(* What an end leaves.  While end_session works its way through index,     *)
(* directory and rows, nothing may come back to what it has emptied, and a *)
(* closed session stays empty: for a session that no run shared with an    *)
(* end, runs are only at work while it is live.                            *)

NoFiles(s) == s \in Unremovable \/ tree[s] = {}

Calm(s) ==
    s \notin overlapped =>
        /\ \A h \in Handlers : pc[h] \in RunSteps /\ job[h].sid = s =>
               s \in live /\ \A g \in Handlers : pc[g] \in EndSteps => job[g].sid # s
        /\ s \in ended => index[s] = <<>> /\ rows[s] = {} /\ NoFiles(s)
        /\ \A h \in Handlers : pc[h] \in EndSteps /\ job[h].sid = s =>
               /\ index[s] = <<>>
               /\ pc[h] \in {"rows", "close"} => NoFiles(s)
               /\ pc[h] = "close" => rows[s] = {}

EndInv == ended \cap live = {} /\ \A s \in Sids : Calm(s)

\* Steps of runs and of time leave a session calm: either they give it nothing
\* or they belong to a run of it.
LEMMA CalmStays ==
    ASSUME EndInv, NEW s \in Sids,
           UNCHANGED <<ended, overlapped, live>>,
           \A g \in Handlers :
               /\ pc'[g] \in RunSteps => pc[g] \in RunSteps /\ job'[g].sid = job[g].sid
               /\ pc'[g] \in EndSteps => pc[g] = pc'[g] /\ job'[g].sid = job[g].sid,
           \/ /\ index'[s] = index[s] /\ rows'[s] = rows[s]
              /\ tree'[s] = tree[s] \/ tree'[s] = {}
           \/ \E h \in Handlers : pc[h] \in RunSteps /\ job[h].sid = s
    PROVE  Calm(s)'
<1> SUFFICES ASSUME s \notin overlapped' PROVE Calm(s)'
  BY DEF Calm
<1>1. Calm(s) /\ s \notin overlapped
  BY DEF EndInv
<1>2. CASE index'[s] = index[s] /\ rows'[s] = rows[s]
           /\ (tree'[s] = tree[s] \/ tree'[s] = {})
  <2>1. NoFiles(s) => NoFiles(s)'
    BY <1>2 DEF NoFiles
  <2> QED BY <1>1, <1>2, <2>1 DEF Calm
<1>3. CASE \E h \in Handlers : pc[h] \in RunSteps /\ job[h].sid = s
  <2>1. s \in live /\ \A g \in Handlers : pc[g] \in EndSteps => job[g].sid # s
    BY <1>1, <1>3 DEF Calm
  <2>2. s \notin ended
    BY <2>1 DEF EndInv
  <2> QED BY <2>1, <2>2 DEF Calm
<1> QED BY <1>2, <1>3

\* A run begins: in a live session, and if an end is at work in it, they overlap.
LEMMA BeginRunCalm ==
    ASSUME TypeOK, EndInv, NEW h \in Handlers, NEW asked \in Sids, BeginRun(h, asked)
    PROVE  EndInv'
<1> DEFINE to == Resolved(asked)
<1>1. to \in live' /\ live \subseteq live' /\ ended' = ended
  BY DEF BeginRun, Resolved, registry, NoteOverlap
<1>2. live' \subseteq live \cup {NewSid} /\ (live' # live => NewSid \notin used)
  BY DEF BeginRun, registry
<1>3. ended' \cap live' = {}
  BY <1>1, <1>2 DEF EndInv, TypeOK
<1>4. /\ pc'[h] = "ask" /\ job'[h].sid = to
      /\ \A g \in Handlers : g # h => pc'[g] = pc[g] /\ job'[g] = job[g]
  <2>1. to \in Sids
    BY NewSidTyped DEF Resolved
  <2>2. job'[h].sid = to
    BY <2>1, BeginTyped DEF BeginRun, RunSteps
  <2> HIDE DEF to
  <2>3. Begin(h, "ask", to)
    BY DEF BeginRun, to
  <2> QED BY <2>2, <2>3 DEF Begin, Goto, TypeOK
<1>5. pc[h] = "idle" /\ UNCHANGED <<tree, index, rows>>
  BY DEF BeginRun, Begin, Goto, kept
<1>6. ASSUME NEW s \in Sids, s \notin overlapped' PROVE Calm(s)'
  <2>1. s \notin overlapped /\ Calm(s)
    BY <1>6 DEF EndInv, BeginRun, NoteOverlap
  <2>2. s = to => \A g \in Handlers : pc[g] \in EndSteps => job[g].sid # s
    BY <1>6 DEF BeginRun, NoteOverlap, Busy
  <2>3. \A g \in Handlers : pc'[g] \in EndSteps => g # h
    BY <1>4 DEF EndSteps
  <2>4. NoFiles(s)' = NoFiles(s)
    BY <1>5 DEF NoFiles
  <2> HIDE DEF to
  <2> QED BY <1>1, <1>4, <1>5, <2>1, <2>2, <2>3, <2>4 DEF Calm
<1> QED BY <1>3, <1>6 DEF EndInv, Calm

\* An end begins: it empties the index, and overlaps the runs at work.
LEMMA BeginEndCalm ==
    ASSUME TypeOK, EndInv, NEW h \in Handlers, NEW asked \in Sids, BeginEnd(h, asked)
    PROVE  EndInv'
<1>1. UNCHANGED <<live, ended, tree, rows>>
  BY DEF BeginEnd, registry, NoteOverlap
<1>2. /\ pc'[h] = "discard" /\ job'[h].sid = asked /\ pc[h] = "idle"
      /\ \A g \in Handlers : g # h => pc'[g] = pc[g] /\ job'[g] = job[g]
  <2>1. job'[h].sid = asked
    BY BeginTyped DEF BeginEnd, EndSteps
  <2> QED BY <2>1 DEF BeginEnd, Begin, Goto, TypeOK
<1>3. \A s \in Sids : index'[s] = IF s = asked THEN <<>> ELSE index[s]
  BY DEF BeginEnd, TypeOK
<1>4. ASSUME NEW s \in Sids, s \notin overlapped' PROVE Calm(s)'
  <2>1. s \notin overlapped /\ Calm(s)
    BY <1>4 DEF EndInv, BeginEnd, NoteOverlap
  <2>2. s = asked => \A g \in Handlers : pc[g] \in RunSteps => job[g].sid # s
    BY <1>4 DEF BeginEnd, NoteOverlap, Busy
  <2>3. \A g \in Handlers : pc'[g] \in RunSteps => g # h
    BY <1>2 DEF RunSteps
  <2>4. NoFiles(s)' = NoFiles(s)
    BY <1>1 DEF NoFiles
  <2> QED BY <1>1, <1>2, <1>3, <2>1, <2>2, <2>3, <2>4 DEF Calm
<1> QED BY <1>1, <1>4 DEF EndInv, Calm

\* The steps of an end empty one thing after the other, and close the session.
LEMMA EndCalm ==
    ASSUME TypeOK, EndInv, StoreOutcomes = {TRUE}, NEW h \in Handlers,
           Discard(h) \/ DeleteRows(h) \/ Close(h)
    PROVE  EndInv'
<1>0. job[h].sid \in Sids /\ pc[h] \in EndSteps
  BY DEF Discard, DeleteRows, Close, Return, Goto, TypeOK, EndSteps
<1>1. \A g \in Handlers : g # h => pc'[g] = pc[g] /\ job'[g] = job[g]
  BY DEF Discard, DeleteRows, Close, Return, Goto, TypeOK
<1>2. CASE Discard(h)
  <2>1. /\ UNCHANGED <<live, ended, overlapped, index, rows, job>>
        /\ pc[h] = "discard" /\ pc'[h] = "rows"
    BY <1>2 DEF Discard, registry, history, Goto, TypeOK
  <2>2. \A s \in Sids : NoFiles(s) => NoFiles(s)'
    BY <1>2 DEF Discard, NoFiles, TypeOK
  <2>3. NoFiles(job[h].sid)'
    BY <1>0, <1>2, <2>1 DEF Discard, NoFiles, TypeOK
  <2>4. ASSUME NEW s \in Sids PROVE Calm(s)'
    BY <1>1, <2>1, <2>2, <2>3 DEF EndInv, Calm, EndSteps, RunSteps
  <2> QED BY <2>1, <2>4 DEF EndInv
<1>3. CASE DeleteRows(h)
  <2>1. /\ UNCHANGED <<live, ended, overlapped, index, tree, job>>
        /\ pc[h] = "rows" /\ pc'[h] = "close"
    BY <1>3 DEF DeleteRows, registry, history, Goto, TypeOK
  <2>2. \A s \in Sids : rows'[s] = IF s = job[h].sid THEN {} ELSE rows[s]
    BY <1>3 DEF DeleteRows, TypeOK
  <2>3. \A s \in Sids : NoFiles(s)' = NoFiles(s)
    BY <2>1 DEF NoFiles
  <2>4. ASSUME NEW s \in Sids PROVE Calm(s)'
    BY <1>1, <2>1, <2>2, <2>3 DEF EndInv, Calm, EndSteps, RunSteps
  <2> QED BY <2>1, <2>4 DEF EndInv
<1>4. CASE Close(h)
  <2> DEFINE s0 == job[h].sid
  <2>1. /\ UNCHANGED <<overlapped, index, tree, rows>>
        /\ pc[h] = "close" /\ pc'[h] = "idle" /\ NewSid \notin used
        /\ live' = (live \ {s0}) \cup {NewSid} /\ ended' = ended \cup (live \cap {s0})
    BY <1>4 DEF Close, kept, Return, Goto, TypeOK
  <2>2. ended' \cap live' = {}
    BY <2>1 DEF EndInv, TypeOK
  <2>3. \A s \in Sids : NoFiles(s)' = NoFiles(s)
    BY <2>1 DEF NoFiles
  <2>4. ASSUME NEW s \in Sids, s \notin overlapped PROVE Calm(s)'
    <3>1. Calm(s)
      BY DEF EndInv
    <3>2. s = s0 => index[s] = <<>> /\ rows[s] = {} /\ NoFiles(s)
      BY <1>0, <2>1, <2>4, <3>1 DEF Calm
    <3>3. s = s0 => \A g \in Handlers : pc[g] \in RunSteps => job[g].sid # s
      BY <1>0, <2>4, <3>1 DEF Calm
    <3>4. \A g \in Handlers : pc'[g] \in RunSteps \cup EndSteps => g # h
      BY <2>1 DEF RunSteps, EndSteps
    <3> HIDE DEF s0
    <3> QED BY <1>1, <2>1, <2>3, <2>4, <3>1, <3>2, <3>3, <3>4 DEF Calm
  <2> QED BY <2>1, <2>2, <2>4 DEF EndInv, Calm
<1> QED BY <1>2, <1>3, <1>4

\* Every step keeps every session calm.
LEMMA EndNext ==
    ASSUME StoreOutcomes = {TRUE}, TypeOK, EndInv, [Next]_vars
    PROVE  EndInv'
<1> USE DEF registry, kept, history
<1>1. ASSUME UNCHANGED <<live, ended>>, \A s \in Sids : Calm(s)' PROVE EndInv'
  BY <1>1 DEF EndInv
<1>2. ASSUME NEW h \in Handlers, Refuse(h) \/ PipelineFails(h) \/ Record(h)
      PROVE  EndInv'
  <2>1. /\ UNCHANGED <<live, ended, overlapped, tree, rows>>
        /\ pc[h] \in RunSteps /\ pc'[h] = "idle"
        /\ \A g \in Handlers : g # h => pc'[g] = pc[g] /\ job'[g] = job[g]
    BY <1>2 DEF Refuse, PipelineFails, Record, Return, Goto, TypeOK, RunSteps
  <2>2. \A s \in Sids : index'[s] = index[s] \/ s = job[h].sid
    BY <1>2 DEF Refuse, PipelineFails, Record, TypeOK
  <2>3. "idle" \notin RunSteps /\ "idle" \notin EndSteps
    BY DEF RunSteps, EndSteps
  <2> QED BY <1>1, <2>1, <2>2, <2>3, CalmStays
<1>3. ASSUME NEW h \in Handlers,
             \/ ListCandidates(h) \/ SweepEnds(h) \/ Admit(h)
             \/ WriteArtifacts(h) \/ WriteManifest(h) \/ Persist(h)
      PROVE  EndInv'
  <2>1. /\ UNCHANGED <<live, ended, overlapped, index>>
        /\ pc[h] \in RunSteps /\ pc'[h] \in RunSteps
        /\ \A g \in Handlers : g # h => pc'[g] = pc[g] /\ job'[g] = job[g]
    BY <1>3 DEF ListCandidates, SweepEnds, Admit, WriteArtifacts, WriteManifest, Persist,
                Goto, TypeOK, RunSteps
  <2>2. job'[h].sid = job[h].sid
    <3>1. CASE Admit(h)
      BY <3>1 DEF Admit, NoJob, TypeOK
    <3>2. CASE ~Admit(h)
      BY <1>3, <3>2 DEF ListCandidates, SweepEnds, WriteArtifacts, WriteManifest,
                        Persist, TypeOK, Jobs
    <3> QED BY <3>1, <3>2
  <2>3. \A s \in Sids : (tree'[s] = tree[s] /\ rows'[s] = rows[s]) \/ s = job[h].sid
    BY <1>3 DEF ListCandidates, SweepEnds, Admit, WriteArtifacts, WriteManifest, Persist,
                Write, TypeOK
  <2>4. RunSteps \cap EndSteps = {}
    BY DEF RunSteps, EndSteps
  <2> QED BY <1>1, <2>1, <2>2, <2>3, <2>4, CalmStays
<1>4. ASSUME NEW h \in Handlers, NEW c \in job[h].queue,
             SweepRemoves(h, c) \/ SweepFails(h, c)
      PROVE  EndInv'
  <2>1. UNCHANGED <<live, ended, overlapped, index, rows, pc>>
    BY <1>4 DEF SweepRemoves, SweepFails
  <2>2. \A g \in Handlers : pc'[g] = pc[g] /\ job'[g].sid = job[g].sid
    BY <1>4, SweepMoves
  <2>3. \A s \in Sids : \/ tree'[s] = tree[s] \/ tree'[s] = {}
                        \/ \E g \in Handlers : pc[g] \in RunSteps /\ job[g].sid = s
    <3>1. CASE SweepRemoves(h, c)
      BY <3>1 DEF SweepRemoves, TypeOK
    <3>2. CASE SweepFails(h, c)
      BY <3>2 DEF SweepFails, TypeOK, RunSteps
    <3> QED BY <1>4, <3>1, <3>2
  <2> QED BY <1>1, <2>1, <2>2, <2>3, CalmStays
<1>5. CASE Tick \/ UNCHANGED vars
  BY <1>1, <1>5, CalmStays DEF Tick, vars
<1> QED
  BY <1>2, <1>3, <1>4, <1>5, BeginRunCalm, BeginEndCalm, EndCalm DEF Next, Step, Rest

\* If the stores do not fail, an ended session that shared no moment of its end
\* with one of its runs has nothing of a run left.
THEOREM EndsAreClean ==
    ASSUME StoreOutcomes = {TRUE}
    PROVE  Spec => []EndedLeavesNoRuns
<1>1. Init => EndInv
  BY DEF Init, EndInv, Calm, RunSteps, EndSteps
<1>2. TypeOK /\ EndInv /\ [Next]_vars => EndInv'
  BY EndNext
<1>3. TypeOK /\ EndInv => EndedLeavesNoRuns
  BY DEF EndInv, Calm, EndedLeavesNoRuns, NoFiles, TypeOK
<1> QED BY <1>1, <1>2, <1>3, TypeCorrect, PTL DEF Spec
-------------------------------------------------------------------------------
(* What a sweep leaves.  A directory it may remove is empty, was written   *)
(* after the sweep had taken the time, or is still the one it listed and   *)
(* on its list: whoever empties a directory leaves nothing old in it.      *)

\* The books of one sweep; they depend on its handler alone.
Account(h) ==
    /\ pc[h] \notin {"sweep", "plan"} => job[h].gone = {} /\ job[h].stuck = {}
    /\ IsFiniteSet(job[h].gone) /\ IsFiniteSet(job[h].stuck)
    /\ job[h].stuck \cap job[h].queue = {}
    /\ job[h].removed <= SweepMax
    /\ Cardinality(job[h].gone) <= job[h].removed + Cardinality(job[h].stuck)
    /\ \A c \in job[h].gone, d \in job[h].queue : c.newest <= d.newest
    /\ pc[h] = "plan" => job[h].truncated \/ NextExpired(h) = {}

WrittenSince(s, t) == \E f \in tree[s] : f.at >= t
OnList(h, s)       == \E c \in job[h].queue : c.sid = s /\ c.newest = Newest(s)

Watched(h) ==
    pc[h] \in {"sweep", "plan"} =>
        /\ job[h].moment <= clock
        /\ \A s \in Sids \ Unremovable :
               tree[s] = {} \/ WrittenSince(s, job[h].moment) \/ OnList(h, s)

SweepInv == \A h \in Handlers : Account(h) /\ Watched(h)

\* A directory stays as it is, is emptied, or holds a file written now.
Rewritten(s) == tree'[s] = tree[s] \/ tree'[s] = {} \/ \E f \in tree'[s] : f.at = clock

\* No step does anything else to a directory.
LEMMA TreeChanges ==
    ASSUME TypeOK, [Next]_vars, NEW s \in Sids
    PROVE  Rewritten(s)
<1> USE DEF registry, kept, history
<1>1. CASE UNCHANGED tree
  BY <1>1 DEF Rewritten
<1>2. ASSUME NEW h \in Handlers, WriteArtifacts(h) \/ WriteManifest(h)
      PROVE  Rewritten(s)
  <2>1. Write(h)
    BY <1>2 DEF WriteArtifacts, WriteManifest
  <2>2. CASE s = job[h].sid
    <3> DEFINE new == [run |-> job[h].run, at |-> clock]
    <3>1. new \in tree'[s]
      BY <2>1, <2>2 DEF Write, TypeOK
    <3>2. new.at = clock
      OBVIOUS
    <3> HIDE DEF new
    <3> QED BY <3>1, <3>2 DEF Rewritten
  <2>3. CASE s # job[h].sid
    BY <2>1, <2>3 DEF Write, TypeOK, Rewritten
  <2> QED BY <2>2, <2>3
<1>3. ASSUME NEW h \in Handlers, Discard(h) PROVE Rewritten(s)
  BY <1>3 DEF Discard, TypeOK, Rewritten
<1>4. ASSUME NEW h \in Handlers, NEW c \in job[h].queue, SweepRemoves(h, c)
      PROVE  Rewritten(s)
  BY <1>4 DEF SweepRemoves, TypeOK, Rewritten
<1>5. ASSUME NEW h \in Handlers, NEW c \in job[h].queue, SweepFails(h, c),
             tree' # tree
      PROVE  Rewritten(s)
  <2>1. PICK g \in Handlers :
            tree' = [tree EXCEPT ![c.sid] = {[run |-> job[g].run, at |-> clock]}]
    BY <1>5 DEF SweepFails
  <2>2. [run |-> job[g].run, at |-> clock].at = clock
    OBVIOUS
  <2>3. CASE s = c.sid
    <3>1. [run |-> job[g].run, at |-> clock] \in tree'[s]
      BY <2>1, <2>3 DEF TypeOK
    <3> QED BY <2>2, <3>1 DEF Rewritten
  <2>4. CASE s # c.sid
    BY <2>1, <2>4 DEF TypeOK, Rewritten
  <2> QED BY <2>3, <2>4
<1>6. ASSUME NEW h \in Handlers,
             \/ \E asked \in Sids : BeginRun(h, asked) \/ BeginEnd(h, asked)
             \/ Refuse(h) \/ ListCandidates(h) \/ SweepEnds(h) \/ Admit(h)
             \/ PipelineFails(h) \/ Persist(h) \/ Record(h) \/ DeleteRows(h) \/ Close(h)
      PROVE  UNCHANGED tree
  BY <1>6 DEF BeginRun, BeginEnd, Refuse, ListCandidates, SweepEnds, Admit,
              PipelineFails, Persist, Record, DeleteRows, Close
<1>7. CASE Tick \/ UNCHANGED vars
  BY <1>1, <1>7 DEF Tick, vars
<1> QED BY <1>1, <1>2, <1>3, <1>4, <1>5, <1>6, <1>7 DEF Next, Step, Rest

\* What a sweep watches stays watched while it keeps its list and its time.
LEMMA WatchStays ==
    ASSUME TypeOK, [Next]_vars, NEW h \in Handlers, Watched(h), clock <= clock',
           pc'[h] \in {"sweep", "plan"} =>
               /\ pc[h] \in {"sweep", "plan"}
               /\ job'[h].moment = job[h].moment /\ job'[h].queue = job[h].queue
    PROVE  Watched(h)'
<1> SUFFICES ASSUME pc'[h] \in {"sweep", "plan"}
             PROVE  /\ job'[h].moment <= clock'
                    /\ \A s \in Sids \ Unremovable :
                           \/ tree'[s] = {} \/ WrittenSince(s, job[h].moment)'
                           \/ OnList(h, s)'
  BY DEF Watched, WrittenSince
<1>1. /\ job[h].moment \in Int /\ clock \in Int /\ clock' \in Int
      /\ job[h].moment <= clock
  <2>1. TypeOK'
    BY TypeNext
  <2> QED BY <2>1, ClockTyped DEF TypeOK, Jobs, Watched
<1>2. ASSUME NEW s \in Sids \ Unremovable
      PROVE  tree'[s] = {} \/ WrittenSince(s, job[h].moment)' \/ OnList(h, s)'
  <2>1. CASE tree'[s] = tree[s]
    <3>1. Newest(s)' = Newest(s)
      BY <2>1 DEF Newest
    <3> QED BY <2>1, <3>1 DEF Watched, WrittenSince, OnList
  <2>2. CASE \E f \in tree'[s] : f.at = clock
    BY <1>1, <2>2 DEF WrittenSince
  <2> QED BY <2>1, <2>2, TreeChanges DEF Rewritten
<1> QED BY <1>1, <1>2

\* The books of a handler that does not move stay as they are.
LEMMA AccountStays ==
    ASSUME NEW h \in Handlers, Account(h), pc'[h] = pc[h], job'[h] = job[h]
    PROVE  Account(h)'
<1>1. NextExpired(h)' = NextExpired(h)
  BY DEF NextExpired, Expired
<1> QED BY <1>1 DEF Account

\* A callback that starts, returns or goes on to its pipeline keeps no books.
LEMMA NoAccount ==
    ASSUME NEW h \in Handlers, pc'[h] \notin {"sweep", "plan"},
           job'[h].gone = {}, job'[h].stuck = {}, job'[h].removed = 0
    PROVE  Account(h)'
<1>1. IsFiniteSet({}) /\ Cardinality({}) = 0
  BY FS_EmptySet
<1> QED BY <1>1, PolicyTyped DEF Account

\* The candidate the loop is at is expired and the oldest on the list.  It leaves the
\* list and counts as removed, or as one that withstood.
LEMMA RoundAccount ==
    ASSUME TypeOK, NEW h \in Handlers, NEW c \in job[h].queue, Account(h),
           SweepRemoves(h, c) \/ SweepFails(h, c)
    PROVE  Account(h)'
<1> DEFINE old == job[h]
           new == job'[h]
<1>1. /\ old.queue \subseteq Listings /\ old.removed \in Int /\ old \in Jobs
      /\ old.gone \subseteq Listings /\ old.stuck \subseteq Listings
      /\ \A d \in old.queue : d.newest \in Int /\ c.newest <= d.newest
      /\ pc[h] = "sweep" /\ pc'[h] = "sweep"
  BY DEF TypeOK, Jobs, Listings, SweepRemoves, SweepFails, NextExpired
<1>2. CASE SweepRemoves(h, c)
  <2> DEFINE taken == {d \in {c} : tree[c.sid] # {}}
  <2>1. new = [old EXCEPT !.queue = old.queue \ {c}, !.removed = old.removed + 1,
                          !.gone = old.gone \cup taken]
    BY <1>2 DEF SweepRemoves, TypeOK
  <2>2. /\ new.queue = old.queue \ {c} /\ new.removed = old.removed + 1
        /\ new.gone = old.gone \cup taken /\ new.stuck = old.stuck
    <3> HIDE DEF old, taken
    <3> QED BY <1>1, <2>1 DEF Jobs
  <2>3. old.removed + 1 <= SweepMax
    BY <1>1, <1>2, PolicyTyped DEF SweepRemoves
  <2>4. taken = {} \/ taken = {c}
    OBVIOUS
  <2>5. /\ IsFiniteSet(new.gone) /\ Cardinality(new.gone) <= Cardinality(old.gone) + 1
        /\ Cardinality(old.gone) \in Nat
    <3>1. IsFiniteSet(old.gone) /\ Cardinality(old.gone) \in Nat
      BY FS_CardinalityType DEF Account
    <3>2. CASE taken = {}
      <4>1. new.gone = old.gone
        BY <2>2, <3>2
      <4> HIDE DEF old, new, taken
      <4> QED BY <3>1, <4>1
    <3>3. CASE taken = {c}
      <4>1. new.gone = old.gone \cup {c}
        BY <2>2, <3>3
      <4> DEFINE G == old.gone
      <4>2. IsFiniteSet(G) /\ Cardinality(G) \in Nat
        BY <3>1
      <4> HIDE DEF old, new, taken, G
      <4>3. /\ IsFiniteSet(G \cup {c})
            /\ Cardinality(G \cup {c}) = IF c \in G THEN Cardinality(G) ELSE Cardinality(G) + 1
        BY <4>2, FS_AddElement
      <4>4. Cardinality(G \cup {c}) <= Cardinality(G) + 1
        BY <4>2, <4>3
      <4> QED BY <4>1, <4>2, <4>3, <4>4 DEF G
    <3> QED BY <2>4, <3>2, <3>3
  <2>6. Cardinality(old.stuck) \in Nat /\ Cardinality(new.gone) \in Int
    BY <2>5, FS_CardinalityType DEF Account
  <2>7. Cardinality(new.gone) <= new.removed + Cardinality(new.stuck)
    BY <1>1, <2>2, <2>5, <2>6 DEF Account
  <2>8. \A b \in new.gone, d \in new.queue : b.newest <= d.newest
    BY <1>1, <2>2, <2>4 DEF Account
  <2>9. IsFiniteSet(new.stuck) /\ new.stuck \cap new.queue = {}
    BY <2>2 DEF Account
  <2> QED BY <1>1, <2>2, <2>3, <2>5, <2>7, <2>8, <2>9 DEF Account
<1>3. CASE SweepFails(h, c)
  <2>1. new = [old EXCEPT !.queue = old.queue \ {c}, !.removed = old.removed - 1,
                          !.stuck = old.stuck \cup {c}]
    BY <1>3 DEF SweepFails, TypeOK
  <2>2. /\ new.queue = old.queue \ {c} /\ new.removed = old.removed - 1
        /\ new.gone = old.gone /\ new.stuck = old.stuck \cup {c}
    <3> HIDE DEF old
    <3> QED BY <1>1, <2>1 DEF Jobs
  <2>3. c \notin old.stuck /\ IsFiniteSet(old.stuck)
    BY DEF Account
  <2>4. /\ IsFiniteSet(new.stuck) /\ Cardinality(new.stuck) = Cardinality(old.stuck) + 1
        /\ Cardinality(old.stuck) \in Nat
    <3> HIDE DEF old, new
    <3>1. IsFiniteSet(old.stuck) /\ Cardinality(old.stuck) \in Nat
      BY <2>3, FS_CardinalityType
    <3>2. /\ IsFiniteSet(old.stuck \cup {c})
          /\ Cardinality(old.stuck \cup {c}) = Cardinality(old.stuck) + 1
      BY <2>3, <3>1, FS_AddElement
    <3> QED BY <2>2, <3>1, <3>2
  <2>5. Cardinality(old.gone) \in Nat
    BY FS_CardinalityType DEF Account
  <2>6. /\ new.removed <= SweepMax
        /\ Cardinality(new.gone) <= new.removed + Cardinality(new.stuck)
    BY <1>1, <2>2, <2>4, <2>5, PolicyTyped DEF Account
  <2>7. /\ IsFiniteSet(new.gone) /\ new.stuck \cap new.queue = {}
        /\ \A b \in new.gone, d \in new.queue : b.newest <= d.newest
    BY <2>2 DEF Account
  <2> QED BY <1>1, <2>4, <2>6, <2>7 DEF Account
<1> QED BY <1>2, <1>3

\* A directory a round takes off the list is empty, rewritten, or one that this process
\* may not remove.
LEMMA RoundWatched ==
    ASSUME TypeOK, [Next]_vars, NEW h \in Handlers, NEW c \in job[h].queue, Watched(h),
           SweepRemoves(h, c) \/ SweepFails(h, c)
    PROVE  Watched(h)'
<1>1. /\ pc[h] = "sweep" /\ clock' = clock
      /\ job'[h].queue = job[h].queue \ {c} /\ job'[h].moment = job[h].moment
      /\ job[h].moment <= clock
  BY SweepMoves DEF SweepRemoves, SweepFails, Watched
<1>2. ASSUME NEW s \in Sids \ Unremovable
      PROVE  tree'[s] = {} \/ WrittenSince(s, job[h].moment)' \/ OnList(h, s)'
  <2>1. CASE tree'[s] = tree[s] /\ s # c.sid
    <3>1. Newest(s)' = Newest(s)
      BY <2>1 DEF Newest
    <3> QED BY <1>1, <2>1, <3>1 DEF Watched, WrittenSince, OnList
  <2>2. CASE \E f \in tree'[s] : f.at = clock
    BY <1>1, <2>2 DEF WrittenSince
  <2>3. CASE s = c.sid
    <3>1. CASE SweepRemoves(h, c)
      BY <2>3, <3>1 DEF SweepRemoves, TypeOK
    <3>2. CASE SweepFails(h, c)
      <4>1. PICK g \in Handlers :
                tree' = [tree EXCEPT ![c.sid] = {[run |-> job[g].run, at |-> clock]}]
        BY <2>3, <3>2 DEF SweepFails
      <4>2. [run |-> job[g].run, at |-> clock] \in tree'[s]
        BY <2>3, <4>1 DEF TypeOK
      <4>3. [run |-> job[g].run, at |-> clock].at = clock
        OBVIOUS
      <4> QED BY <2>2, <4>2, <4>3
    <3> QED BY <3>1, <3>2
  <2> QED BY <2>1, <2>2, <2>3, TreeChanges DEF Rewritten
<1> QED BY <1>1, <1>2 DEF Watched, WrittenSince

\* A sweep starts with clean books and every directory on its list.
LEMMA SweepStarts ==
    ASSUME TypeOK, NEW h \in Handlers, Account(h), ListCandidates(h)
    PROVE  Account(h)' /\ Watched(h)'
<1>1. /\ pc[h] = "ask" /\ pc'[h] = "sweep" /\ tree' = tree /\ clock' = clock
      /\ job'[h].moment = clock /\ job'[h].queue = Candidates
      /\ job'[h].removed = job[h].removed
      /\ job'[h].gone = job[h].gone /\ job'[h].stuck = job[h].stuck
  BY DEF ListCandidates, Goto, TypeOK, Jobs, kept
<1>2. Account(h)'
  BY <1>1 DEF Account
<1>3. ASSUME NEW s \in Sids, tree[s] # {} PROVE OnList(h, s)'
  <2>1. [sid |-> s, newest |-> Newest(s)] \in Candidates
    BY <1>3 DEF Candidates
  <2>2. Newest(s)' = Newest(s)
    BY <1>1 DEF Newest
  <2> QED BY <1>1, <2>1, <2>2 DEF OnList
<1>4. Watched(h)'
  <2>1. clock \in Int
    BY ClockTyped DEF TypeOK
  <2> QED BY <1>1, <1>3, <2>1 DEF Watched
<1> QED BY <1>2, <1>4

\* The sweep ends because nothing expired is left, or says that it was cut short.
LEMMA SweepStops ==
    ASSUME TypeOK, NEW h \in Handlers, Account(h), SweepEnds(h)
    PROVE  /\ Account(h)' /\ pc[h] = "sweep"
           /\ job'[h].moment = job[h].moment /\ job'[h].queue = job[h].queue
<1>1. /\ pc[h] = "sweep" /\ pc'[h] = "plan" /\ job[h] \in Jobs
      /\ \/ NextExpired(h) = {} /\ job'[h] = job[h]
         \/ job'[h] = [job[h] EXCEPT !.truncated = TRUE]
  BY DEF SweepEnds, Goto, TypeOK
<1>2. /\ job'[h].moment = job[h].moment /\ job'[h].queue = job[h].queue
      /\ job'[h].removed = job[h].removed
      /\ job'[h].gone = job[h].gone /\ job'[h].stuck = job[h].stuck
      /\ job'[h].truncated = TRUE \/ NextExpired(h) = {}
  BY <1>1 DEF Jobs
<1>3. NextExpired(h)' = NextExpired(h)
  BY <1>2 DEF NextExpired, Expired
<1> QED BY <1>1, <1>2, <1>3 DEF Account

\* Every step keeps the books and the watch of every sweep.
LEMMA SweepNext == TypeOK /\ SweepInv /\ [Next]_vars => SweepInv'
<1> SUFFICES ASSUME TypeOK, SweepInv, [Next]_vars PROVE SweepInv'
  OBVIOUS
<1> USE DEF registry, kept, history
<1>0. clock \in Nat /\ \A h \in Handlers : Account(h) /\ Watched(h)
  BY ClockTyped DEF TypeOK, SweepInv
<1>1. ASSUME NEW h \in Handlers, Account(h)', Watched(h)', clock <= clock',
             \A g \in Handlers \ {h} : pc'[g] = pc[g] /\ job'[g] = job[g]
      PROVE  SweepInv'
  <2>1. ASSUME NEW g \in Handlers \ {h} PROVE Account(g)' /\ Watched(g)'
    BY <1>0, <1>1, <2>1, AccountStays, WatchStays
  <2> QED BY <1>1, <2>1 DEF SweepInv
<1>2. ASSUME clock <= clock', pc' = pc, job' = job PROVE SweepInv'
  <2>1. ASSUME NEW g \in Handlers PROVE Account(g)' /\ Watched(g)'
    BY <1>0, <1>2, <2>1, AccountStays, WatchStays
  <2> QED BY <2>1 DEF SweepInv
<1>3. ASSUME NEW h \in Handlers, pc'[h] \notin {"sweep", "plan"}, clock' = clock,
             job'[h].gone = {}, job'[h].stuck = {}, job'[h].removed = 0,
             \A g \in Handlers \ {h} : pc'[g] = pc[g] /\ job'[g] = job[g]
      PROVE  SweepInv'
  <2>1. Watched(h)'
    BY <1>3 DEF Watched
  <2> QED BY <1>0, <1>1, <1>3, <2>1, NoAccount
<1>4. ASSUME NEW h \in Handlers, NEW asked \in Sids,
             BeginRun(h, asked) \/ BeginEnd(h, asked)
      PROVE  SweepInv'
  <2>1. PICK s : /\ job' = [job EXCEPT ![h] = [NoJob EXCEPT !.sid = s, !.run = calls']]
                 /\ \E to \in {"ask", "discard"} : pc' = [pc EXCEPT ![h] = to]
    BY <1>4 DEF BeginRun, BeginEnd, Begin, Goto
  <2>2. job'[h].gone = {} /\ job'[h].stuck = {} /\ job'[h].removed = 0
    BY <2>1 DEF NoJob, TypeOK
  <2>3. clock' = clock
    BY <1>4 DEF BeginRun, BeginEnd
  <2>4. /\ pc'[h] \notin {"sweep", "plan"}
        /\ \A g \in Handlers \ {h} : pc'[g] = pc[g] /\ job'[g] = job[g]
    BY <2>1 DEF TypeOK
  <2> QED BY <1>3, <2>2, <2>3, <2>4
<1>5. ASSUME NEW h \in Handlers, Refuse(h) \/ PipelineFails(h) \/ Record(h) \/ Close(h)
      PROVE  SweepInv'
  <2>1. /\ job' = [job EXCEPT ![h] = NoJob] /\ pc' = [pc EXCEPT ![h] = "idle"]
        /\ clock' = clock
    BY <1>5 DEF Refuse, PipelineFails, Record, Close, Return, Goto
  <2>2. job'[h].gone = {} /\ job'[h].stuck = {} /\ job'[h].removed = 0
    BY <2>1 DEF NoJob, TypeOK
  <2>3. /\ pc'[h] \notin {"sweep", "plan"}
        /\ \A g \in Handlers \ {h} : pc'[g] = pc[g] /\ job'[g] = job[g]
    BY <2>1 DEF TypeOK
  <2> QED BY <1>3, <2>1, <2>2, <2>3
<1>6. ASSUME NEW h \in Handlers, Admit(h) PROVE SweepInv'
  <2>1. /\ job' = [job EXCEPT ![h] = [NoJob EXCEPT !.sid = job[h].sid,
                                                   !.run = job[h].run]]
        /\ pc' = [pc EXCEPT ![h] = "run"] /\ clock' = clock
    BY <1>6 DEF Admit, Goto
  <2>2. job'[h].gone = {} /\ job'[h].stuck = {} /\ job'[h].removed = 0
    BY <2>1 DEF NoJob, TypeOK
  <2>3. /\ pc'[h] \notin {"sweep", "plan"}
        /\ \A g \in Handlers \ {h} : pc'[g] = pc[g] /\ job'[g] = job[g]
    BY <2>1 DEF TypeOK
  <2> QED BY <1>3, <2>1, <2>2, <2>3
<1>7. ASSUME NEW h \in Handlers,
             \/ WriteManifest(h) \/ Persist(h) \/ Discard(h) \/ DeleteRows(h)
      PROVE  SweepInv'
  <2>1. /\ job' = job /\ clock' = clock
        /\ pc[h] \notin {"sweep", "plan"} /\ pc'[h] \notin {"sweep", "plan"}
        /\ \A g \in Handlers \ {h} : pc'[g] = pc[g]
    BY <1>7 DEF WriteManifest, Persist, Discard, DeleteRows, Goto, TypeOK
  <2>2. Account(h)' /\ Watched(h)'
    BY <1>0, <2>1 DEF Account, Watched
  <2> QED BY <1>0, <1>1, <2>1, <2>2
<1>8. ASSUME NEW h \in Handlers, ListCandidates(h) PROVE SweepInv'
  <2>1. /\ clock' = clock
        /\ \A g \in Handlers \ {h} : pc'[g] = pc[g] /\ job'[g] = job[g]
    BY <1>8 DEF ListCandidates, Goto, TypeOK
  <2> QED BY <1>0, <1>1, <1>8, <2>1, SweepStarts
<1>9. ASSUME NEW h \in Handlers, NEW c \in job[h].queue,
             SweepRemoves(h, c) \/ SweepFails(h, c)
      PROVE  SweepInv'
  <2>1. /\ clock' = clock
        /\ \A g \in Handlers \ {h} : pc'[g] = pc[g] /\ job'[g] = job[g]
    BY <1>9 DEF SweepRemoves, SweepFails, TypeOK
  <2>2. Account(h)' /\ Watched(h)'
    BY <1>0, <1>9, RoundAccount, RoundWatched
  <2> QED BY <1>0, <1>1, <2>1, <2>2
<1>10. ASSUME NEW h \in Handlers, SweepEnds(h) PROVE SweepInv'
  <2>1. /\ clock' = clock
        /\ \A g \in Handlers \ {h} : pc'[g] = pc[g] /\ job'[g] = job[g]
    BY <1>10 DEF SweepEnds, Goto, TypeOK
  <2>2. /\ Account(h)' /\ pc[h] = "sweep"
        /\ job'[h].moment = job[h].moment /\ job'[h].queue = job[h].queue
    BY <1>0, <1>10, SweepStops
  <2>3. Watched(h)'
    BY <1>0, <2>1, <2>2, WatchStays
  <2> QED BY <1>0, <1>1, <2>1, <2>2, <2>3
<1>11. ASSUME NEW h \in Handlers, WriteArtifacts(h) PROVE SweepInv'
  BY <1>0, <1>2, <1>11 DEF WriteArtifacts
<1>12. CASE Tick
  BY <1>0, <1>2, <1>12 DEF Tick
<1>13. CASE UNCHANGED vars
  BY <1>0, <1>2, <1>13 DEF vars
<1> QED
  BY <1>4, <1>5, <1>6, <1>7, <1>8, <1>9, <1>10, <1>11, <1>12, <1>13 DEF Next, Step, Rest

\* A list with an expired directory on it has an oldest one, which is expired too.
LEMMA OldestExpired ==
    ASSUME TypeOK, NEW h \in Handlers, NEW c \in job[h].queue, Expired(h, c)
    PROVE  NextExpired(h) # {}
<1> DEFINE Q == job[h].queue
           T == {d.newest : d \in Q}
           R == OpToRel(<, Nat)
<1>1. IsWellFoundedOn(R, Nat)
  BY NatLessThanWellFounded
<1>2. \A x, y \in Nat : y < x => <<y, x>> \in R
  BY DEF OpToRel
<1>3. /\ \A d \in Q : d.newest \in Nat
      /\ job[h].moment \in Int /\ c \in Q /\ MaxAge \in Int
  BY ClockTyped, PolicyTyped DEF TypeOK, Jobs, Listings
<1>4. T \subseteq Nat /\ T # {}
  <2> HIDE DEF Q
  <2> QED BY <1>3
<1>5. \E x \in T : \A y \in T : ~(<<y, x>> \in R)
  <2> HIDE DEF T, R
  <2> QED BY <1>1, <1>4, WFMin
<1>6. PICK x \in T : \A y \in T : ~(y < x)
  <2> HIDE DEF R
  <2> QED BY <1>2, <1>4, <1>5
<1>7. PICK d \in Q : x = d.newest
  <2> HIDE DEF Q
  <2> QED OBVIOUS
<1>8. ASSUME NEW e \in Q PROVE d.newest <= e.newest
  <2>1. e.newest \in T
    BY <1>8
  <2>2. ~(e.newest < d.newest)
    BY <1>6, <1>7, <2>1
  <2> HIDE DEF T, Q
  <2> QED BY <1>3, <2>2, <1>8
<1>9. Expired(h, d)
  <2>1. d.newest <= c.newest
    BY <1>3, <1>8
  <2> HIDE DEF T, Q
  <2> QED BY <1>3, <2>1 DEF Expired
<1> HIDE DEF T
<1> QED BY <1>8, <1>9 DEF NextExpired

\* When a sweep has ended, a removable directory that has expired is left only if
\* the sweep was cut short, and everything it removed was at least as old.
THEOREM SweepsReclaim == Spec => []SweepReclaims
<1>1. Init => SweepInv
  <2>1. IsFiniteSet({}) /\ Cardinality({}) = 0
    BY FS_EmptySet
  <2> SUFFICES ASSUME Init, NEW h \in Handlers PROVE Account(h) /\ Watched(h)
    BY DEF SweepInv
  <2>2. /\ pc[h] = "idle" /\ job[h].gone = {} /\ job[h].stuck = {}
        /\ job[h].removed = 0
    BY DEF Init, NoJob
  <2> QED BY <2>1, <2>2, PolicyTyped DEF Account, Watched
<1>2. TypeOK /\ SweepInv => SweepReclaims
  <2> SUFFICES ASSUME TypeOK, SweepInv, NEW h \in Handlers
               PROVE  /\ Cardinality(job[h].gone) <= SweepMax + Cardinality(job[h].stuck)
                      /\ pc[h] = "plan" =>
                           \A s \in Sids \ Unremovable :
                             tree[s] # {} /\ job[h].moment - Newest(s) > MaxAge =>
                               /\ job[h].truncated
                               /\ \A c \in job[h].gone : c.newest <= Newest(s)
    BY DEF SweepReclaims
  <2>0. Account(h) /\ Watched(h) /\ job[h].moment \in Int
    BY ClockTyped DEF SweepInv, TypeOK, Jobs
  <2>1. Cardinality(job[h].gone) <= SweepMax + Cardinality(job[h].stuck)
    <3>1. Cardinality(job[h].gone) \in Nat /\ Cardinality(job[h].stuck) \in Nat
      BY <2>0, FS_CardinalityType DEF Account
    <3> QED BY <2>0, <3>1, PolicyTyped DEF Account, TypeOK, Jobs
  <2>2. ASSUME pc[h] = "plan", NEW s \in Sids \ Unremovable, tree[s] # {},
               job[h].moment - Newest(s) > MaxAge
        PROVE  job[h].truncated /\ \A c \in job[h].gone : c.newest <= Newest(s)
    <3>1. Newest(s) \in Nat /\ \A f \in tree[s] : f.at \in Nat /\ f.at <= Newest(s)
      BY <2>2, NewestFile, ClockTyped DEF TypeOK, Files
    <3>2. ~WrittenSince(s, job[h].moment)
      BY <2>0, <2>2, <3>1, PolicyTyped DEF WrittenSince
    <3>3. PICK c \in job[h].queue : c.newest = Newest(s)
      BY <2>0, <2>2, <3>2 DEF Watched, OnList
    <3>4. NextExpired(h) # {}
      BY <2>2, <3>3, OldestExpired DEF Expired
    <3> QED BY <2>0, <2>2, <3>3, <3>4 DEF Account
  <2> QED BY <2>1, <2>2
<1> QED BY <1>1, <1>2, SweepNext, TypeCorrect, PTL DEF Spec
===============================================================================
