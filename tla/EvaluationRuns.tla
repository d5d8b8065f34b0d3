---------------------------- MODULE EvaluationRuns ----------------------------
(***************************************************************************)
(* Benchmark runs started from the browser: UIController.run_evaluation    *)
(* and end_session, UIEvaluationRunner.run and discard (app/evaluation.py) *)
(* and the retention sweep (app/retention.py), with several handler        *)
(* threads.  A run writes files under results/ui/<session>/<run>, then a   *)
(* row, then an entry of the in-memory index its session is limited by.    *)
(* Before it starts, it sweeps the directories of sessions whose newest    *)
(* file is older than the retention window.                                *)
(*                                                                         *)
(* A directory is the set of its runs, each with the time of its newest    *)
(* file; a directory that is not there holds none.                         *)
(***************************************************************************)
EXTENDS Integers, FiniteSets, FiniteSetsExt, Sequences

CONSTANTS
    Handlers,      \* handler threads
    Sids,          \* session identifiers
    Opened,        \* the sessions page loads opened before the first callback
    Abandoned,     \* sessions of an earlier process that left files behind
    Unremovable,   \* sessions whose directory this process may not remove
    MaxRuns,       \* EvaluationPolicy.max_runs_per_session
    MaxAge,        \* RetentionPolicy.max_age_seconds, in clock ticks
    SweepMax,      \* RetentionPolicy.max_sessions_per_sweep
    StoreOutcomes, \* subset of BOOLEAN: {TRUE} when deleting rows never fails
    NoSid,
    Epoch,         \* the time at which this process started
    MaxClock,      \* bound: time
    MaxCalls       \* bound: callbacks in a behaviour

ASSUME PolicyTyped == MaxRuns \in Nat \ {0} /\ SweepMax \in Nat \ {0} /\ MaxAge \in Nat \ {0}
ASSUME HandlersFinite == IsFiniteSet(Handlers)
ASSUME SessionsTyped == /\ Opened \subseteq Sids /\ Abandoned \subseteq Sids
                        /\ Opened \cap Abandoned = {} /\ NoSid \notin Sids
ASSUME ClockTyped  == Epoch \in Nat /\ MaxClock \in Nat /\ Epoch <= MaxClock
ASSUME CallsTyped  == MaxCalls \in Nat

VARIABLES
    live,       \* SessionManager._sessions
    used,       \* every identifier handed out so far, by any process
    tree,       \* results/ui/<session>: its runs and their newest files
    index,      \* UIEvaluationRunner._runs: the recorded runs of each session
    rows,       \* rows of the evaluation store, by session
    clock,
    pc, job,    \* where each handler stands, and its locals
    calls,      \* callbacks so far; a call's number names its run
    ended,      \* history: sessions whose end_session has closed them
    overlapped  \* history: sessions with a run and an end at the same time

registry == <<live, used>>
kept     == <<tree, index, rows>>
history  == <<ended, overlapped>>
vars     == <<registry, kept, clock, pc, job, calls, history>>

EarlierRun == 0
Runs  == 0..MaxCalls
Files == [run : Runs, at : 0..MaxClock]

\* moment, queue, removed and truncated are locals of sweep_results; gone and stuck are
\* history: the candidates this sweep really removed, and those that withstood it.
NoJob == [sid |-> NoSid, run |-> EarlierRun, moment |-> 0, queue |-> {}, removed |-> 0,
          truncated |-> FALSE, gone |-> {}, stuck |-> {}]

RunSteps == {"ask", "sweep", "plan", "run", "persist", "record"}
EndSteps == {"discard", "rows", "close"}

Init ==
    /\ live = Opened
    /\ used = Opened \cup Abandoned
    /\ \E written \in [Abandoned -> 0..Epoch] :
           tree = [s \in Sids |-> IF s \in Abandoned
                                  THEN {[run |-> EarlierRun, at |-> written[s]]} ELSE {}]
    /\ index = [s \in Sids |-> <<>>]
    /\ rows = [s \in Sids |-> {}]
    /\ clock = Epoch
    /\ pc = [h \in Handlers |-> "idle"]
    /\ job = [h \in Handlers |-> NoJob]
    /\ calls = 0
    /\ ended = {} /\ overlapped = {}

Goto(h, from, to) ==
    /\ pc[h] = from
    /\ pc' = [pc EXCEPT ![h] = to]

Return(h, from) ==
    /\ Goto(h, from, "idle")
    /\ job' = [job EXCEPT ![h] = NoJob]

\* Mutant: the first run gets the name of those of an earlier process.
Begin_FromZero(h, to, s) ==
    /\ calls < MaxCalls
    /\ Goto(h, "idle", to)
    /\ calls' = calls + 1
    /\ job' = [job EXCEPT ![h] = [NoJob EXCEPT !.sid = s, !.run = calls]]

Begin(h, to, s) ==
    /\ calls < MaxCalls
    /\ Goto(h, "idle", to)
    /\ calls' = calls + 1
    /\ job' = [job EXCEPT ![h] = [NoJob EXCEPT !.sid = s, !.run = calls']]

NewSid == CHOOSE s \in Sids : used # Sids => s \notin used
Resolved(asked) == IF asked \in live THEN asked ELSE NewSid

\* A handler works on session s at one of the given steps.
Busy(s, steps) == \E h \in Handlers : pc[h] \in steps /\ job[h].sid = s

\* History: a callback that arrives while one of the other kind is at work.
NoteOverlap(s, steps) ==
    /\ overlapped' = overlapped \cup {t \in {s} : Busy(t, steps)}
    /\ UNCHANGED ended

-------------------------------------------------------------------------------
(* run_evaluation: the session, then the sweep.                            *)

BeginRun(h, asked) ==
    /\ asked \in used
    /\ Begin(h, "ask", Resolved(asked))
    /\ IF asked \in live THEN UNCHANGED registry
       ELSE /\ NewSid \notin used
            /\ used' = used \cup {NewSid}
            /\ live' = live \cup {NewSid}
    /\ NoteOverlap(Resolved(asked), EndSteps)
    /\ UNCHANGED <<kept, clock>>

\* An EvaluationRequestError: generation without a key, before the sweep; a
\* preset, dataset or mode the policy does not allow, or the run ceiling, after.
Refuse(h) ==
    /\ \E step \in {"ask", "plan"} : Return(h, step)
    /\ UNCHANGED <<registry, kept, clock, calls, history>>

Newest(s) == Max({f.at : f \in tree[s]})

Candidates == {[sid |-> s, newest |-> Newest(s)] : s \in {t \in Sids : tree[t] # {}}}

\* sweep_results takes the time, then lists the directories with their ages.
ListCandidates(h) ==
    /\ Goto(h, "ask", "sweep")
    /\ job' = [job EXCEPT ![h].moment = clock, ![h].queue = Candidates]
    /\ UNCHANGED <<registry, kept, clock, calls, history>>

\* Mutant: a directory whose newest file is exactly at the window is swept.
Expired_AtWindow(h, c) == job[h].moment - c.newest >= MaxAge

Expired(h, c) == job[h].moment - c.newest > MaxAge

\* The next directory to remove: candidates are sorted by age, oldest first.
NextExpired(h) == {c \in job[h].queue : /\ Expired(h, c)
                                        /\ \A d \in job[h].queue : c.newest <= d.newest}

\* The loop reached the young directories, or the bound with one more to remove.
SweepEnds(h) ==
    /\ Goto(h, "sweep", "plan")
    /\ \/ NextExpired(h) = {} /\ UNCHANGED job
       \/ /\ NextExpired(h) # {} /\ job[h].removed >= SweepMax
          /\ job' = [job EXCEPT ![h].truncated = TRUE]
    /\ UNCHANGED <<registry, kept, clock, calls, history>>

\* A directory somebody else removed meanwhile counts as removed as well.
SweepRemoves(h, c) ==
    /\ pc[h] = "sweep" /\ job[h].removed < SweepMax
    /\ c \in NextExpired(h) /\ c.sid \notin Unremovable
    /\ tree' = [tree EXCEPT ![c.sid] = {}]
    /\ job' = [job EXCEPT ![h].queue = @ \ {c}, ![h].removed = @ + 1,
                          ![h].gone = @ \cup {d \in {c} : tree[c.sid] # {}}]
    /\ UNCHANGED <<registry, index, rows, clock, pc, calls, history>>

\* Mutant: a directory that cannot be removed ends the sweep.
SweepFails_Stops(h, c) ==
    /\ pc[h] = "sweep" /\ job[h].removed < SweepMax
    /\ c \in NextExpired(h) /\ c.sid \in Unremovable
    /\ job' = [job EXCEPT ![h].queue = {}]
    /\ UNCHANGED <<registry, kept, clock, pc, calls, history>>

\* The directory is still there after rmtree: it may not be removed, or a run
\* wrote to it in the meantime.  The code counts this as one removal less.
SweepFails(h, c) ==
    /\ pc[h] = "sweep" /\ job[h].removed < SweepMax
    /\ c \in NextExpired(h)
    /\ \/ c.sid \in Unremovable /\ UNCHANGED tree
       \/ /\ c.sid \notin Unremovable
          /\ \E g \in Handlers : pc[g] = "run" /\ job[g].sid = c.sid
                 /\ tree' = [tree EXCEPT ![c.sid] = {[run |-> job[g].run, at |-> clock]}]
    /\ job' = [job EXCEPT ![h].queue = @ \ {c}, ![h].removed = @ - 1,
                          ![h].stuck = @ \cup {c}]
    /\ UNCHANGED <<registry, index, rows, clock, pc, calls, history>>

-------------------------------------------------------------------------------
(* ... then the plan and the pipeline.                                     *)

\* Mutant: the ceiling itself still admits a run.
Admit_Above(h) ==
    /\ Goto(h, "plan", "run")
    /\ Len(index[job[h].sid]) <= MaxRuns
    /\ job' = [job EXCEPT ![h] = [NoJob EXCEPT !.sid = job[h].sid, !.run = job[h].run]]
    /\ UNCHANGED <<registry, kept, clock, calls, history>>

\* EvaluationPolicy.check counts the recorded runs.  The sweep's report goes no
\* further than the run's notes.
Admit(h) ==
    /\ Goto(h, "plan", "run")
    /\ Len(index[job[h].sid]) < MaxRuns
    /\ job' = [job EXCEPT ![h] = [NoJob EXCEPT !.sid = job[h].sid, !.run = job[h].run]]
    /\ UNCHANGED <<registry, kept, clock, calls, history>>

Write(h) ==
    tree' = [tree EXCEPT ![job[h].sid] = {f \in @ : f.run # job[h].run}
                                         \cup {[run |-> job[h].run, at |-> clock]}]

\* The pipeline makes its directories and writes artifacts, again and again;
\* the writers make a directory that is gone.
WriteArtifacts(h) ==
    /\ pc[h] = "run"
    /\ Write(h)
    /\ UNCHANGED <<registry, index, rows, clock, pc, job, calls, history>>

\* run_pipeline raises: nothing is recorded, what was written stays.
PipelineFails(h) ==
    /\ Return(h, "run")
    /\ UNCHANGED <<registry, kept, clock, calls, history>>

\* The manifest is the pipeline's last file.
WriteManifest(h) ==
    /\ Goto(h, "run", "persist")
    /\ Write(h)
    /\ UNCHANGED <<registry, index, rows, clock, job, calls, history>>

\* persist_run is best effort.
Persist(h) ==
    /\ Goto(h, "persist", "record")
    /\ \/ UNCHANGED rows
       \/ rows' = [rows EXCEPT ![job[h].sid] = @ \cup {job[h].run}]
    /\ UNCHANGED <<registry, tree, index, clock, job, calls, history>>

Record(h) ==
    /\ Return(h, "record")
    /\ index' = [index EXCEPT ![job[h].sid] = Append(@, job[h].run)]
    /\ UNCHANGED <<registry, tree, rows, clock, calls, history>>

-------------------------------------------------------------------------------
(* end_session, as far as runs are concerned.                              *)

\* discard forgets the index before anything else.
BeginEnd(h, asked) ==
    /\ asked \in used
    /\ Begin(h, "discard", asked)
    /\ index' = [index EXCEPT ![asked] = <<>>]
    /\ NoteOverlap(asked, RunSteps)
    /\ UNCHANGED <<registry, tree, rows, clock>>

\* Mutant: discard looks for the files of recorded runs only.
Discard_Recorded(h) ==
    /\ Goto(h, "discard", "rows")
    /\ tree' = [tree EXCEPT ![job[h].sid] = {f \in @ : f.run \notin rows[job[h].sid]}]
    /\ UNCHANGED <<registry, index, rows, clock, job, calls, history>>

\* rmtree with ignore_errors.
Discard(h) ==
    /\ Goto(h, "discard", "rows")
    /\ tree' = [tree EXCEPT ![job[h].sid] = IF job[h].sid \in Unremovable THEN @ ELSE {}]
    /\ UNCHANGED <<registry, index, rows, clock, job, calls, history>>

DeleteRows(h) ==
    /\ Goto(h, "rows", "close")
    /\ \E ok \in StoreOutcomes :
           rows' = [rows EXCEPT ![job[h].sid] = IF ok THEN {} ELSE @]
    /\ UNCHANGED <<registry, tree, index, clock, job, calls, history>>

\* sessions.end, then a new session for the tab.
Close(h) ==
    /\ Return(h, "close")
    /\ NewSid \notin used
    /\ used' = used \cup {NewSid}
    /\ live' = (live \ {job[h].sid}) \cup {NewSid}
    /\ ended' = ended \cup (live \cap {job[h].sid})
    /\ UNCHANGED <<kept, clock, calls, overlapped>>

-------------------------------------------------------------------------------
Tick ==
    /\ clock < MaxClock
    /\ clock' = clock + 1
    /\ UNCHANGED <<registry, kept, pc, job, calls, history>>

\* No visitor has to call anything again.
Rest == (\A h \in Handlers : pc[h] = "idle") /\ UNCHANGED vars

Step(h) ==
    \/ \E asked \in Sids : BeginRun(h, asked) \/ BeginEnd(h, asked)
    \/ Refuse(h)
    \/ ListCandidates(h)
    \/ \E c \in job[h].queue : SweepRemoves(h, c) \/ SweepFails(h, c)
    \/ SweepEnds(h)
    \/ Admit(h) \/ WriteArtifacts(h) \/ PipelineFails(h) \/ WriteManifest(h)
    \/ Persist(h) \/ Record(h)
    \/ Discard(h) \/ DeleteRows(h) \/ Close(h)

Next == (\E h \in Handlers : Step(h)) \/ Tick \/ Rest

Spec == Init /\ [][Next]_vars

-------------------------------------------------------------------------------
Listings == [sid : Sids, newest : 0..MaxClock]

Jobs == [sid : Sids \cup {NoSid}, run : Runs, moment : 0..MaxClock, queue : SUBSET Listings,
         removed : Int, truncated : BOOLEAN, gone : SUBSET Listings, stuck : SUBSET Listings]

TypeOK ==
    /\ live \subseteq used /\ used \subseteq Sids
    /\ tree \in [Sids -> SUBSET Files]
    /\ index \in [Sids -> Seq(Runs \ {EarlierRun})]
    /\ rows \in [Sids -> SUBSET (Runs \ {EarlierRun})]
    /\ clock \in Epoch..MaxClock
    /\ pc \in [Handlers -> {"idle"} \cup RunSteps \cup EndSteps]
    /\ job \in [Handlers -> Jobs]
    /\ \A h \in Handlers : pc[h] # "idle" => job[h].sid \in Sids /\ job[h].run # EarlierRun
    /\ calls \in 0..MaxCalls
    /\ ended \subseteq used /\ overlapped \subseteq used

\* Runs are counted when they end and checked when they start: handlers that
\* race may pass EvaluationPolicy.max_runs_per_session, by less than their
\* number.  With one handler the ceiling is exact.
RunsBounded ==
    \A s \in Sids : Len(index[s]) < MaxRuns + Cardinality(Handlers)

\* The files of a run leave the disk only when their session is ended, when they are
\* older than the retention window, or when one was written while a sweep that
\* had listed the directory before was at work.
FreshFilesKept ==
    [][\A s \in Sids : \A f \in {g \in tree[s] : \A n \in tree'[s] : n.run # g.run} :
          \/ \E h \in Handlers : pc[h] = "discard" /\ pc'[h] # pc[h] /\ job[h].sid = s
          \/ \E h \in Handlers : /\ pc[h] = "sweep" /\ job'[h] # job[h]
                                 /\ clock - f.at > MaxAge \/ f.at >= job[h].moment]_vars

\* When a sweep has ended, no removable directory that had expired is left,
\* unless the sweep hit its bound; then what it removed was at least as old.
\* A directory that cannot be removed does not stop the sweep; it lets it remove at most
\* one directory more than the bound, each (retention.py:325).
SweepReclaims ==
    \A h \in Handlers :
        /\ Cardinality(job[h].gone) <= SweepMax + Cardinality(job[h].stuck)
        /\ pc[h] = "plan" =>
               \A s \in Sids \ Unremovable :
                   tree[s] # {} /\ job[h].moment - Newest(s) > MaxAge =>
                       job[h].truncated /\ \A c \in job[h].gone : c.newest <= Newest(s)

\* A closed session has no file, row or entry of a run, provided none of its
\* runs was at work while it was ended.
EndedLeavesNoRuns ==
    \A s \in ended \ overlapped :
        index[s] = <<>> /\ rows[s] = {} /\ (s \in Unremovable \/ tree[s] = {})
===============================================================================
