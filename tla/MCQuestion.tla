------------------------------ MODULE MCQuestion ------------------------------
(* Small instances of Grading for TLC.                                     *)
EXTENDS Grading

Claim(s, v) == [subject |-> s, value |-> v]
Text(t, similar, claims, facts, relevance, corrects) ==
    [text |-> t, similar |-> similar, claims |-> claims, facts |-> facts,
     preview |-> facts, relevance |-> relevance, corrects |-> corrects,
     suspicious |-> FALSE, state |-> "ok", observed |-> None,
     created |-> None, turn |-> None]

Pg      == Text("pg", {"pgAgain"}, {Claim("db", "pg")}, {"pg"}, 60, FALSE)
PgAgain == Text("pgAgain", {"pg"}, {Claim("db", "pg")}, {"pg"}, 50, FALSE)
MySql   == Text("mysql", {}, {Claim("db", "mysql")}, {"mysql"}, 80, TRUE)
Mongo   == Text("mongo", {}, {Claim("db", "mongo")}, {}, 70, TRUE)
PgBack  == Text("pgBack", {}, {Claim("db", "pg")}, {"pg"}, 70, TRUE)
Both    == [Text("both", {}, {Claim("db", "pg"), Claim("region", "fra")}, {"pg", "region"},
                 40, FALSE) EXCEPT !.preview = {"pg"}]
Inject  == [Text("inject", {}, {}, {}, 90, FALSE) EXCEPT !.suspicious = TRUE]
Weather == Text("weather", {}, {}, {}, 5, FALSE)
At(m, n) == [m EXCEPT !.turn = n]

\* Undated and dated claims, corrections older than what they correct, timestamps that
\* disagree with the turns (two of them and a turn between make a circle), records that
\* are not usable.
MCMemories ==
    {At(Pg, 1), Pg, At(PgAgain, 2), At(MySql, 2), At(MySql, 1), At(PgBack, 2),
     [At(Mongo, 1) EXCEPT !.created = 2], [At(MySql, 3) EXCEPT !.observed = 1],
     Both, Inject, Weather,
     [Weather EXCEPT !.state = "empty"], [At(Pg, 1) EXCEPT !.state = "inactive"]}

\* The adapter observed one of the texts itself.
MCObservations == [t \in {"both"} |-> [turn |-> 1, time |-> 1]]

Default == [floor |-> 12, ratio |-> 55, cap |-> 2, resolve |-> TRUE, stale |-> TRUE,
            heuristic |-> TRUE, dropSuspicious |-> FALSE, ablated |-> FALSE]
MCPolicies == {Default,
               [Default EXCEPT !.cap = 1, !.dropSuspicious = TRUE, !.stale = FALSE],
               [Default EXCEPT !.resolve = FALSE, !.stale = FALSE, !.heuristic = FALSE,
                               !.ablated = TRUE, !.cap = 0]}

Conflicts(required, forbidden, category) ==
    [category |-> category, required |-> required, supporting |-> {},
     forbidden |-> forbidden, earlier |-> {}, unanswerable |-> FALSE, answers |-> TRUE]
MCTasks ==
    {Conflicts({"mysql"}, {"pg"}, "conflict"), Conflicts({"pg"}, {"mysql"}, "temporal"),
     [Conflicts({"pg", "region"}, {}, "multi_hop") EXCEPT !.earlier = {"pg", "region"}],
     [Conflicts({"region"}, {}, "single_hop") EXCEPT !.supporting = {"pg"}],
     [Conflicts({}, {}, "abstention") EXCEPT !.unanswerable = TRUE, !.answers = FALSE]}

MCHistories == {{}, {"mysql"}, {"pg", "region"}, {"pg", "mysql", "region"}}
===============================================================================
