-------------------------- MODULE MCEvaluationRequest --------------------------
(* A small instance of EvaluationRequest for TLC.                          *)
EXTENDS EvaluationRequest

MCPresets ==
    [quick |-> [modes |-> <<"full", "brainos">>, trials |-> 1,
                limits |-> [tasks |-> 1, requests |-> 2, input |-> 1, total |-> 8,
                            failures |-> 1]],
     research |-> [modes |-> <<"full", "brainos">>, trials |-> 2,
                   limits |-> [tasks |-> 2, requests |-> 8, input |-> 2, total |-> 100,
                               failures |-> 4]]]

MCModeOrder == <<"full", "brainos">>
MCAblationOrder == <<"brainos", "no_floor">>
MCCanonical == [full |-> "full", a |-> "full", brainos |-> "brainos",
                no_floor |-> "no_floor"]
MCContents == [two |-> 2, empty |-> 0, outside |-> 2]
MCInside == {"two", "empty", "missing"}

MCDefaultPolicy == [presets |-> {"quick", "research"}, generation |-> TRUE, tasks |-> 2,
                    requests |-> 8, runs |-> 2]
NoSettings == [f \in {} |-> 0]
MCDeployments == {NoSettings,
                  [presets |-> {"quick"}, generation |-> FALSE],
                  [tasks |-> 1, requests |-> 1],
                  [presets |-> {"quick", "huge"}]}

Form == [client |-> "browser", preset |-> "quick", modes |-> <<>>, trials |-> None,
         limits |-> NoSettings, dataset |-> "two", baseline |-> "full", generate |-> TRUE,
         key |-> TRUE, warm |-> FALSE, earlier |-> 0, stages |-> {}]
Command == [Form EXCEPT !.client = "pipeline"]
Caller  == [Form EXCEPT !.client = "caller", !.generate = FALSE]

\* The form as it is, with a limit over the preset's, in full; then what is refused.
MCForms == {
    Form,
    [Form EXCEPT !.limits = [tasks |-> 2], !.modes = <<"brainos", "a", "full">>],
    [Form EXCEPT !.preset = "research", !.modes = <<"a">>],
    [Form EXCEPT !.generate = FALSE, !.modes = <<"brainos", "ablations">>],
    [Form EXCEPT !.generate = FALSE, !.limits = [tasks |-> -1], !.earlier = 1],
    [Form EXCEPT !.key = FALSE, !.warm = TRUE], [Form EXCEPT !.earlier = 2],
    [Form EXCEPT !.dataset = "outside"], [Form EXCEPT !.dataset = "missing"],
    [Form EXCEPT !.dataset = "empty"], [Form EXCEPT !.modes = <<"nonsense">>],
    [Form EXCEPT !.baseline = "nonsense"]}

MCCommands == {
    [Command EXCEPT !.limits = [tasks |-> 0, requests |-> 3, failures |-> 2]],
    [Command EXCEPT !.generate = FALSE, !.dataset = "outside", !.modes = <<"all">>,
                    !.stages = {"comparison"}],
    [Command EXCEPT !.dataset = "empty"],
    [Command EXCEPT !.modes = <<"all", "brainos">>], [Command EXCEPT !.trials = 0],
    [Command EXCEPT !.limits = [total |-> -1]], [Command EXCEPT !.stages = {"figures"}],
    [Command EXCEPT !.client = "experiment", !.trials = 2,
                    !.limits = [tasks |-> 2, requests |-> 4, total |-> 5]],
    [Command EXCEPT !.client = "experiment", !.key = FALSE],
    [Command EXCEPT !.client = "single", !.modes = <<"brainos">>,
                    !.limits = [tasks |-> 0, requests |-> 1]],
    [Command EXCEPT !.client = "single", !.modes = <<"a">>],
    [Command EXCEPT !.client = "single", !.modes = <<"full">>, !.limits = [input |-> 1]],
    Caller, [Caller EXCEPT !.generate = TRUE, !.stages = {"comparison"}],
    [Caller EXCEPT !.generate = TRUE, !.stages = {"errors", "report", "experiment"}]}

MCAsked == MCForms \cup MCCommands
===============================================================================
