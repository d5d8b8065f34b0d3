-------------------------------- MODULE MCReplay --------------------------------
(* Small instances of Replay for TLC.                                      *)
EXTENDS Replay, SequencesExt

Says(what, role) == [says |-> what, role |-> role, session |-> 0]
MCKinds == {Says("statement", "user"), Says("chatter", "user")}
AllKinds == MCKinds \cup {Says("statement", "assistant"), Says("blank", "assistant")}

\* Conversations whose sessions follow one another.
Boundaries(c, n) == [i \in DOMAIN c |-> [c[i] EXCEPT !.session = IF i < n THEN 0 ELSE 1]]
MCConversations ==
    {Boundaries(c, n) : c \in BoundedSeq(AllKinds, 3) \ {<<>>}, n \in 2..4}
    \cup {Boundaries([i \in 1..5 |-> Says("statement", "user")], n) : n \in 2..6}
===============================================================================
