------------------------------ MODULE SessionData ------------------------------
(***************************************************************************)
(* What the data controls promise a visitor: a session's turns are kept    *)
(* only while the session is open, clearing only takes data away, and      *)
(* ending a session leaves nothing of it behind, for good.  An ended       *)
(* session is replaced by a new, empty one.                                *)
(***************************************************************************)
CONSTANTS Sids,    \* session identifiers
          Turns    \* chat turns

VARIABLES phase,   \* "unborn", "open" or "ended", for each session
          held     \* the turns of which each session holds any data

vars == <<phase, held>>

Init ==
    /\ phase \in [Sids -> {"unborn", "open"}]
    /\ held = [s \in Sids |-> {}]

Open(s) ==
    /\ phase[s] = "unborn"
    /\ phase' = [phase EXCEPT ![s] = "open"]
    /\ UNCHANGED held

Hold(s, t) ==
    /\ phase[s] = "open"
    /\ held' = [held EXCEPT ![s] = @ \cup {t}]
    /\ UNCHANGED phase

Drop(s, gone) ==
    /\ phase[s] = "open"
    /\ held' = [held EXCEPT ![s] = @ \ gone]
    /\ UNCHANGED phase

End(s, next) ==
    /\ phase[s] = "open" /\ phase[next] = "unborn"
    /\ phase' = [phase EXCEPT ![s] = "ended", ![next] = "open"]
    /\ held' = [held EXCEPT ![s] = {}]

Next ==
    \E s \in Sids : \/ Open(s)
                    \/ \E t \in Turns : Hold(s, t)
                    \/ \E gone \in SUBSET held[s] : Drop(s, gone)
                    \/ \E next \in Sids : End(s, next)

Spec == Init /\ [][Next]_vars
===============================================================================
