---------------------------- MODULE JobLifecycle ----------------------------
(***************************************************************************)
(* What a worker promises to the queue and to the pipelines: it has one    *)
(* job in hand at a time, settles the outcome of the job's task once, and  *)
(* acknowledges the job to the queue after that, once and for all.  Only a *)
(* job whose pipeline is stopped may be acknowledged without an outcome,   *)
(* or have its outcome written again.                                      *)
(***************************************************************************)
CONSTANTS Jobs, NoJob, Outcomes   \* Outcomes has "none" for a task not settled

VARIABLES waiting, inHand, outcome, acked, stopped

vars == <<waiting, inHand, outcome, acked, stopped>>

Init ==
    /\ waiting = Jobs /\ inHand = NoJob /\ acked = {} /\ stopped = {}
    /\ outcome = [j \in Jobs |-> "none"]

Take(j) ==
    /\ inHand = NoJob /\ j \in waiting
    /\ inHand' = j /\ waiting' = waiting \ {j}
    /\ UNCHANGED <<outcome, acked, stopped>>

Settle(r) ==
    /\ inHand # NoJob /\ outcome[inHand] = "none"
    /\ outcome' = [outcome EXCEPT ![inHand] = r]
    /\ UNCHANGED <<waiting, inHand, acked, stopped>>

Acknowledge ==
    /\ inHand # NoJob
    /\ outcome[inHand] # "none" \/ inHand \in stopped
    /\ acked' = acked \cup {inHand} /\ inHand' = NoJob
    /\ UNCHANGED <<waiting, outcome, stopped>>

Stop(j) ==
    /\ stopped' = stopped \cup {j}
    /\ UNCHANGED <<waiting, inHand, outcome, acked>>

Resettle(j, r) ==
    /\ j \in stopped
    /\ outcome' = [outcome EXCEPT ![j] = r]
    /\ UNCHANGED <<waiting, inHand, acked, stopped>>

Next ==
    \/ \E j \in Jobs : Take(j) \/ Stop(j)
    \/ \E r \in Outcomes : Settle(r) \/ \E j \in Jobs : Resettle(j, r)
    \/ Acknowledge

Spec == Init /\ [][Next]_vars
=============================================================================
