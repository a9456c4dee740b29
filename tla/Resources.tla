------------------------------ MODULE Resources ------------------------------
(***************************************************************************)
(* What the task-executor expects to fit, and whom it stops to make room   *)
(* (resources.js), as pure operators.  The resources of a job are a size,  *)
(* and those of the cluster the room that is left on one node below the    *)
(* pressure ratios; cpu, gpu and memory, several nodes and node selectors  *)
(* only decide what fits, not what happens then.                           *)
(***************************************************************************)
EXTENDS FiniteSetsExt, Sequences

CONSTANTS
    Algorithms,
    Size,         \* what createContainerResource asks for an algorithm
    MaxPerTick    \* MAX_JOBS_PER_TICK

ASSUME ResourcesAssumption ==
    /\ Size \in [Algorithms -> Nat]
    /\ MaxPerTick \in Nat

\* The size of the things S, where a[x] is the algorithm of x.
Load(S, a) == MapThenSumSet(LAMBDA x : Size[a[x]], S)

\* matchJobsToResources: the indexes of the wanted jobs that are created.  In their
\* order, each is created if it still fits; skipped ones count for the maximum too.
Matched(wanted, room) ==
    LET fits[k \in 0..Len(wanted)] ==
            IF k = 0 THEN {}
            ELSE IF k <= MaxPerTick /\ Load(fits[k-1], wanted) + Size[wanted[k]] <= room
                 THEN fits[k-1] \cup {k} ELSE fits[k-1]
    IN  fits[Len(wanted)]

\* _findWorkersToStop: candidates of other algorithms than b are taken off the node
\* one after the other until b fits, if it ever does.  All that were taken off count
\* as gone, but only the last of them is stopped.
Freeing(p, b, alg) ==
    LET others == SelectSeq(p.candidates, LAMBDA c : alg[c] # b)
        RoomAfter(k) == p.room + Load({others[i] : i \in 1..k}, alg)
        enough == {k \in 1..Len(others) : RoomAfter(k) >= Size[b]}
    IN  IF enough = {} THEN p
        ELSE LET k == Min(enough)
             IN  [room |-> RoomAfter(k), stop |-> p.stop \cup {others[k]},
                  candidates |-> SelectSeq(p.candidates, LAMBDA c : c # others[k])]

\* pauseAccordingToResources: the candidates to stop for the skipped requests.
ToStop(candidates, alg, skipped, room) ==
    LET after[k \in 0..Len(skipped)] ==
            IF k = 0 THEN [room |-> room, stop |-> {}, candidates |-> candidates]
            ELSE Freeing(after[k-1], skipped[k], alg)
    IN  after[Len(skipped)].stop
=============================================================================
