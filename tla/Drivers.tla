------------------------------- MODULE Drivers -------------------------------
(***************************************************************************)
(* How the task-executor keeps the pipeline drivers: the half of a pass    *)
(* that counts the jobs of the drivers, creates the missing ones and stops *)
(* the idle ones beyond the minimum (executor.js, drivers-reconciler.js,   *)
(* normalize.js).                                                          *)
(*                                                                         *)
(* The loop starts a pass when the one before has ended, and no sooner     *)
(* than an interval after its start.  But a pass ends with the first of    *)
(* its calls, or with the other half, that fails: the calls of its own     *)
(* half that are still under way are then left behind.  A restarted        *)
(* process has forgotten the last pass as well.                            *)
(***************************************************************************)
EXTENDS Integers, FiniteSets

CONSTANTS
    Jobs,           \* numbers for the jobs that are not over
    Passes,         \* numbers for the passes that are under way
    None,
    MinAmount,      \* driversSetting.minAmount
    Scale, Unit,    \* driversSetting.scalePercent is Scale / Unit
    MaxPerTick,     \* MAX_JOBS_PER_TICK
    MaxOrders,      \* bound: pipelines that are queued
    MaxFailures     \* bound: failed calls, full nodes, crashed drivers and restarts

ASSUME DriversAssumption ==
    /\ Jobs \subseteq Nat /\ IsFiniteSet(Jobs) /\ Passes \subseteq Nat /\ None \notin Passes
    /\ MinAmount \in Nat \ {0} /\ Scale \in Nat /\ Unit \in Nat \ {0}
    /\ MaxPerTick \in Nat /\ MaxOrders \in Nat /\ MaxFailures \in Nat

VARIABLES
    phase,      \* of each job: its call is under way, its driver starts, is ready or at work
    paused,     \* the drivers that have been stopped
    requests,   \* the pipelines that wait for a driver
    template,   \* the drivers' template has been stored
    step,       \* of each pass: what it is at,
    read, seen, \* what it has read, and how that was
    toCreate, toStop,   \* its calls under way
    awaited,    \* the pass that the loop awaits
    overtaken,  \* a pass has started with calls of another still under way
    nOrders, nFailures

cluster == <<phase, paused, requests, template, nOrders>>
passes == <<step, read, seen, toCreate, toStop>>
vars == <<cluster, passes, awaited, overtaken, nFailures>>

Phases == {"none", "creating", "starting", "ready", "busy", "failed"}
Reads == {"requests", "drivers", "jobs"}

Unseen == [idle |-> {}, gone |-> 0, jobs |-> 0, requests |-> 0, template |-> FALSE]

Init ==
    /\ phase = [j \in Jobs |-> "none"] /\ paused = {} /\ requests = 0 /\ template = FALSE
    /\ step = [p \in Passes |-> "over"] /\ read = [p \in Passes |-> {}]
    /\ seen = [p \in Passes |-> Unseen]
    /\ toCreate = [p \in Passes |-> {}] /\ toStop = [p \in Passes |-> {}]
    /\ awaited = None /\ overtaken = FALSE /\ nOrders = 0 /\ nFailures = 0

\* Something fails.
Failing == nFailures < MaxFailures /\ nFailures' = nFailures + 1

-----------------------------------------------------------------------------
(***************************************************************************)
(* What a pass wants.                                                      *)
(***************************************************************************)
\* mutants: jobs whose driver has not started are not counted; an idle driver too many is
\* left; there are drivers on demand only.
CountedActive == {j \in Jobs : phase[j] \in {"ready", "busy", "failed"}}
ExtraButOne(view) == Cardinality(view.idle) + view.gone - MinAmount - 1

\* normalizeDriversJobs: the jobs that have not succeeded; the failed ones are among them.
Counted == {j \in Jobs : phase[j] \notin {"none", "creating"}}

Free == {j \in Jobs : phase[j] = "none"}

\* _idleDriverFilter
Idle == {j \in Jobs \ paused : phase[j] = "ready"}

\* _prepareDriversData, in units of 1 / Unit of a driver
MaxAmount == MinAmount * Scale + MinAmount * Unit

AmountOnDemand(view) == IF view.requests > MinAmount THEN MaxAmount ELSE 0

\* normalizeDriversAmount
Amount(view) == IF view.requests > MinAmount THEN MaxAmount ELSE MinAmount * Unit
Missing(view) == Amount(view) - view.jobs * Unit

\* matchJobsToResources counts the missing drivers down by one while there are any left.
RoundedUp(amount) == (amount + Unit - 1) \div Unit
ToAdd(view) ==
    LET n == RoundedUp(Missing(view))
    IN  IF n > MaxPerTick THEN MaxPerTick ELSE n

Extra(view) == Cardinality(view.idle) + view.gone - MinAmount

-----------------------------------------------------------------------------
(***************************************************************************)
(* The passes.                                                             *)
(***************************************************************************)
\* The loop comes to the drivers, when the interval since the last pass is over.
Begin(p) ==
    /\ awaited = None /\ step[p] = "over" /\ \A q \in Passes : q < p => step[q] # "over"
    /\ step' = [step EXCEPT ![p] = "reading"]
    /\ awaited' = p
    /\ overtaken' = (overtaken \/ \E q \in Passes : step[q] # "over")
    /\ UNCHANGED <<cluster, read, seen, toCreate, toStop, nFailures>>

\* The four reads return in any order; the template, which is stored once, is looked at with
\* the requests.
Looked(view, what) ==
    CASE what = "requests" -> [view EXCEPT !.requests = requests, !.template = template]
      [] what = "drivers" -> [view EXCEPT !.idle = Idle]
      [] what = "jobs" -> [view EXCEPT !.jobs = Cardinality(Counted)]

Read(p, what) ==
    /\ step[p] = "reading" /\ what \notin read[p]
    /\ read' = [read EXCEPT ![p] = @ \cup {what}]
    /\ seen' = [seen EXCEPT ![p] = Looked(@, what)]
    /\ UNCHANGED <<cluster, step, toCreate, toStop, awaited, overtaken, nFailures>>

\* A pass is over: what it has read is forgotten, and the loop goes on.
Over(p) ==
    /\ step' = [step EXCEPT ![p] = "over"] /\ read' = [read EXCEPT ![p] = {}]
    /\ seen' = [seen EXCEPT ![p] = Unseen]
    /\ awaited' = IF awaited = p THEN None ELSE awaited

\* A read fails, or there is a driver to create and no template of it: nothing is stopped then.
GivesUp(p) ==
    /\ step[p] = "reading"
    /\ \/ Failing
       \/ read[p] = Reads /\ Missing(seen[p]) > 0 /\ ~seen[p].template /\ UNCHANGED nFailures
    /\ Over(p)
    /\ UNCHANGED <<cluster, toCreate, toStop, overtaken>>

\* reconcileDrivers: fewer are created if the nodes are full.  The idle drivers come in the
\* order of their keys, of which nothing is known; some may be gone by now.
Reconcile(p) ==
    LET view == seen[p]
    IN  /\ step[p] = "reading" /\ read[p] = Reads
        /\ Missing(view) > 0 => view.template
        /\ \E new \in SUBSET Free, extra \in SUBSET view.idle :
            /\ \A j \in new, i \in Free \ new : j < i
            /\ \/ Cardinality(new) = ToAdd(view) /\ UNCHANGED nFailures
               \/ Cardinality(new) < ToAdd(view) /\ Failing
               \/ new = {} /\ ToAdd(view) <= 0 /\ UNCHANGED nFailures
            /\ \/ Cardinality(extra) \in Extra(view) - view.gone .. Extra(view)
               \/ extra = {} /\ Extra(view) <= 0
            /\ toCreate' = [toCreate EXCEPT ![p] = new]
            /\ toStop' = [toStop EXCEPT ![p] = extra]
            /\ phase' = [j \in Jobs |-> IF j \in new THEN "creating" ELSE phase[j]]
        /\ step' = [step EXCEPT ![p] = "calling"]
        /\ read' = [read EXCEPT ![p] = {}] /\ seen' = [seen EXCEPT ![p] = Unseen]
        /\ UNCHANGED <<paused, requests, template, nOrders, awaited, overtaken>>

\* mutant: the call is made once more when it has returned.
CreatedAgain(p, j) ==
    /\ j \in toCreate[p] /\ phase' = [phase EXCEPT ![j] = "starting"]
    /\ UNCHANGED <<paused, requests, template, nOrders, passes, awaited, overtaken, nFailures>>

\* A job is created, or the failure is only logged.
Created(p, j) ==
    /\ j \in toCreate[p]
    /\ toCreate' = [toCreate EXCEPT ![p] = @ \ {j}]
    /\ \/ phase' = [phase EXCEPT ![j] = "starting"] /\ UNCHANGED nFailures
       \/ phase' = [phase EXCEPT ![j] = "none"] /\ Failing
    /\ UNCHANGED <<paused, requests, template, nOrders, step, read, seen, toStop, awaited, overtaken>>

\* A driver gets its command; or the call fails, and the loop does not wait for the others.
Stopped(p, j) ==
    /\ j \in toStop[p]
    /\ toStop' = [toStop EXCEPT ![p] = @ \ {j}]
    /\ \/ paused' = paused \cup {j} /\ UNCHANGED <<awaited, nFailures>>
       \/ awaited' = (IF awaited = p THEN None ELSE awaited) /\ UNCHANGED paused /\ Failing
    /\ UNCHANGED <<phase, requests, template, nOrders, step, read, seen, toCreate, overtaken>>

Finish(p) ==
    /\ step[p] = "calling" /\ toCreate[p] = {} /\ toStop[p] = {}
    /\ Over(p)
    /\ UNCHANGED <<cluster, toCreate, toStop, overtaken, nFailures>>

\* The other half of the pass fails: the loop goes on, and so does this half.
LeftBehind ==
    /\ awaited # None /\ Failing /\ awaited' = None
    /\ UNCHANGED <<cluster, passes, overtaken>>

\* The process exits and is started again; the calls it had made are still under way.
Restart ==
    /\ Failing /\ awaited' = None
    /\ step' = [p \in Passes |-> IF step[p] = "reading" THEN "over" ELSE step[p]]
    /\ read' = [p \in Passes |-> IF step[p] = "reading" THEN {} ELSE read[p]]
    /\ seen' = [p \in Passes |-> IF step[p] = "reading" THEN Unseen ELSE seen[p]]
    /\ UNCHANGED <<cluster, toCreate, toStop, overtaken>>

-----------------------------------------------------------------------------
(***************************************************************************)
(* The cluster: the drivers, their jobs and the queue of pipelines.        *)
(***************************************************************************)
\* Nothing that is meant for the driver of a job reaches the next one.
Forget(j) ==
    /\ paused' = paused \ {j}
    /\ toStop' = [p \in Passes |-> toStop[p] \ {j}]
    /\ seen' = [p \in Passes |-> IF j \in seen[p].idle
                                 THEN [seen[p] EXCEPT !.idle = @ \ {j}, !.gone = @ + 1]
                                 ELSE seen[p]]

Starts(j) ==
    /\ phase[j] = "starting" /\ phase' = [phase EXCEPT ![j] = "ready"]
    /\ UNCHANGED <<paused, requests, template, nOrders, passes, nFailures>>

Takes(j) ==
    /\ j \in Idle /\ requests > 0 /\ requests' = requests - 1
    /\ phase' = [phase EXCEPT ![j] = "busy"]
    /\ UNCHANGED <<paused, template, nOrders, passes, nFailures>>

Ends(j) ==
    /\ phase[j] = "busy" /\ phase' = [phase EXCEPT ![j] = "ready"]
    /\ UNCHANGED <<paused, requests, template, nOrders, passes, nFailures>>

\* A stopped driver exits when it has been idle for a while: its job has succeeded.
Exits(j) ==
    /\ j \in paused /\ phase[j] = "ready" /\ phase' = [phase EXCEPT ![j] = "none"]
    /\ Forget(j)
    /\ UNCHANGED <<requests, template, nOrders, step, read, toCreate, nFailures>>

\* A driver crashes: it is started again, until its job fails.
Crashes(j) ==
    /\ phase[j] \in {"starting", "ready", "busy"} /\ Failing
    /\ \E to \in {"starting", "failed"} : phase' = [phase EXCEPT ![j] = to]
    /\ Forget(j)
    /\ UNCHANGED <<requests, template, nOrders, step, read, toCreate>>

Order ==
    /\ nOrders < MaxOrders /\ nOrders' = nOrders + 1 /\ requests' = requests + 1
    /\ UNCHANGED <<phase, paused, template, passes, nFailures>>

TemplateStored ==
    /\ ~template /\ template' = TRUE
    /\ UNCHANGED <<phase, paused, requests, nOrders, passes, nFailures>>

Elsewhere ==
    /\ \/ \E j \in Jobs : Starts(j) \/ Takes(j) \/ Ends(j) \/ Exits(j) \/ Crashes(j)
       \/ Order \/ TemplateStored
    /\ UNCHANGED <<awaited, overtaken>>

PassStep(p) ==
    \/ Begin(p) \/ (\E what \in Reads : Read(p, what)) \/ GivesUp(p) \/ Reconcile(p)
    \/ (\E j \in Jobs : Created(p, j) \/ Stopped(p, j)) \/ Finish(p)

Next == (\E p \in Passes : PassStep(p)) \/ LeftBehind \/ Restart \/ Elsewhere

Spec == Init /\ [][Next]_vars

\* The loop goes on, calls return, and drivers start, work, and exit when they are stopped.
\* A pipeline that waits is taken if again and again a driver is idle: one takes it well within
\* the interval of the passes, but may be stopped before it does.
Fairness ==
    /\ WF_vars(\E p \in Passes : Begin(p))
    /\ WF_vars(\E p \in Passes : PassStep(p) /\ step[p] # "over")
    /\ WF_vars(Elsewhere /\ \E j \in Jobs : Starts(j) \/ Ends(j) \/ Exits(j))
    /\ SF_vars(Elsewhere /\ \E j \in Jobs : Takes(j))
    /\ WF_vars(Elsewhere /\ TemplateStored)

FairSpec == Spec /\ Fairness

-----------------------------------------------------------------------------
(***************************************************************************)
(* Properties.                                                             *)
(***************************************************************************)
Unfinished == {j \in Jobs : phase[j] # "none"}
Failed == {j \in Jobs : phase[j] = "failed"}

Running == {j \in Jobs : phase[j] \in {"ready", "busy"}}

\* Every variable has its type; what a pass creates is a job whose call is under way, and what
\* it stops, or has seen idle, a driver that runs (reconcileDrivers).
TypeOK ==
    /\ phase \in [Jobs -> Phases] /\ paused \subseteq Running
    /\ nOrders \in 0..MaxOrders /\ requests \in 0..nOrders /\ template \in BOOLEAN
    /\ step \in [Passes -> {"over", "reading", "calling"}] /\ read \in [Passes -> SUBSET Reads]
    /\ seen \in [Passes -> [idle : SUBSET Running, gone : Nat, jobs : Nat, requests : Nat,
                            template : BOOLEAN]]
    /\ toCreate \in [Passes -> SUBSET {j \in Jobs : phase[j] = "creating"}]
    /\ toStop \in [Passes -> SUBSET Running]
    /\ awaited \in Passes \cup {None} /\ overtaken \in BOOLEAN /\ nFailures \in 0..MaxFailures

\* There are never more jobs than the maximum, rounded up, unless a pass has started with
\* calls of another still under way.
NeverTooMany == overtaken \/ Cardinality(Unfinished) <= RoundedUp(MaxAmount)

\* Every pipeline that waits gets a driver, if fewer jobs than the minimum have failed: the
\* missing drivers are replaced, whatever call fails and whoever crashes.
QueueIsServed == requests > 0 ~> (requests = 0 \/ Cardinality(Failed) >= MinAmount)

\* When no more pipelines come, the drivers beyond the minimum are stopped for good.
ScalesDown == <>[](Cardinality(Idle) <= MinAmount)
=============================================================================
