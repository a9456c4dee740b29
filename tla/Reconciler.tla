----------------------------- MODULE Reconciler -----------------------------
(***************************************************************************)
(* The task-executor's handling of workers.  Every few seconds a pass      *)
(* reads the pods, then the requests, the workers and the kubernetes jobs, *)
(* and then, in one run of code, creates the jobs that are missing and     *)
(* sends commands to the workers (executor.js, reconciler.js,              *)
(* normalize.js).  What it has read may be stale by then, and what it has  *)
(* created may not show yet: createdJobsList remembers that for a time.    *)
(*                                                                         *)
(* A kubernetes job has one worker, and both have the same number here.    *)
(* What the workers and kubernetes do is external (module Worker models    *)
(* the worker), and so are the requests: since they change freely, they    *)
(* are read when they are used.                                            *)
(***************************************************************************)
EXTENDS Naturals, SequencesExt, Resources

CONSTANTS
    Ids,           \* numbers of jobs, which are used again; lists are in their order.
                   \* Bound: no job is created that would find no number
    alg,           \* the algorithm of the job of a number
    MinHot,        \* minHotWorkers of an algorithm
    Room,          \* what pods may request of the node below the pressure ratios
    NodeSize,      \* what kubernetes places on it
    MaxRequests,   \* bound: requests for an algorithm
    MaxChanges,    \* bound: changes of the requests
    MaxFaults      \* bound: deaths, failed calls, exits and early expiries together

ASSUME ReconcilerAssumption ==
    /\ IsFiniteSet(Algorithms) /\ IsFiniteSet(Ids) /\ Ids \subseteq Nat
    /\ alg \in [Ids -> Algorithms]
    /\ MinHot \in [Algorithms -> Nat] /\ MaxRequests \in [Algorithms -> Nat]
    /\ {Room, NodeSize, MaxChanges, MaxFaults} \subseteq Nat

VARIABLES
    requests,      \* the requests for each algorithm, in etcd
    \* kubernetes and the workers
    phase,         \* what has become of the job
    hotJobs,       \* the jobs created for a hot worker, until it registers
    jobs,          \* the jobs that kubernetes lists as not succeeded
    record,        \* the discovery record of a worker: all that is known of it
    rested,        \* workers that have been ready for a whole pass
    pauseCommand, hotCommand,   \* the newest command of a kind not seen by its worker
    \* the task-executor
    created,       \* createdJobsList, without what is older than createdJobsTTL
    reads,         \* what the pass has yet to read, or "wait" between passes
    seenPods, seenWorkers, seenJobs,
    nChanges, nDeaths, nFailures, nSlow, nExits

life == <<phase, hotJobs, jobs, record, rested>>
commands == <<pauseCommand, hotCommand>>
seen == <<seenPods, seenWorkers, seenJobs>>
executor == <<created, reads, seen>>
counters == <<nChanges, nDeaths, nFailures, nSlow, nExits>>
vars == <<requests, life, commands, executor, counters>>

Record == [status : {"none", "bootstrap", "ready", "busy"}, paused : BOOLEAN, hot : BOOLEAN]
MaxOfAll == Max({MaxRequests[a] : a \in Algorithms})
Requests == {q \in [Algorithms -> 0..MaxOfAll] : \A a \in Algorithms : q[a] <= MaxRequests[a]}
NoRecord == [status |-> "none", paused |-> FALSE, hot |-> FALSE]
NoRecords == [i \in Ids |-> NoRecord]
NoCommands == [i \in Ids |-> "no"]
Lists == {"workers", "jobs"}
Wait == {"wait"}

\* Every variable has its type: what is listed, published, seen or under way is of a job that
\* has a number.
TypeOK ==
    /\ requests \in Requests
    /\ phase \in [Ids -> {"none", "creating", "pending", "alive"}]
    /\ hotJobs \subseteq Ids /\ jobs \subseteq Ids
    /\ record \in [Ids -> Record]
    /\ rested \subseteq {i \in Ids : phase[i] = "alive" /\ record[i].status = "ready"}
    /\ pauseCommand \in [Ids -> {"no", "stopProcessing", "startProcessing"}]
    /\ hotCommand \in [Ids -> {"no", "warmUp", "coolDown"}]
    /\ created \subseteq Ids
    /\ reads = Wait \/ reads \subseteq Lists
    /\ seenPods \subseteq Ids /\ seenWorkers \in [Ids -> Record] /\ seenJobs \subseteq Ids
    /\ {nChanges, nDeaths, nFailures, nSlow, nExits} \subseteq Nat

Init ==
    /\ requests \in Requests
    /\ phase = [i \in Ids |-> "none"]
    /\ hotJobs = {} /\ jobs = {} /\ record = NoRecords /\ rested = {}
    /\ pauseCommand = NoCommands /\ hotCommand = NoCommands
    /\ created = {} /\ reads = Wait
    /\ seenPods = {} /\ seenWorkers = NoRecords /\ seenJobs = {}
    /\ nChanges = 0 /\ nDeaths = 0 /\ nFailures = 0 /\ nSlow = 0 /\ nExits = 0

MayFail == nDeaths + nFailures + nSlow + nExits < MaxFaults

-----------------------------------------------------------------------------
(***************************************************************************)
(* The requests, kubernetes and the workers.                               *)
(***************************************************************************)
RequestsChange ==
    /\ nChanges < MaxChanges /\ nChanges' = nChanges + 1
    /\ requests' \in Requests
    /\ UNCHANGED <<life, commands, executor, nDeaths, nFailures, nSlow, nExits>>

\* createJob has reached kubernetes, or has failed, which is only logged.
JobCreated(i) ==
    /\ phase[i] = "creating"
    /\ phase' = [phase EXCEPT ![i] = "pending"]
    /\ jobs' = jobs \cup {i}
    /\ UNCHANGED <<requests, hotJobs, record, rested, commands, executor, counters>>

JobNotCreated(i) ==
    /\ phase[i] = "creating"
    /\ MayFail /\ nFailures' = nFailures + 1
    /\ phase' = [phase EXCEPT ![i] = "none"]
    /\ hotJobs' = hotJobs \ {i}
    /\ UNCHANGED <<requests, jobs, record, rested, commands, executor, nChanges, nDeaths, nSlow,
                   nExits>>

\* The pod is placed on the node if it fits, and its worker registers: one step, although
\* the one takes place before the other.
Placed == {i \in Ids : phase[i] = "alive"}

Registers(i) ==
    /\ phase[i] = "pending" /\ Load(Placed \cup {i}, alg) <= NodeSize
    /\ phase' = [phase EXCEPT ![i] = "alive"]
    /\ record' = [record EXCEPT ![i] = [status |-> "bootstrap", paused |-> FALSE,
                                        hot |-> i \in hotJobs]]
    /\ hotJobs' = hotJobs \ {i}
    /\ UNCHANGED <<requests, jobs, rested, commands, executor, counters>>

\* The algorithm connects, or a job is done.
GetsReady(i) ==
    /\ phase[i] = "alive" /\ record[i].status # "ready"
    /\ record' = [record EXCEPT ![i].status = "ready"]
    /\ UNCHANGED <<requests, phase, hotJobs, jobs, rested, commands, executor, counters>>

TakesJob(i) ==
    /\ phase[i] = "alive" /\ record[i].status = "ready" /\ ~record[i].paused
    /\ record' = [record EXCEPT ![i].status = "busy"]
    /\ rested' = rested \ {i}
    /\ UNCHANGED <<requests, phase, hotJobs, jobs, commands, executor, counters>>

\* A command reaches its worker, which publishes the new flag.
PauseArrives(i) ==
    /\ phase[i] = "alive" /\ pauseCommand[i] # "no"
    /\ record' = [record EXCEPT ![i].paused = pauseCommand[i] = "stopProcessing"]
    /\ pauseCommand' = [pauseCommand EXCEPT ![i] = "no"]
    /\ UNCHANGED <<requests, phase, hotJobs, jobs, rested, hotCommand, executor, counters>>

HotArrives(i) ==
    /\ phase[i] = "alive" /\ hotCommand[i] # "no"
    /\ record' = [record EXCEPT ![i].hot = hotCommand[i] = "warmUp"]
    /\ hotCommand' = [hotCommand EXCEPT ![i] = "no"]
    /\ UNCHANGED <<requests, phase, hotJobs, jobs, rested, pauseCommand, executor, counters>>

\* A worker ends.  Its record, which expires, and its job, which succeeds, are left for
\* a while.
Gone(i) ==
    /\ phase[i] = "alive"
    /\ phase' = [phase EXCEPT ![i] = "none"]
    /\ pauseCommand' = [pauseCommand EXCEPT ![i] = "no"]
    /\ hotCommand' = [hotCommand EXCEPT ![i] = "no"]
    /\ rested' = rested \ {i}
    /\ UNCHANGED <<requests, hotJobs, jobs, record, executor>>

\* The inactivity timer ends a worker that is ready and not hot.  It lasts for many
\* passes, so that one has seen the worker, and what that one sent has arrived.
Idles(i) ==
    /\ i \in rested /\ ~record[i].hot
    /\ pauseCommand[i] = "no" /\ hotCommand[i] = "no"
    /\ Gone(i)
    /\ UNCHANGED counters

Dies(i) ==
    /\ MayFail /\ nDeaths' = nDeaths + 1
    /\ Gone(i)
    /\ UNCHANGED <<nChanges, nFailures, nSlow, nExits>>

OverWhileAlive(i) ==   \* mutant: the lease is lost
    /\ i \in jobs
    /\ jobs' = jobs \ {i}
    /\ record' = [record EXCEPT ![i] = NoRecord]
    /\ UNCHANGED <<requests, phase, hotJobs, rested, commands, executor, counters>>

Over(i) ==
    /\ phase[i] = "none" /\ i \in jobs
    /\ jobs' = jobs \ {i}
    /\ record' = [record EXCEPT ![i] = NoRecord]
    /\ UNCHANGED <<requests, phase, hotJobs, rested, commands, executor, counters>>

-----------------------------------------------------------------------------
(***************************************************************************)
(* The reads of a pass.                                                    *)
(***************************************************************************)
ReadPods ==
    /\ reads = Wait /\ reads' = Lists
    /\ seenPods' = Placed
    /\ UNCHANGED <<requests, life, commands, created, seenWorkers, seenJobs, counters>>

ReadWorkers ==
    /\ "workers" \in reads /\ reads' = reads \ {"workers"}
    /\ seenWorkers' = record
    /\ UNCHANGED <<requests, life, commands, created, seenPods, seenJobs, counters>>

ReadJobs ==
    /\ "jobs" \in reads /\ reads' = reads \ {"jobs"}
    /\ seenJobs' = jobs
    /\ UNCHANGED <<requests, life, commands, created, seenPods, seenWorkers, counters>>

PassOver == reads' = Wait /\ seenPods' = {} /\ seenWorkers' = NoRecords /\ seenJobs' = {}

\* A read that fails ends the pass; the next one begins after the interval.  Abstraction:
\* in the code the other reads of the failed pass go on meanwhile, and so does this half
\* of a pass when the drivers' half fails; here one pass runs at a time.
ReadFails ==
    /\ reads \notin {Wait, {}}
    /\ MayFail /\ nFailures' = nFailures + 1
    /\ PassOver
    /\ UNCHANGED <<requests, life, commands, created, nChanges, nDeaths, nSlow,
                   nExits>>

\* createdJobsTTL has passed for an entry: too early when its worker has not become
\* ready since, or a pass is under way that has read the workers before it was.
Early(i) ==
    \/ phase[i] \in {"creating", "pending"}
    \/ phase[i] = "alive" /\ record[i].status = "bootstrap"
    \/ /\ phase[i] = "alive" /\ reads # Wait /\ "workers" \notin reads
       /\ seenWorkers[i].status \in {"none", "bootstrap"}

Expires(i) ==
    /\ i \in created /\ created' = created \ {i}
    /\ IF Early(i) THEN MayFail /\ nSlow' = nSlow + 1 ELSE nSlow' = nSlow
    /\ UNCHANGED <<requests, life, commands, reads, seen, nChanges, nDeaths, nFailures,
                   nExits>>

-----------------------------------------------------------------------------
(***************************************************************************)
(* What a pass makes of what it has read.                                  *)
(***************************************************************************)
Missing(m, n) == IF m > n THEN m - n ELSE 0
First(n, S) == {i \in S : Cardinality({k \in S : k < i}) < n}
InOrder(S) == SetToSortSeq(S, LAMBDA i, k : i < k)
Of(a, S) == {i \in S : alg[i] = a}

Workers == {i \in Ids : seenWorkers[i] # NoRecord}
IdleWorkers == {i \in Workers : seenWorkers[i].status = "ready" /\ ~seenWorkers[i].paused}
PausedWorkers == {i \in Workers : seenWorkers[i].status = "ready" /\ seenWorkers[i].paused}
ActiveWorkers == {i \in Workers : seenWorkers[i].status # "ready" /\ ~seenWorkers[i].paused}
HotWorkers == {i \in Workers : seenWorkers[i].hot}
ExtraJobs == seenJobs \ Workers

\* normalizeHotRequests: at least as many requests as hot workers are wanted; the
\* first so many of them are for hot ones.
TotalRequestsStored(a) == requests[a]   \* mutant: without hot ones
TotalRequests(a) == IF requests[a] > MinHot[a] THEN requests[a] ELSE MinHot[a]

\* _processAllRequests: idle workers, then paused ones, which are woken, then jobs
\* without a worker, then entries of createdJobsList serve one request each, and a job
\* is wanted for every other one.
Count(a, S) == Cardinality(Of(a, S))
Woken(a) == First(Missing(TotalRequests(a), Count(a, IdleWorkers)), Of(a, PausedWorkers))
LeftIdle(a) == Of(a, IdleWorkers) \ First(TotalRequests(a), Of(a, IdleWorkers))
ServingNow(a) ==   \* mutant: without createdJobsList
    Count(a, IdleWorkers) + Count(a, PausedWorkers) + Count(a, ExtraJobs)
Serving(a) ==
    Count(a, IdleWorkers) + Count(a, PausedWorkers) + Count(a, ExtraJobs) + Count(a, created)
Wanted(a) == Missing(TotalRequests(a), Serving(a))
WantedHot(a) == Missing(MinHot[a], TotalRequests(a) - Wanted(a))

\* The wanted jobs, in the order of the requests, with those of algorithms that want
\* hot workers first.
Wants == UNION {{a} \X (1..Wanted(a)) : a \in Algorithms}
WantedJobs ==
    {s \in [1..Cardinality(Wants) -> Algorithms] :
        /\ \A a \in Algorithms : Cardinality({k \in DOMAIN s : s[k] = a}) = Wanted(a)
        /\ \A k, n \in DOMAIN s : k < n /\ MinHot[s[n]] > 0 => MinHot[s[k]] > 0}

\* normalizeHotWorkers, normalizeColdWorkers
WarmUps == UNION {First(MinHot[a], Of(a, Workers \ HotWorkers)) :
                      a \in {b \in Algorithms : Count(b, HotWorkers) < MinHot[b]}}
CoolDowns == UNION {First(Missing(Count(a, HotWorkers), MinHot[a]), Of(a, HotWorkers)) :
                        a \in Algorithms}

\* _findWorkersToStop: who may be stopped for the algorithms S, idle ones first.  Where a
\* worker is, is known only if its job and its pod have been read.
ActiveOf(S) == {i \in ActiveWorkers : alg[i] \in S}   \* mutant: the wrong ones
ActiveOfOthers(S) == {i \in ActiveWorkers : alg[i] \notin S}
Candidates(S) ==
    SelectSeq(InOrder(UNION {LeftIdle(a) : a \in Algorithms}) \o InOrder(ActiveOfOthers(S)),
              LAMBDA i : i \in seenPods \cap seenJobs)

-----------------------------------------------------------------------------
(***************************************************************************)
(* reconcile.                                                              *)
(***************************************************************************)
Unused == {i \in Ids : /\ phase[i] = "none" /\ record[i] = NoRecord /\ seenWorkers[i] = NoRecord
                       /\ i \notin jobs \cup created \cup seenPods \cup seenJobs}

Free == Missing(Room, Load(seenPods, alg))
Fitting(a, wanted) == {k \in DOMAIN wanted : wanted[k] = a /\ k \in Matched(wanted, Free)}
News(wanted) ==
    UNION {First(Cardinality(Fitting(a, wanted)), Of(a, Unused)) : a \in Algorithms}
NewHot(wanted) == UNION {First(WantedHot(a), Of(a, News(wanted))) : a \in Algorithms}

Skipped(wanted) ==
    LET rest == SetToSortSeq(DOMAIN wanted \ Matched(wanted, Free), <)
    IN  [k \in DOMAIN rest |-> wanted[rest[k]]]
Stops(wanted) ==
    ToStop(Candidates(Range(Skipped(wanted))), alg, Skipped(wanted),
           Missing(Free, Load(News(wanted), alg)))
Wakes == UNION {Woken(a) : a \in Algorithms}

\* The commands go out together, so that one that fails keeps back none of the others.
\* Bound: one fails in a pass.
Losses == {{}} \cup {{c} : c \in IF MayFail THEN {"pause", "hot"} \X Ids ELSE {}}

Sends(lost) ==
    /\ \E wanted \in WantedJobs :
         LET news == News(wanted)
             stops == Stops(wanted)
         IN  /\ phase' = [i \in Ids |-> IF i \in news THEN "creating" ELSE phase[i]]
             /\ created' = created \cup news
             /\ hotJobs' = hotJobs \cup NewHot(wanted)
             /\ pauseCommand' = [i \in Ids |-> IF phase[i] # "alive" THEN "no"
                                               ELSE IF <<"pause", i>> \in lost THEN pauseCommand[i]
                                               ELSE IF i \in stops THEN "stopProcessing"
                                               ELSE IF i \in Wakes THEN "startProcessing"
                                               ELSE pauseCommand[i]]
    /\ hotCommand' = [i \in Ids |-> IF phase[i] # "alive" THEN "no"
                                    ELSE IF <<"hot", i>> \in lost THEN hotCommand[i]
                                    ELSE IF i \in WarmUps THEN "warmUp"
                                    ELSE IF i \in CoolDowns THEN "coolDown"
                                    ELSE hotCommand[i]]

Reconcile ==
    /\ reads = {}
    /\ \E lost \in Losses :
         /\ nFailures' = IF lost = {} THEN nFailures ELSE nFailures + 1
         /\ Sends(lost)
    /\ rested' = {i \in Ids : /\ seenWorkers[i].status = "ready"
                              /\ phase[i] = "alive" /\ record[i].status = "ready"}
    /\ PassOver
    /\ UNCHANGED <<requests, jobs, record, nChanges, nDeaths, nSlow, nExits>>

\* The process ends and is started again, which it is with an empty list.
ExecutorExit ==
    /\ MayFail /\ nExits' = nExits + 1
    /\ created' = {}
    /\ PassOver
    /\ UNCHANGED <<requests, life, commands, nChanges, nDeaths, nFailures, nSlow>>

-----------------------------------------------------------------------------
Kubernetes(i) == JobCreated(i) \/ JobNotCreated(i) \/ Registers(i) \/ Over(i)
Works(i) == GetsReady(i) \/ TakesJob(i) \/ PauseArrives(i) \/ HotArrives(i) \/ Idles(i) \/ Dies(i)
Pass == ReadPods \/ ReadWorkers \/ ReadJobs \/ ReadFails \/ Reconcile

Next ==
    \/ RequestsChange
    \/ \E i \in Ids : Kubernetes(i) \/ Works(i) \/ Expires(i)
    \/ Pass \/ ExecutorExit

Spec == Init /\ [][Next]_vars

\* Calls return, and the interval, the list's entries and the idle timers of workers run
\* out; workers get ready and commands reach them.  Nothing makes a worker take a job.
PassGoesOn ==
    \/ reads = Wait /\ reads' = Lists
    \/ \E l \in reads \cap Lists : reads' = reads \ {l}
    \/ reads = {} /\ reads' = Wait
Proceeds(i) == JobCreated(i) \/ Registers(i) \/ Idles(i) \/ Over(i)
CommandArrives(i) == PauseArrives(i) \/ HotArrives(i)

Fairness ==
    /\ WF_reads(PassGoesOn)
    /\ \A i \in Ids : /\ WF_vars(Proceeds(i)) /\ WF_vars(GetsReady(i))
                      /\ WF_vars(CommandArrives(i)) /\ WF_vars(Expires(i))

FairSpec == Spec /\ Fairness

-----------------------------------------------------------------------------
(***************************************************************************)
(* Properties.                                                             *)
(***************************************************************************)
\* A pass never creates more jobs of an algorithm than there are requests beyond its
\* workers that do no job yet, as far as they were when the pass read them: those that
\* are on their way count.
Waiting(a) == {i \in Ids : alg[i] = a /\ phase[i] # "none" /\ seenWorkers[i].status # "busy"}
Creates == {i \in Ids : phase[i] = "none" /\ phase'[i] = "creating"}
NoSurplus == [][\A a \in Algorithms : Of(a, Creates) # {} /\ nSlow = 0 /\ nExits = 0 =>
                   Cardinality(Of(a, Creates) \cup Waiting(a)) <= TotalRequests(a)]_vars

\* When an algorithm is the only one requested for good, a job is there for it again
\* and again, though workers of others take all the room and work on: one that is in
\* the way is stopped.  (That the job gets to run is more than the code achieves.)
Served ==
    \A a \in Algorithms :
        (<>[](requests[a] > 0 /\ \A b \in Algorithms \ {a} : requests[b] = 0))
            => []<>(\E i \in Ids : alg[i] = a /\ phase[i] # "none")

\* As many workers as wanted are hot in the end, once they take no more jobs.
Hot(a) == {i \in Ids : alg[i] = a /\ phase[i] = "alive" /\ record[i].hot}
HotSettles ==
    (<>[](\A i \in Ids : record[i].status # "busy"))
        => <>[](\A a \in Algorithms : Cardinality(Hot(a)) = MinHot[a])
=============================================================================
