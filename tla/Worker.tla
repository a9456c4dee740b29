------------------------------- MODULE Worker -------------------------------
(***************************************************************************)
(* One worker process: the sidecar that takes jobs of one algorithm from a *)
(* queue, hands them to the algorithm container over a socket, stores what *)
(* the algorithm returns and acknowledges the job.                         *)
(*                                                                         *)
(* node.js runs one handler at a time, from an event to its next await.    *)
(* An action is such a run: the code from an event, or from the return of  *)
(* an awaited call, to the next await.  A handler waiting for a call is an *)
(* element of the bag "suspended"; whatever the handler captured before    *)
(* the await is in the element, and everything else is read again when it  *)
(* resumes.                                                                *)
(***************************************************************************)
EXTENDS Naturals, FiniteSets, Bags, BagsExt, WorkerStates

CONSTANTS
    Jobs,            \* the jobs of this worker's algorithm; job j run to its
                     \* end yields the value j
    DebugMode,       \* options.debugMode
    MaxStops,        \* bound: stop requests for a job
    MaxConnections,  \* bound: connections the algorithm opens
    MaxCommands,     \* bound: commands the task-executor sends
    MaxFailures      \* bound: failed calls to Redis or etcd

NoJob == "none"

\* What a run of the algorithm ends with: nothing yet, an answer without data
\* (its "stopped" message, or the text of the stop timeout), an error, or the
\* value of a job.
Results == Jobs \cup {"none", "empty", "error"}

ASSUME WorkerAssumption ==
    /\ Jobs \cap {"none", "empty", "error", "active"} = {}
    /\ DebugMode \in BOOLEAN
    /\ {MaxStops, MaxConnections, MaxCommands, MaxFailures} \subseteq Nat

VARIABLES
    \* stateManager
    state, results, smJob,
    \* worker
    isConnected, isInit, isBootstrapped,
    idleTimer,     \* _inactiveTimer is running
    stopTimer,     \* the timer _stopTimeout refers to is running
    lostTimers,    \* stop timers still running that _stopTimeout was moved off
    term,          \* _inTerminationMode
    dead,          \* the process has exited
    \* jobConsumer and jobProvider
    cjob, hot, paused, isReady, slot,
    \* the handlers waiting for an awaited call
    suspended,
    \* the worker's discovery record in etcd
    published,
    \* the job queue in Redis: jobs not delivered, acknowledgements, paused or not
    queued, acks, queuePaused,
    \* etcd: the jobs whose state is watched, and those whose state is "stop"
    watched, stopped,
    task,          \* the record of a job's task: "none", "active", "error" for
                   \* failed, or what a succeeded task is recorded to have returned
    stored,        \* the output the storage holds for a job
    \* the algorithm container
    algUp,         \* its newest connection is open
    halfOpen,      \* older connections whose close was not seen yet
    socket,        \* the adapter holds a socket (_socket is not null)
    asked, algInput,
    \* events counted so far
    nStops, nConnections, nCommands, nFailures

smVars   == <<state, results, smJob>>
bootVars == <<isConnected, isInit, isBootstrapped>>
jobVars  == <<cjob, isReady>>
cmdVars  == <<hot, paused, queuePaused>>
etcdVars == <<watched, stopped, task, stored>>
sockVars == <<algUp, halfOpen, socket>>
counters == <<nStops, nConnections, nCommands, nFailures>>
\* everything that a transition of the state machine may change
stepVars == <<smVars, jobVars, acks, asked, idleTimer, stopTimer, lostTimers,
              term, suspended, published>>
vars == <<stepVars, bootVars, dead, cmdVars, slot, queued, etcdVars, sockVars,
          algInput, counters>>

Points == {"job.watch", "job.unwatch", "job.update",
           "stop", "algError", "disconnect",
           "ready", "extract", "unwatch", "put", "update", "cleanup",
           "pause", "resume", "setInactive"}
Handlers == [at : Points, res : Results, job : Jobs \cup {NoJob}]
Handler(at, res, job) == [at |-> at, res |-> res, job |-> job]
Waiting(at) == Handler(at, "none", NoJob)
Discovery == [state : States, job : Jobs \cup {NoJob}, paused : BOOLEAN, hot : BOOLEAN]

\* Every variable of the worker, of its job and of what surrounds it has its type: no transition
\* leaves the state machine in a state that is none (stateManager.js).
TypeOK ==
    /\ state \in States /\ results \in Results /\ smJob \in Jobs \cup {NoJob}
    /\ <<isConnected, isInit, isBootstrapped>> \in BOOLEAN \X BOOLEAN \X BOOLEAN
    /\ idleTimer \in BOOLEAN /\ stopTimer \in BOOLEAN /\ lostTimers \in Nat
    /\ term \in BOOLEAN /\ dead \in BOOLEAN
    /\ cjob \in Jobs \cup {NoJob} /\ slot \in Jobs \cup {NoJob}
    /\ hot \in BOOLEAN /\ paused \in BOOLEAN /\ isReady \in BOOLEAN
    /\ DOMAIN suspended \subseteq Handlers
    /\ \A h \in DOMAIN suspended : suspended[h] \in Nat \ {0}
    /\ published \in Discovery
    /\ queued \subseteq Jobs /\ acks \in [Jobs -> Nat] /\ queuePaused \in BOOLEAN
    /\ watched \subseteq Jobs /\ stopped \subseteq Jobs
    /\ task \in [Jobs -> Results \cup {"active"}]
    /\ stored \in [Jobs -> Results]
    /\ algUp \in BOOLEAN /\ halfOpen \in Nat /\ socket \in BOOLEAN
    /\ asked \subseteq {"initialize", "start", "stop"}
    /\ algInput \in Jobs \cup {NoJob}
    /\ nStops \in Nat /\ nConnections \in Nat /\ nCommands \in Nat /\ nFailures \in Nat

Init ==
    /\ state = "bootstrap" /\ results = "none" /\ smJob = NoJob
    /\ isConnected = FALSE /\ isInit = FALSE /\ isBootstrapped = FALSE
    /\ idleTimer = FALSE /\ stopTimer = FALSE /\ lostTimers = 0
    /\ term = FALSE /\ dead = FALSE
    /\ cjob = NoJob /\ slot = NoJob /\ isReady = FALSE
    /\ hot \in BOOLEAN /\ paused = FALSE
    /\ suspended = EmptyBag
    /\ published = [state |-> "bootstrap", job |-> NoJob, paused |-> FALSE, hot |-> hot]
    /\ queued = Jobs /\ acks = [j \in Jobs |-> 0] /\ queuePaused = FALSE
    /\ watched = {} /\ stopped = {}
    /\ task = [j \in Jobs |-> "none"] /\ stored = [j \in Jobs |-> "none"]
    /\ algUp = FALSE /\ halfOpen = 0 /\ socket = FALSE
    /\ asked = {} /\ algInput = NoJob
    /\ nStops = 0 /\ nConnections = 0 /\ nCommands = 0 /\ nFailures = 0

-----------------------------------------------------------------------------
(***************************************************************************)
(* A transition of the state machine.  A call c of it comes with what the  *)
(* calling handler has done before, in the same run: the results and the   *)
(* job it has set, the handlers left waiting, what the algorithm has left  *)
(* to answer, the stop timers left, whether worker.init has registered for *)
(* the states that are entered; and with what the handler does after it:   *)
(* whether it calls handleExit, and the state it announces to the          *)
(* discovery, if any.                                                      *)
(***************************************************************************)
Calling(rest) == [res |-> results, job |-> smJob, rest |-> rest, asked |-> asked,
                  stopTimer |-> stopTimer, lostTimers |-> lostTimers,
                  heard |-> isInit, exits |-> FALSE, announces |-> "none"]

DiscoveryOf(s, j) == [state |-> s, job |-> j, paused |-> paused, hot |-> hot]

\* The command a state sends to the algorithm when it is entered.
CommandOf(s) == CASE s = "working" -> {"start"} [] s = "stop" -> {"stop"} [] OTHER -> {}

\* Faulty variants: the algorithm is asked to stop with no timer set; a state other
\* than ready does not clear the idle timer.
TimersWithoutStop(s, c) ==
    /\ idleTimer' = (s = "ready" /\ ~hot)
    /\ stopTimer' = c.stopTimer /\ lostTimers' = c.lostTimers

TimersKeepIdle(s, c) ==
    /\ idleTimer' = (IF s = "ready" THEN ~hot ELSE idleTimer)
    /\ stopTimer' = (c.stopTimer \/ s = "stop")
    /\ lostTimers' = c.lostTimers + IF s = "stop" /\ c.stopTimer THEN 1 ELSE 0

\* Entering ready starts the idle timer of a worker that is not hot, any other
\* state clears it; entering stop starts a stop timer.
Timers(s, c) ==
    /\ idleTimer' = (s = "ready" /\ ~hot)
    /\ stopTimer' = (c.stopTimer \/ s = "stop")
    /\ lostTimers' = c.lostTimers + IF s = "stop" /\ c.stopTimer THEN 1 ELSE 0

\* The part of the stateEntered handler that runs until its first await.
Entered(s, c) ==
    LET sent == CommandOf(s) = {} \/ socket
    IN  /\ isReady' = (isReady \/ s = "ready")
        /\ Timers(s, c)
        /\ asked' = c.asked \cup IF socket THEN CommandOf(s) ELSE {}
        /\ term' = (term \/ c.exits \/ s = "exit" \/ ~sent)
        /\ suspended' =
              CASE s = "results" /\ cjob # NoJob -> BagAdd(c.rest, Handler("unwatch", c.res, cjob))
                [] s = "results" /\ cjob = NoJob -> BagAdd(c.rest, Waiting("cleanup"))
                [] s = "init" -> BagAdd(c.rest, Handler("extract", "none", c.job))
                [] s = "ready" -> BagAdd(c.rest, Waiting("ready"))
                [] OTHER -> c.rest
        /\ published' =
              CASE c.announces # "none" -> DiscoveryOf(c.announces, cjob')
                [] \/ s \in {"working", "stop", "exit"} /\ sent
                   \/ s = "results" /\ cjob = NoJob -> DiscoveryOf(s, cjob')
                [] OTHER -> published

\* Before worker.init nothing listens to the states that are entered.
EnteredUnheard(s, c) ==
    /\ isReady' = (isReady \/ s = "ready")
    /\ term' = (term \/ c.exits)
    /\ suspended' = c.rest /\ asked' = c.asked
    /\ stopTimer' = c.stopTimer /\ lostTimers' = c.lostTimers
    /\ UNCHANGED <<idleTimer, published>>

\* Faulty variant: the consumer acknowledges the job and keeps it.
FinishKeeps(s, c) ==
    /\ acks' = IF s = "ready" /\ state # "ready" /\ c.job # NoJob /\ cjob # NoJob
               THEN [acks EXCEPT ![cjob] = @ + 1] ELSE acks
    /\ UNCHANGED cjob

\* Faulty variant: the job is acknowledged when its results come in, before they
\* are stored.
FinishEarly(s, c) ==
    /\ acks' = IF s = "results" /\ state # "results" /\ cjob # NoJob
               THEN [acks EXCEPT ![cjob] = @ + 1] ELSE acks
    /\ cjob' = IF s = "ready" /\ state # "ready" /\ c.job # NoJob THEN NoJob ELSE cjob

\* Entering ready for a job emits 'finish', on which the consumer
\* acknowledges the job it holds and forgets it.
Finish(s, c) ==
    IF s = "ready" /\ state # "ready" /\ c.job # NoJob
    THEN /\ acks' = IF cjob = NoJob THEN acks ELSE [acks EXCEPT ![cjob] = @ + 1]
         /\ cjob' = NoJob
    ELSE UNCHANGED <<acks, cjob>>

Transit(t, c) ==
    LET s == Target(t, state, DebugMode)
    IN  /\ results' = c.res /\ smJob' = c.job /\ state' = s
        /\ \/ /\ state \notin From[t] /\ DebugMode
              /\ suspended' = c.rest /\ asked' = c.asked
              /\ stopTimer' = c.stopTimer /\ lostTimers' = c.lostTimers
              /\ term' = (term \/ c.exits)
              /\ published' = IF c.announces = "none" THEN published
                              ELSE DiscoveryOf(c.announces, cjob)
              /\ UNCHANGED <<jobVars, acks, idleTimer>>
           \/ /\ state \in From[t] \/ ~DebugMode
              /\ Finish(s, c)
              /\ IF c.heard THEN Entered(s, c) ELSE EnteredUnheard(s, c)

\* stateManager.done: the results are set before the transition is tried.
Done(r, c) == Transit("done", [c EXCEPT !.res = r])

\* One handler waiting at h.at is resumed.
Resumed(h) == ~dead /\ h \in DOMAIN suspended
Rest(h) == BagRemove(suspended, h)

-----------------------------------------------------------------------------
(***************************************************************************)
(* Starting up and the connection to the algorithm.                        *)
(***************************************************************************)
Bootstrap(c) ==
    IF isConnected' /\ isInit' /\ ~isBootstrapped
    THEN isBootstrapped' = TRUE /\ Transit("bootstrap", c)
    ELSE /\ asked' = c.asked
         /\ UNCHANGED <<isBootstrapped, smVars, jobVars, acks, idleTimer, stopTimer,
                        lostTimers, term, suspended, published>>

InitWorker ==
    /\ ~dead /\ ~isInit
    /\ isInit' = TRUE /\ isConnected' = isConnected
    /\ Bootstrap([Calling(suspended) EXCEPT !.heard = TRUE])
    /\ UNCHANGED <<dead, cmdVars, slot, queued, etcdVars, sockVars, algInput, counters>>

\* The algorithm opens a connection; the adapter moves to the new socket even
\* when it has not seen the old one close.  It may be a container that has started
\* anew, or the one that lost its connection and still owes its answers.
Connect ==
    /\ ~dead /\ nConnections < MaxConnections
    /\ nConnections' = nConnections + 1
    /\ algUp' = TRUE /\ socket' = TRUE
    /\ halfOpen' = halfOpen + IF algUp THEN 1 ELSE 0
    /\ isConnected' = TRUE /\ isInit' = isInit
    /\ \E owed \in {{}, asked} :
          IF state = "exit"
          THEN asked' = owed /\ UNCHANGED <<isBootstrapped, smVars, jobVars, acks, idleTimer,
                                   stopTimer, lostTimers, term, suspended, published>>
          ELSE Bootstrap([Calling(suspended) EXCEPT !.asked = owed])
    /\ UNCHANGED <<dead, cmdVars, slot, queued, etcdVars, algInput, nStops, nCommands, nFailures>>

\* Faulty variant: the worker does not listen to disconnects.
DisconnectUnheard ==
    /\ ~dead
    /\ \/ algUp /\ algUp' = FALSE /\ halfOpen' = halfOpen
       \/ halfOpen > 0 /\ halfOpen' = halfOpen - 1 /\ algUp' = algUp
    /\ socket' = FALSE
    /\ UNCHANGED <<smVars, bootVars, jobVars, acks, asked, idleTimer, stopTimer, lostTimers,
                   term, suspended, published, dead, cmdVars, slot, queued, etcdVars, algInput,
                   counters>>

\* A connection closes: whichever it is, the adapter drops the socket it holds.
\* The worker first waits for the status of the algorithm's container.
Disconnect ==
    /\ ~dead
    /\ \/ algUp /\ algUp' = FALSE /\ halfOpen' = halfOpen
       \/ halfOpen > 0 /\ halfOpen' = halfOpen - 1 /\ algUp' = algUp
    /\ socket' = FALSE
    /\ suspended' = IF state = "exit" \/ DebugMode THEN suspended
                    ELSE BagAdd(suspended, Waiting("disconnect"))
    /\ UNCHANGED <<smVars, bootVars, jobVars, acks, asked, idleTimer, stopTimer, lostTimers,
                   term, published, dead, cmdVars, slot, queued, etcdVars, algInput, counters>>

\* stateManager's timer in bootstrap: no algorithm has connected for too long.
BootTimeout ==
    /\ ~dead /\ state = "bootstrap"
    /\ Transit("exit", Calling(suspended))
    /\ UNCHANGED <<bootVars, dead, cmdVars, slot, queued, etcdVars, sockVars, algInput, counters>>

(***************************************************************************)
(* Messages of the algorithm.  It answers each command once, at any later  *)
(* time, over a connection that the worker has not seen close: one it sent *)
(* before it opened another may come in late.  It may report an error      *)
(* while it owes an answer to "initialize" or "start".  An answer carries  *)
(* the value of the job whose input the algorithm got last.                *)
(***************************************************************************)
Reachable == algUp \/ halfOpen > 0

otherVars == <<bootVars, dead, cmdVars, slot, queued, sockVars, counters>>

AlgInitialized ==
    /\ ~dead /\ Reachable /\ "initialize" \in asked
    /\ Transit("start", [Calling(suspended) EXCEPT !.res = "none", !.asked = @ \ {"initialize"}])
    /\ UNCHANGED <<otherVars, etcdVars, algInput>>

AlgDone ==
    /\ ~dead /\ Reachable /\ "start" \in asked
    /\ Done(algInput, [Calling(suspended) EXCEPT !.asked = @ \ {"start"}])
    /\ UNCHANGED <<otherVars, etcdVars, algInput>>

\* clearTimeout reaches only the timer that _stopTimeout refers to.
AlgStopped ==
    /\ ~dead /\ Reachable /\ "stop" \in asked
    /\ Done("empty", [Calling(suspended) EXCEPT !.asked = @ \ {"stop"}, !.stopTimer = FALSE])
    /\ UNCHANGED <<otherVars, etcdVars, algInput>>

\* errorMessage: the sub-pipelines are stopped before the job is finished.
AlgError ==
    /\ ~dead /\ Reachable
    /\ \E m \in asked \cap {"initialize", "start"} : asked' = asked \ {m}
    /\ suspended' = BagAdd(suspended, Waiting("algError"))
    /\ UNCHANGED <<smVars, jobVars, acks, idleTimer, stopTimer, lostTimers, term, published,
                   otherVars, etcdVars, algInput>>

AlgErrorHandled ==
    LET h == Waiting("algError")
    IN  /\ Resumed(h)
        /\ Done("error", Calling(Rest(h)))
        /\ UNCHANGED <<otherVars, etcdVars, algInput>>

DisconnectHandled ==
    LET h == Waiting("disconnect")
    IN  /\ Resumed(h)
        /\ Done("error", Calling(Rest(h)))
        /\ UNCHANGED <<otherVars, etcdVars, algInput>>

-----------------------------------------------------------------------------
(***************************************************************************)
(* Taking a job.  The queue hands the consumer one job at a time, while it *)
(* is not paused; the provider keeps it until the worker is ready.         *)
(***************************************************************************)
Deliver(j) ==
    /\ ~dead /\ j \in queued /\ ~queuePaused
    /\ \A k \in Jobs \ queued : acks[k] > 0
    /\ queued' = queued \ {j} /\ slot' = j
    /\ UNCHANGED <<stepVars, bootVars, dead, cmdVars, etcdVars, sockVars, algInput, counters>>

\* The provider's polling: it remembers that ready was entered once.
Poll ==
    /\ ~dead /\ isReady /\ slot # NoJob
    /\ suspended' = BagAdd(suspended, Handler("job.watch", "none", slot))
    /\ slot' = NoJob
    /\ UNCHANGED <<smVars, jobVars, acks, asked, idleTimer, stopTimer, lostTimers, term,
                   published, bootVars, dead, cmdVars, queued, etcdVars, sockVars,
                   algInput, counters>>

\* etcd.watch has returned, with the state of the pipeline.
JobWatched(j) ==
    LET h == Handler("job.watch", "none", j)
    IN  /\ Resumed(h)
        /\ watched' = watched \cup {j}
        /\ IF j \in stopped
           THEN /\ suspended' = BagAdd(Rest(h), Handler("job.unwatch", "none", j))
                /\ cjob' = cjob
           ELSE /\ suspended' = BagAdd(Rest(h), Handler("job.update", "none", j))
                /\ cjob' = j
        /\ UNCHANGED <<smVars, isReady, acks, asked, idleTimer, stopTimer, lostTimers, term,
                       published, otherVars, stopped, task, stored, algInput>>

\* _stopJob: a job that was stopped already is acknowledged without a run.
JobUnwatched(j) ==
    LET h == Handler("job.unwatch", "none", j)
    IN  /\ Resumed(h)
        /\ watched' = watched \ {j}
        /\ acks' = [acks EXCEPT ![j] = @ + 1]
        /\ suspended' = Rest(h)
        /\ UNCHANGED <<smVars, jobVars, asked, idleTimer, stopTimer, lostTimers, term,
                       published, otherVars, stopped, task, stored, algInput>>

JobUpdated(j) ==
    LET h == Handler("job.update", "none", j)
    IN  /\ Resumed(h)
        /\ task' = [task EXCEPT ![j] = "active"]
        /\ Transit("prepare", [Calling(Rest(h)) EXCEPT !.job = j])
        /\ UNCHANGED <<otherVars, watched, stopped, stored, algInput>>

\* The input of the job has been read from the storage.
Extracted(j) ==
    LET h == Handler("extract", "none", j)
    IN  /\ Resumed(h)
        /\ suspended' = Rest(h)
        /\ IF socket
           THEN /\ asked' = asked \cup {"initialize"} /\ algInput' = j
                /\ published' = DiscoveryOf("init", cjob)
                /\ term' = term
           ELSE term' = TRUE /\ UNCHANGED <<asked, algInput, published>>
        /\ UNCHANGED <<smVars, jobVars, acks, idleTimer, stopTimer, lostTimers,
                       otherVars, etcdVars>>

ExtractFailed(j) ==
    LET h == Handler("extract", "none", j)
    IN  /\ Resumed(h)
        /\ Done("error", [Calling(Rest(h)) EXCEPT !.announces = "init"])
        /\ UNCHANGED <<otherVars, etcdVars, algInput>>

-----------------------------------------------------------------------------
(***************************************************************************)
(* finishJob, then cleanup: the task's result goes to the storage, its     *)
(* status to etcd, and the worker back to ready.  Each step takes the job  *)
(* that the consumer holds by then; without one it fails on a null job.    *)
(***************************************************************************)
FinishWith(rest, at, r) ==
    /\ suspended' = IF cjob = NoJob THEN rest ELSE BagAdd(rest, Handler(at, r, cjob))
    /\ term' = (term \/ cjob = NoJob)
    /\ UNCHANGED <<smVars, jobVars, acks, asked, idleTimer, stopTimer, lostTimers,
                   published, otherVars, algInput>>

\* Faulty variant: a failed job is not recorded.
UnwatchedForgets(h) ==
    /\ h.at = "unwatch" /\ Resumed(h)
    /\ watched' = watched \ {h.job}
    /\ IF h.res = "error"
       THEN /\ suspended' = BagAdd(Rest(h), Waiting("cleanup"))
            /\ UNCHANGED <<smVars, jobVars, acks, asked, idleTimer, stopTimer, lostTimers, term,
                           published, otherVars, algInput>>
       ELSE FinishWith(Rest(h), "put", h.res)
    /\ UNCHANGED <<stopped, task, stored>>

Unwatched(h) ==
    /\ h.at = "unwatch" /\ Resumed(h)
    /\ watched' = watched \ {h.job}
    /\ FinishWith(Rest(h), IF h.res = "error" THEN "update" ELSE "put", h.res)
    /\ UNCHANGED <<stopped, task, stored>>

ResultStored(h) ==
    /\ h.at = "put" /\ Resumed(h)
    /\ stored' = [stored EXCEPT ![h.job] = h.res]
    /\ FinishWith(Rest(h), "update", h.res)
    /\ UNCHANGED <<watched, stopped, task>>

\* Faulty variant: the failure does not change the status of the task.
StoreFailedUnnoticed(h) ==
    /\ h.at = "put" /\ Resumed(h)
    /\ FinishWith(Rest(h), "update", h.res)
    /\ UNCHANGED etcdVars

StoreFailed(h) ==
    /\ h.at = "put" /\ Resumed(h)
    /\ FinishWith(Rest(h), "update", "error")
    /\ UNCHANGED etcdVars

\* etcd.update has returned; the metadata and the discovery are written too.
TaskUpdated(h) ==
    /\ h.at = "update" /\ Resumed(h)
    /\ task' = [task EXCEPT ![h.job] = h.res]
    /\ published' = DiscoveryOf("results", cjob)
    /\ suspended' = BagAdd(Rest(h), Waiting("cleanup"))
    /\ UNCHANGED <<smVars, jobVars, acks, asked, idleTimer, stopTimer, lostTimers, term,
                   otherVars, watched, stopped, stored, algInput>>

CleanedUp ==
    LET h == Waiting("cleanup")
    IN  /\ Resumed(h)
        /\ Transit("cleanup", Calling(Rest(h)))
        /\ UNCHANGED <<otherVars, etcdVars, algInput>>

\* Entering ready, the sub-pipelines have been stopped.
ReadyHandled ==
    LET h == Waiting("ready")
    IN  /\ Resumed(h)
        /\ suspended' = Rest(h)
        /\ published' = DiscoveryOf("ready", cjob)
        /\ UNCHANGED <<smVars, jobVars, acks, asked, idleTimer, stopTimer, lostTimers, term,
                       otherVars, etcdVars, algInput>>

-----------------------------------------------------------------------------
(***************************************************************************)
(* Stop requests.                                                          *)
(***************************************************************************)
\* The state of a job's pipeline becomes "stop" in etcd.  A watched job's
\* worker is told; it first stops the sub-pipelines of the job.
StopJob(j) ==
    /\ ~dead /\ nStops < MaxStops /\ acks[j] = 0
    /\ nStops' = nStops + 1
    /\ stopped' = stopped \cup {j}
    /\ suspended' = IF j \in watched /\ isInit THEN BagAdd(suspended, Waiting("stop"))
                    ELSE suspended
    /\ UNCHANGED <<smVars, jobVars, acks, asked, idleTimer, stopTimer, lostTimers, term,
                   published, bootVars, dead, cmdVars, slot, queued, watched, task, stored,
                   sockVars, algInput, nConnections, nCommands, nFailures>>

StopHandled ==
    LET h == Waiting("stop")
    IN  /\ Resumed(h)
        /\ Transit("stop", Calling(Rest(h)))
        /\ UNCHANGED <<otherVars, etcdVars, algInput>>

\* The algorithm has not answered "stop" in time, as far as this timer knows.
StopTimeout ==
    /\ ~dead
    /\ \/ /\ stopTimer
          /\ Done("empty", [Calling(suspended) EXCEPT !.stopTimer = FALSE, !.exits = TRUE])
       \/ /\ lostTimers > 0
          /\ Done("empty", [Calling(suspended) EXCEPT !.lostTimers = @ - 1, !.exits = TRUE])
    /\ UNCHANGED <<otherVars, etcdVars, algInput>>

-----------------------------------------------------------------------------
(***************************************************************************)
(* Commands of the task-executor, and the worker's idleness.               *)
(***************************************************************************)
Command ==
    /\ ~dead /\ isInit /\ nCommands < MaxCommands
    /\ nCommands' = nCommands + 1
    /\ UNCHANGED <<smVars, jobVars, acks, asked, idleTimer, stopTimer, lostTimers, term,
                   bootVars, dead, slot, queued, etcdVars, sockVars, algInput,
                   nStops, nConnections>>

\* warmUp and coolDown
SetHot(b) ==
    /\ Command
    /\ hot' = b
    /\ published' = [DiscoveryOf(state, cjob) EXCEPT !.hot = b]
    /\ suspended' = BagAdd(suspended, Waiting("setInactive"))
    /\ UNCHANGED <<paused, queuePaused, nFailures>>

\* The queue is paused, or resumed, in the order of the calls; a call that
\* fails leaves it as it is, and the consumer learns so when it returns.
CallQueue(at, pause) ==
    \/ /\ queuePaused' = pause
       /\ suspended' = BagAdd(suspended, Waiting(at))
       /\ UNCHANGED nFailures
    \/ /\ nFailures < MaxFailures /\ nFailures' = nFailures + 1
       /\ suspended' = BagAdd(suspended, Handler(at, "error", NoJob))
       /\ UNCHANGED queuePaused

StopProcessing ==
    /\ Command /\ ~paused
    /\ paused' = TRUE
    /\ CallQueue("pause", TRUE)
    /\ UNCHANGED <<hot, published>>

StartProcessing ==
    /\ Command /\ state # "exit" /\ paused
    /\ paused' = FALSE
    /\ CallQueue("resume", FALSE)
    /\ UNCHANGED <<hot, published>>

\* Faulty variant: a failed call is not undone in the flag.
QueueReturnedAnyhow(h) ==
    /\ h.at \in {"pause", "resume"} /\ Resumed(h)
    /\ published' = DiscoveryOf(state, cjob)
    /\ suspended' = BagAdd(Rest(h), Waiting("setInactive"))
    /\ UNCHANGED <<smVars, jobVars, acks, asked, idleTimer, stopTimer, lostTimers, term,
                   bootVars, dead, hot, paused, queuePaused, slot, queued, etcdVars, sockVars,
                   algInput, counters>>

\* The call to the queue returns; a failed one is undone in the flag.
QueueReturned(h) ==
    /\ h.at \in {"pause", "resume"} /\ Resumed(h)
    /\ paused' = IF h.res = "error" THEN h.at = "resume" ELSE paused
    /\ published' = [DiscoveryOf(state, cjob) EXCEPT !.paused = paused']
    /\ suspended' = BagAdd(Rest(h), Waiting("setInactive"))
    /\ UNCHANGED <<smVars, jobVars, acks, asked, idleTimer, stopTimer, lostTimers, term,
                   bootVars, dead, hot, queuePaused, slot, queued, etcdVars, sockVars,
                   algInput, counters>>

\* Faulty variant: the timer is cleared and never set again.
SetInactiveClears ==
    LET h == Waiting("setInactive")
    IN  /\ Resumed(h)
        /\ suspended' = Rest(h)
        /\ idleTimer' = FALSE
        /\ UNCHANGED <<smVars, jobVars, acks, asked, stopTimer, lostTimers, term, published,
                       otherVars, etcdVars, algInput>>

\* _setInactiveTimeout, with the state the worker is in by now.
SetInactive ==
    LET h == Waiting("setInactive")
    IN  /\ Resumed(h)
        /\ suspended' = Rest(h)
        /\ idleTimer' = (state = "ready" /\ ~hot)
        /\ UNCHANGED <<smVars, jobVars, acks, asked, stopTimer, lostTimers, term, published,
                       otherVars, etcdVars, algInput>>

IdleTimeout ==
    /\ ~dead /\ idleTimer
    /\ IF term
       THEN /\ idleTimer' = FALSE
            /\ UNCHANGED <<smVars, jobVars, acks, asked, stopTimer, lostTimers, term,
                           suspended, published>>
       ELSE Transit("exit", Calling(suspended))
    /\ UNCHANGED <<otherVars, etcdVars, algInput>>

-----------------------------------------------------------------------------
(***************************************************************************)
(* Failures and the end of the process.                                    *)
(***************************************************************************)
Failing ==
    /\ ~dead /\ nFailures < MaxFailures
    /\ nFailures' = nFailures + 1
    /\ term' = TRUE
    /\ UNCHANGED <<smVars, jobVars, acks, asked, idleTimer, stopTimer, lostTimers, published,
                   bootVars, dead, cmdVars, slot, queued, etcdVars, sockVars, algInput,
                   nStops, nConnections, nCommands>>

\* Faulty variant: the unhandled rejection is logged only.
RejectedLogged(h) ==
    /\ h.at \in {"job.watch", "job.update", "update", "cleanup", "setInactive"}
    /\ h \in DOMAIN suspended
    /\ ~dead /\ nFailures < MaxFailures
    /\ nFailures' = nFailures + 1
    /\ suspended' = Rest(h)
    /\ UNCHANGED <<smVars, jobVars, acks, asked, idleTimer, stopTimer, lostTimers, term,
                   published, bootVars, dead, cmdVars, slot, queued, etcdVars, sockVars, algInput,
                   nStops, nConnections, nCommands>>

\* An awaited call to etcd fails: its handler ends, and the unhandled
\* rejection calls handleExit(1), which leaves the state as it is.
Rejected(h) ==
    /\ h.at \in {"job.watch", "job.update", "update", "cleanup", "setInactive"}
    /\ h \in DOMAIN suspended
    /\ suspended' = Rest(h)
    /\ Failing

\* The same for a call that is the last thing its handler does.
Unhandled == Failing /\ ~term /\ suspended' = suspended

\* handleExit has waited for the algorithm's container, has deleted the job of
\* the pod if need be, and exits whatever went wrong.
Exit ==
    /\ ~dead /\ term
    /\ dead' = TRUE
    /\ UNCHANGED <<stepVars, bootVars, cmdVars, slot, queued, etcdVars, sockVars, algInput,
                   counters>>

\* SIGTERM and SIGINT
Signal ==
    /\ ~dead /\ dead' = TRUE
    /\ UNCHANGED <<stepVars, bootVars, cmdVars, slot, queued, etcdVars, sockVars, algInput,
                   counters>>

Gone == dead /\ UNCHANGED vars

-----------------------------------------------------------------------------
Pending == DOMAIN suspended

\* An awaited call returns to the handler that waits for it.
Return ==
    \/ \E j \in Jobs : \/ JobWatched(j) \/ JobUnwatched(j) \/ JobUpdated(j)
                       \/ Extracted(j) \/ ExtractFailed(j)
    \/ \E h \in Pending : \/ Unwatched(h) \/ ResultStored(h) \/ StoreFailed(h)
                          \/ TaskUpdated(h) \/ QueueReturned(h)
    \/ CleanedUp \/ ReadyHandled \/ StopHandled \/ SetInactive
    \/ AlgErrorHandled \/ DisconnectHandled

Answer == AlgInitialized \/ AlgDone \/ AlgStopped \/ AlgError

Next ==
    \/ InitWorker \/ Connect \/ Disconnect \/ BootTimeout
    \/ Answer
    \/ \E j \in Jobs : Deliver(j) \/ StopJob(j)
    \/ Poll
    \/ Return
    \/ \E b \in BOOLEAN : SetHot(b)
    \/ StopProcessing \/ StartProcessing
    \/ StopTimeout \/ IdleTimeout
    \/ \E h \in Pending : Rejected(h)
    \/ Unhandled \/ Exit \/ Signal \/ Gone

\* The process makes progress and its timers fire.  Nothing is assumed of the
\* algorithm, of the users who stop pipelines or of the task-executor.
Fairness ==
    /\ WF_vars(InitWorker) /\ WF_vars(Return) /\ WF_vars(Poll) /\ WF_vars(Exit)
    /\ WF_vars(StopTimeout) /\ WF_vars(IdleTimeout) /\ WF_vars(BootTimeout)

Spec == Init /\ [][Next]_vars
FairSpec == Spec /\ Fairness

-----------------------------------------------------------------------------
(***************************************************************************)
(* Properties.                                                             *)
(***************************************************************************)
\* No job is acknowledged to the queue twice: 'finish' (JobConsumer.js:86-96),
\* which every return to ready emits for a job that stateManager never forgets,
\* and _stopJob (99-103) never both reach job.done of the same job.
AckedOnce == \A j \in Jobs : acks[j] <= 1

\* Nor is a job ever at two places: waiting in the queue, in the provider's slot,
\* in a handler of the consumer that takes it or sends it back, held as the
\* consumer's job (JobConsumer.js:62-103), or acknowledged.
Here(b) == IF b THEN 1 ELSE 0
Copies(h, b) == IF h \in DOMAIN b THEN b[h] ELSE 0
AtWatch(j) == Handler("job.watch", "none", j)
AtUnwatch(j) == Handler("job.unwatch", "none", j)
AtUpdate(j) == Handler("job.update", "none", j)
Places(j) ==
    Here(j \in queued) + Here(slot = j) + Copies(AtWatch(j), suspended)
        + Copies(AtUnwatch(j), suspended) + Here(cjob = j) + acks[j]
OnePlace == \A j \in Jobs : Places(j) <= 1

\* Unless a stop request came in, each step of finishJob (JobConsumer.js:270-288)
\* works for the job the consumer still holds when the step runs: no other
\* handler has acknowledged that job or replaced it during the awaits.
FinishesJobInHand ==
    stopped = {} => \A h \in Pending : h.at \in {"unwatch", "put", "update"} => h.job = cjob

\* Unless a stop request came in, a task is recorded as succeeded in etcd only
\* when the storage holds just that output (JobConsumer.js:278-283), which the
\* next nodes of the pipeline read.
RecordedIsStored ==
    stopped = {} => \A j \in Jobs :
        task[j] \notin {"none", "active", "error"} => stored[j] = task[j]

\* As long as the algorithm keeps its first connection and nothing is stopped,
\* no job gets the output of another job, although answers carry no job id
\* (worker.js:153-155).
OwnOutput ==
    nConnections <= 1 /\ stopped = {} =>
        \A j \in Jobs : stored[j] \in {"none", "empty", j}

\* The inactivity timer (worker.js:309-330) runs only in ready: it never ends a
\* worker whose job is being prepared, run or finished.
IdleTimerOnlyInReady == idleTimer => state = "ready"

\* A worker that waits for jobs and is not hot has its inactivity timer running,
\* whatever commands, jobs and failures came before, unless the command that
\* cooled it down is still waiting for etcd or the worker is exiting.
IdleTimerIsSet ==
    state = "ready" /\ ~hot /\ ~term /\ Waiting("setInactive") \notin Pending => idleTimer

\* When no call to the queue is under way, the consumer's pause flag is the
\* queue's: a stopProcessing that overlaps a startProcessing never leaves a paused
\* queue that startProcessing then ignores, even if one of the two calls fails
\* (worker.js:74-90, JobConsumer.js:129-151).  With a third command, or a second
\* failure, a failure that is reported late resets a flag set since.
PauseFlagIsRight ==
    /\ \A h \in Pending : h.at \notin {"pause", "resume"}
    /\ nFailures = 0 \/ (nCommands <= 2 /\ nFailures = 1)
    => paused = queuePaused

\* The worker never waits for what will not come: whatever handlers, answers, stops
\* and timers overlap, and though a transition that is not configured is ignored in
\* debug mode after the results or the job of the state manager were set
\* (stateManager.js:54-59, 193-201), something is due that ends the state it is in.
\* In init and working that is the algorithm's, on its first connection: a container
\* that connects anew is never asked again (worker.js:113-119).
FirstUp == nConnections = 1 /\ algUp
AtPoint(S) == \E h \in Pending : h.at \in S
SomethingIsDue ==
    ~term =>
        /\ state = "ready" /\ cjob # NoJob => AtUpdate(cjob) \in Pending
        /\ state = "init" /\ FirstUp => AtPoint({"extract", "algError"}) \/ "initialize" \in asked
        /\ state = "working" /\ FirstUp => AtPoint({"algError"}) \/ "start" \in asked
        /\ state = "stop" => stopTimer \/ lostTimers > 0
        /\ state = "results" => AtPoint({"unwatch", "put", "update", "cleanup"})

\* A worker in stop leaves it although the algorithm never answers: the stop
\* timer gives up on the algorithm (worker.js:373-378).
StopEnds == state = "stop" ~> state # "stop" \/ dead

\* A worker in results leaves it, although the storage fails (JobConsumer.js:336),
\* or etcd does on the way and the rejection of the stateEntered handler
\* (worker.js:343-347, 385-388) ends the worker.
ResultsEnd == state = "results" ~> state # "results" \/ dead

\* A job in hand whose algorithm has disconnected is let go, or the worker is
\* gone, or another algorithm container has connected: the disconnect handler
\* (worker.js:120-137), a failed send or a transition out of order sees to it.
LostAlgorithmFreesJob ==
    \A j \in Jobs : cjob = j /\ ~algUp ~> cjob # j \/ algUp \/ dead

\* The worker keeps the promise of JobLifecycle to the queue and the pipelines.
InHand == CHOOSE j \in Jobs \cup {NoJob} :
    IF \E k \in Jobs \ queued : acks[k] = 0 THEN j \in Jobs \ queued /\ acks[j] = 0
    ELSE j = NoJob

Lifecycle == INSTANCE JobLifecycle WITH
    Outcomes <- Results, waiting <- queued, inHand <- InHand,
    acked <- {j \in Jobs : acks[j] > 0},
    outcome <- [j \in Jobs |-> IF task[j] = "active" THEN "none" ELSE task[j]]

JobLifecycleSpec == Lifecycle!Spec
=============================================================================
