----------------------------- MODULE PipelineRun -----------------------------
(***************************************************************************)
(* The runs of one pipeline through the api-server: requests to run it, to *)
(* stop a run and to clean one, the watch of results, and the events of    *)
(* the jobs queue (execution.js, jobs-producer.js, webhooks-handler.js).   *)
(* All runs share the prefix of their job ids, so that they count for the  *)
(* same option concurrentPipelines.  One api-server process serves them;   *)
(* it may exit at any time and is then started again.  The driver, which   *)
(* runs a queued pipeline, is a program of its own and not in this code.   *)
(*                                                                         *)
(* As in Worker, a handler is at the call it awaits; an action is the      *)
(* return of that call, with its effect, and the code up to the next one.  *)
(***************************************************************************)
EXTENDS Naturals, FiniteSets

CONSTANTS
    Runs,         \* the job ids of the runs that are asked for
    Limit,        \* options.concurrentPipelines
    MaxOpen,      \* bound: run requests that are served at the same time
    MaxOrders,    \* bound: requests to stop or to clean a run, together
    MaxFaults     \* bound: failed calls to etcd, Redis and the storage, drivers
                  \* that die and exits of the api-server, together

ASSUME PipelineRunAssumption ==
    /\ IsFiniteSet(Runs)
    /\ Limit \in Nat \ {0} /\ MaxOpen \in Nat \ {0}
    /\ {MaxOrders, MaxFaults} \subseteq Nat

VARIABLES
    up,          \* the api-server watches etcd and serves requests
    at,          \* the call that the request for a run awaits
    stopAt,      \* ... and the request to stop it
    cleaning,    \* the calls of its cleaning that have not returned
    \* etcd
    execution,   \* the runs whose execution is stored
    running,     \* the runs listed as running
    status, result,
    told,        \* the runs whose job state is "stop"
    \* the jobs queue in Redis, and the drivers
    queue, driver,
    outcome,     \* what the run of a driver has come to
    ending,      \* what the driver still writes of it
    \* the events and the handlers of the api-server
    resultSeen,  \* result events to come
    freeing,     \* awaiting the deletion of the running record
    announcing,  \* awaiting the execution, or the answer of the webhook
    hook,        \* the record of the result webhook
    died,        \* CRASHED events to come
    failing,     \* what the handler of such an event still writes
    nStops, nCleans, nFailures, nDeaths, nExits

records == <<execution, running, status, result, told>>
drivers == <<queue, driver, outcome, ending>>
handlers == <<resultSeen, freeing, announcing, died, failing>>
counters == <<nStops, nCleans, nFailures, nDeaths, nExits>>
vars == <<up, at, stopAt, cleaning, records, drivers, handlers, hook, counters>>

\* What is written of the end of a run.
EndRecords == {"status", "result"}
Outcomes == {"completed", "failed", "stopped"}
Statuses == {"pending", "active", "stopping"} \cup Outcomes
ActiveState == {"pending", "active"}

\* The calls of _run, in their order; "files" are those to the storage, and the
\* read of the last result, which change nothing here.
Calls == {"count", "files", "execution", "running", "status", "queue"}
\* The calls of cleanJob, all made at once.
Cleaning == {"told", "running", "execution", "result", "status", "hook", "queue"}

\* Every variable has its type: a result is one of the outcomes, and a status one that _run,
\* stopJob, the CRASHED handler or the driver writes.
TypeOK ==
    /\ up \in BOOLEAN
    /\ at \in [Runs -> Calls \cup {"new", "refused", "failed", "ok"}]
    /\ stopAt \in [Runs -> {"no", "status", "told"}]
    /\ cleaning \in [Runs -> SUBSET Cleaning]
    /\ execution \subseteq Runs /\ running \subseteq Runs /\ told \subseteq Runs
    /\ status \in [Runs -> Statuses \cup {"none"}]
    /\ result \in [Runs -> Outcomes \cup {"none"}]
    /\ queue \subseteq Runs /\ driver \in [Runs -> {"no", "runs", "over"}]
    /\ outcome \in [Runs -> Outcomes \cup {"none"}]
    /\ ending \in [Runs -> SUBSET EndRecords]
    /\ resultSeen \subseteq Runs \X Outcomes /\ freeing \subseteq Runs
    /\ announcing \subseteq Runs \X Outcomes \X {"read", "post"}
    /\ hook \in [Runs -> Outcomes \cup {"none"}]
    /\ died \subseteq Runs /\ failing \in [Runs -> SUBSET EndRecords]
    /\ {nStops, nCleans, nFailures, nDeaths, nExits} \subseteq Nat

Init ==
    /\ up = TRUE
    /\ at = [r \in Runs |-> "new"] /\ stopAt = [r \in Runs |-> "no"]
    /\ cleaning = [r \in Runs |-> {}]
    /\ execution = {} /\ running = {} /\ told = {}
    /\ status = [r \in Runs |-> "none"] /\ result = [r \in Runs |-> "none"]
    /\ queue = {} /\ driver = [r \in Runs |-> "no"] /\ outcome = [r \in Runs |-> "none"]
    /\ ending = [r \in Runs |-> {}]
    /\ resultSeen = {} /\ freeing = {} /\ announcing = {}
    /\ hook = [r \in Runs |-> "none"]
    /\ died = {} /\ failing = [r \in Runs |-> {}]
    /\ nStops = 0 /\ nCleans = 0 /\ nFailures = 0 /\ nDeaths = 0 /\ nExits = 0

MayOrder == nStops + nCleans < MaxOrders
MayFail == nFailures + nDeaths + nExits < MaxFaults

\* Setting a result; the api-server's watch sees it unless the process is down.
SetResult(r, o) ==
    /\ result' = [result EXCEPT ![r] = o]
    /\ resultSeen' = IF up THEN resultSeen \cup {<<r, o>>} ELSE resultSeen

-----------------------------------------------------------------------------
(***************************************************************************)
(* _run.                                                                   *)
(***************************************************************************)
Open == {r \in Runs : at[r] \in Calls}

RunRequest(r) ==
    /\ up /\ at[r] = "new" /\ Cardinality(Open) < MaxOpen
    /\ at' = [at EXCEPT ![r] = "count"]
    /\ UNCHANGED <<up, stopAt, cleaning, records, drivers, handlers, hook, counters>>

\* validateConcurrentPipelines: the running pipelines of the prefix are counted.
CountedTooMany(r) ==
    /\ up /\ at[r] = "count"
    /\ at' = [at EXCEPT ![r] = IF Cardinality(running) > Limit THEN "refused" ELSE "files"]
    /\ UNCHANGED <<up, stopAt, cleaning, records, drivers, handlers, hook, counters>>

Counted(r) ==
    /\ up /\ at[r] = "count"
    /\ at' = [at EXCEPT ![r] = IF Cardinality(running) >= Limit THEN "refused" ELSE "files"]
    /\ UNCHANGED <<up, stopAt, cleaning, records, drivers, handlers, hook, counters>>

\* The call that follows a call.
AfterQueuedFirst(c) ==
    CASE c = "files" -> "running" [] c = "running" -> "status" [] c = "status" -> "queue"
      [] c = "queue" -> "execution" [] c = "execution" -> "ok"

AfterStatusFirst(c) ==
    CASE c = "files" -> "execution" [] c = "execution" -> "status" [] c = "status" -> "queue"
      [] c = "queue" -> "running" [] c = "running" -> "ok"

After(c) == CASE c = "files" -> "execution" [] c = "execution" -> "running"
              [] c = "running" -> "status" [] c = "status" -> "queue" [] c = "queue" -> "ok"

\* What a call writes.
Written(r, c) ==
    /\ execution' = IF c = "execution" THEN execution \cup {r} ELSE execution
    /\ running' = IF c = "running" THEN running \cup {r} ELSE running
    /\ status' = IF c = "status" THEN [status EXCEPT ![r] = "pending"] ELSE status
    /\ queue' = IF c = "queue" THEN queue \cup {r} ELSE queue

RunStep(r) ==
    /\ up /\ at[r] \in Calls \ {"count"}
    /\ Written(r, at[r])
    /\ at' = [at EXCEPT ![r] = After(at[r])]
    /\ UNCHANGED <<up, stopAt, cleaning, result, told, driver, outcome, ending, handlers, hook, counters>>

Failure == MayFail /\ nFailures' = nFailures + 1
           /\ UNCHANGED <<nStops, nCleans, nDeaths, nExits>>

\* A call fails, with its effect or without: the request is answered with the
\* error, and what was written stays.
RunFails(r) ==
    /\ up /\ at[r] \in Calls
    /\ \/ Written(r, at[r])
       \/ UNCHANGED <<execution, running, status, queue>>
    /\ at' = [at EXCEPT ![r] = "failed"]
    /\ Failure
    /\ UNCHANGED <<up, stopAt, cleaning, result, told, driver, outcome, ending, handlers, hook>>

-----------------------------------------------------------------------------
(***************************************************************************)
(* stopJob and cleanJob.                                                   *)
(***************************************************************************)
\* The status has been read; only an active run is stopped.
StopRequest(r) ==
    /\ up /\ stopAt[r] = "no" /\ MayOrder
    /\ status[r] \in ActiveState
    /\ stopAt' = [stopAt EXCEPT ![r] = "status"]
    /\ nStops' = nStops + 1
    /\ UNCHANGED <<up, at, cleaning, records, drivers, handlers, hook, nCleans, nFailures, nDeaths, nExits>>

\* What a call of the stop writes: the status, and then the driver is told.
StopWritten(r) ==
    /\ status' = IF stopAt[r] = "status" THEN [status EXCEPT ![r] = "stopping"] ELSE status
    /\ told' = IF stopAt[r] = "told" THEN told \cup {r} ELSE told

StopStep(r) ==
    /\ up /\ stopAt[r] # "no"
    /\ StopWritten(r)
    /\ stopAt' = [stopAt EXCEPT ![r] = IF @ = "status" THEN "told" ELSE "no"]
    /\ UNCHANGED <<up, at, cleaning, execution, running, result, drivers, handlers, hook, counters>>

\* A call fails, with its effect or without, and the stop ends.
StopFails(r) ==
    /\ up /\ stopAt[r] # "no"
    /\ StopWritten(r) \/ UNCHANGED <<status, told>>
    /\ stopAt' = [stopAt EXCEPT ![r] = "no"]
    /\ Failure
    /\ UNCHANGED <<up, at, cleaning, execution, running, result, drivers, handlers, hook>>

\* Whoever knows the id of a run cleans it.
CleanRequest(r) ==
    /\ up /\ cleaning[r] = {} /\ MayOrder
    /\ r \in running \/ at[r] = "ok"
    /\ cleaning' = [cleaning EXCEPT ![r] = Cleaning]
    /\ nCleans' = nCleans + 1
    /\ UNCHANGED <<up, at, stopAt, records, drivers, handlers, hook, nStops, nFailures, nDeaths, nExits>>

\* One of its calls returns.
CleanStep(r, c) ==
    /\ up /\ c \in cleaning[r]
    /\ cleaning' = [cleaning EXCEPT ![r] = @ \ {c}]
    /\ told' = IF c = "told" THEN told \cup {r} ELSE told
    /\ running' = IF c = "running" THEN running \ {r} ELSE running
    /\ execution' = IF c = "execution" THEN execution \ {r} ELSE execution
    /\ result' = IF c = "result" THEN [result EXCEPT ![r] = "none"] ELSE result
    /\ status' = IF c = "status" THEN [status EXCEPT ![r] = "none"] ELSE status
    /\ hook' = IF c = "hook" THEN [hook EXCEPT ![r] = "none"] ELSE hook
    /\ queue' = IF c = "queue" THEN queue \ {r} ELSE queue
    /\ UNCHANGED <<up, at, stopAt, driver, outcome, ending, handlers, counters>>

\* One of them fails, which the others do not notice.
CleanFails(r, c) ==
    /\ up /\ c \in cleaning[r]
    /\ cleaning' = [cleaning EXCEPT ![r] = @ \ {c}]
    /\ Failure
    /\ UNCHANGED <<up, at, stopAt, records, drivers, handlers, hook>>

-----------------------------------------------------------------------------
(***************************************************************************)
(* The driver: it takes a run from the queue, and at its end writes the    *)
(* result and the final status, in some order.  A run it was told to stop  *)
(* is stopped.                                                             *)
(***************************************************************************)
DriverTakes(r) ==
    /\ r \in queue /\ driver[r] = "no"
    /\ queue' = queue \ {r} /\ driver' = [driver EXCEPT ![r] = "runs"]
    /\ status' = IF r \in told THEN status ELSE [status EXCEPT ![r] = "active"]
    /\ UNCHANGED <<up, at, stopAt, cleaning, execution, running, result, told, outcome, ending,
                   handlers, hook, counters>>

DriverEnds(r, o) ==
    /\ driver[r] = "runs" /\ outcome[r] = "none" /\ (o = "stopped" <=> r \in told)
    /\ outcome' = [outcome EXCEPT ![r] = o]
    /\ ending' = [ending EXCEPT ![r] = EndRecords]
    /\ UNCHANGED <<up, at, stopAt, cleaning, records, queue, driver, handlers, hook, counters>>

WriteRecordStatus(r, c, o) ==
    IF c = "result" THEN SetResult(r, status[r]) /\ status' = status
    ELSE status' = [status EXCEPT ![r] = o] /\ UNCHANGED <<result, resultSeen>>

\* One of the two records of an end is written, by the driver or for it.
WriteRecord(r, c, o) ==
    IF c = "result" THEN SetResult(r, o) /\ status' = status
    ELSE status' = [status EXCEPT ![r] = o] /\ UNCHANGED <<result, resultSeen>>

DriverWrites(r, c) ==
    /\ driver[r] = "runs" /\ c \in ending[r]
    /\ ending' = [ending EXCEPT ![r] = @ \ {c}]
    /\ WriteRecord(r, c, outcome[r])
    /\ UNCHANGED <<up, at, stopAt, cleaning, execution, running, told, queue, driver, outcome,
                   freeing, announcing, died, failing, hook, counters>>

DriverOver(r) ==
    /\ driver[r] = "runs" /\ outcome[r] # "none" /\ ending[r] = {}
    /\ driver' = [driver EXCEPT ![r] = "over"]
    /\ UNCHANGED <<up, at, stopAt, cleaning, records, queue, outcome, ending, handlers, hook,
                   counters>>

\* The driver dies; the queue tells the api-server, if it is up.
DriverDies(r) ==
    /\ driver[r] = "runs"
    /\ MayFail /\ nDeaths' = nDeaths + 1
    /\ driver' = [driver EXCEPT ![r] = "over"] /\ ending' = [ending EXCEPT ![r] = {}]
    /\ died' = IF up THEN died \cup {r} ELSE died
    /\ UNCHANGED <<up, at, stopAt, cleaning, records, queue, outcome, resultSeen, freeing,
                   announcing, failing, hook, nStops, nCleans, nFailures, nExits>>

-----------------------------------------------------------------------------
(***************************************************************************)
(* The process, and its handlers of events.                                *)
(***************************************************************************)
\* The process exits: every handler is gone, and events are not seen until it is
\* started again.
Down ==
    /\ up' = FALSE
    /\ at' = [r \in Runs |-> IF at[r] \in Calls THEN "failed" ELSE at[r]]
    /\ stopAt' = [r \in Runs |-> "no"] /\ cleaning' = [r \in Runs |-> {}]
    /\ resultSeen' = {} /\ freeing' = {} /\ announcing' = {} /\ died' = {}
    /\ failing' = [r \in Runs |-> {}]

Exit ==
    /\ up /\ Down
    /\ MayFail /\ nExits' = nExits + 1
    /\ UNCHANGED <<nStops, nCleans, nFailures, nDeaths>>
    /\ UNCHANGED <<records, drivers, hook>>

\* A failed call in a handler of an event: the unhandled rejection exits.  The handler
\* of 'job-status', which writes no record of these, may run whenever there is a status.
EventFails ==
    /\ up /\ Failure /\ Down
    /\ \/ freeing # {} \/ announcing # {} \/ died # {}
       \/ \E r \in Runs : failing[r] # {} \/ status[r] # "none"
    /\ UNCHANGED <<records, drivers, hook>>

Restart ==
    /\ ~up /\ up' = TRUE
    /\ UNCHANGED <<at, stopAt, cleaning, records, drivers, handlers, hook, counters>>

\* 'job-result': the result is announced and the running record deleted.
ResultEventKeeps(r, o) ==
    /\ up /\ <<r, o>> \in resultSeen
    /\ resultSeen' = resultSeen \ {<<r, o>>}
    /\ freeing' = freeing
    /\ announcing' = announcing \cup {<<r, o, "read">>}
    /\ UNCHANGED <<up, at, stopAt, cleaning, records, drivers, died, failing, hook, counters>>

ResultEventSilent(r, o) ==
    /\ up /\ <<r, o>> \in resultSeen
    /\ resultSeen' = resultSeen \ {<<r, o>>}
    /\ freeing' = freeing \cup {r}
    /\ announcing' = announcing
    /\ UNCHANGED <<up, at, stopAt, cleaning, records, drivers, died, failing, hook, counters>>

ResultEvent(r, o) ==
    /\ up /\ <<r, o>> \in resultSeen
    /\ resultSeen' = resultSeen \ {<<r, o>>}
    /\ freeing' = freeing \cup {r}
    /\ announcing' = announcing \cup {<<r, o, "read">>}
    /\ UNCHANGED <<up, at, stopAt, cleaning, records, drivers, died, failing, hook, counters>>

Freed(r) ==
    /\ up /\ r \in freeing
    /\ freeing' = freeing \ {r} /\ running' = running \ {r}
    /\ UNCHANGED <<up, at, stopAt, cleaning, execution, status, result, told, drivers, resultSeen,
                   announcing, died, failing, hook, counters>>

\* The execution has been read; without one the handler fails on a null pipeline.
AnnounceRead(r, o) ==
    /\ up /\ <<r, o, "read">> \in announcing
    /\ \/ /\ r \in execution
          /\ announcing' = (announcing \ {<<r, o, "read">>}) \cup {<<r, o, "post">>}
          /\ UNCHANGED <<up, at, stopAt, cleaning, resultSeen, freeing, died, failing>>
       \/ r \notin execution /\ Down
    /\ UNCHANGED <<records, drivers, hook, counters>>

\* The webhook has answered, or all attempts have failed: either is recorded.
Announced(r, o) ==
    /\ up /\ <<r, o, "post">> \in announcing
    /\ announcing' = announcing \ {<<r, o, "post">>}
    /\ hook' = [hook EXCEPT ![r] = o]
    /\ UNCHANGED <<up, at, stopAt, cleaning, records, drivers, resultSeen, freeing, died, failing,
                   counters>>

\* CRASHED: the execution has been read, then both records are written at once.
CrashEventStatusOnly(r) ==
    /\ up /\ r \in died /\ r \in execution
    /\ died' = died \ {r} /\ failing' = [failing EXCEPT ![r] = {"status"}]
    /\ UNCHANGED <<up, at, stopAt, cleaning, resultSeen, freeing, announcing>>
    /\ UNCHANGED <<records, drivers, hook, counters>>

CrashEvent(r) ==
    /\ up /\ r \in died
    /\ \/ /\ r \in execution
          /\ died' = died \ {r} /\ failing' = [failing EXCEPT ![r] = EndRecords]
          /\ UNCHANGED <<up, at, stopAt, cleaning, resultSeen, freeing, announcing>>
       \/ r \notin execution /\ Down
    /\ UNCHANGED <<records, drivers, hook, counters>>

CrashWritten(r, c) ==
    /\ up /\ c \in failing[r]
    /\ failing' = [failing EXCEPT ![r] = @ \ {c}]
    /\ WriteRecord(r, c, "failed")
    /\ UNCHANGED <<up, at, stopAt, cleaning, execution, running, told, drivers, freeing, announcing,
                   died, hook, counters>>

-----------------------------------------------------------------------------
RunHandler(r) == Counted(r) \/ RunStep(r)
CleanHandler(r) == \E c \in Cleaning : CleanStep(r, c)
Driver(r) ==
    \/ DriverTakes(r) \/ DriverOver(r)
    \/ \E o \in Outcomes : DriverEnds(r, o)
    \/ \E c \in EndRecords : DriverWrites(r, c)
EventHandler(r) ==
    \/ \E o \in Outcomes : ResultEvent(r, o) \/ AnnounceRead(r, o) \/ Announced(r, o)
    \/ Freed(r) \/ CrashEvent(r)
    \/ \E c \in EndRecords : CrashWritten(r, c)

Next ==
    \/ \E r \in Runs :
          \/ RunRequest(r) \/ RunHandler(r) \/ RunFails(r)
          \/ StopRequest(r) \/ StopStep(r) \/ StopFails(r)
          \/ CleanRequest(r) \/ CleanHandler(r) \/ \E c \in Cleaning : CleanFails(r, c)
          \/ Driver(r) \/ DriverDies(r) \/ EventHandler(r)
    \/ Exit \/ EventFails \/ Restart

\* The calls of the api-server return, its events reach it, and it is started
\* again.  Of the driver nothing is assumed.
Fairness ==
    /\ WF_vars(Restart)
    /\ WF_vars(\E r \in Runs : RunHandler(r) \/ StopStep(r) \/ CleanHandler(r) \/ EventHandler(r))

Spec == Init /\ [][Next]_vars
FairSpec == Spec /\ Fairness

-----------------------------------------------------------------------------
(***************************************************************************)
(* Properties.                                                             *)
(***************************************************************************)
\* Nothing was cleaned, no call has failed and the api-server has not exited.
Undisturbed == nCleans = 0 /\ nFailures = 0 /\ nExits = 0

\* The limit of concurrent runs is checked against the runs that are listed, and a
\* run is listed five calls later: what is served meanwhile goes beyond the limit,
\* and nothing else does, whatever fails, exits or is cleaned in between
\* (validateConcurrentPipelines, _run).
LimitBound == Cardinality(running) <= Limit + MaxOpen - 1

\* What the refusal of a run says: the limit is the most that run at once.
LimitKept == Cardinality(running) <= Limit

\* A run is queued after all that its driver and the handlers of its end read has
\* been written: a run in the queue or in a driver has an execution and a status,
\* and is listed as running until it has a result, unless something was cleaned.
QueuedIsRecorded ==
    nCleans = 0 =>
        \A r \in Runs : (r \in queue \/ driver[r] = "runs") =>
            /\ r \in execution /\ status[r] # "none"
            /\ result[r] = "none" => r \in running

\* The handlers of results and of crashes use the execution they read unchecked,
\* which ends the process when there is none; without a cleaning there is one.
StaysUp == Undisturbed => up

\* Somebody is still to take the run off the list of running pipelines: the
\* request that goes on to queue it, the driver that will end it, or the handlers
\* of its end.
Leaving(r) ==
    \/ at[r] \in Calls \/ r \in queue \/ driver[r] = "runs"
    \/ r \in died \/ "result" \in failing[r]
    \/ \E o \in Outcomes : <<r, o>> \in resultSeen
    \/ r \in freeing

\* The listed runs are running: no run stays on the list, where it counts for the
\* limit, when nobody is left to take it off ("Returns the current running
\* pipelines data").
ListedRun == \A r \in running : Leaving(r)

\* So it is as long as no call fails, nothing is cleaned and the api-server stays.
ListedRunUndisturbed == Undisturbed => ListedRun

\* Undisturbed, a run with a result gets off the list (_deleteRunningPipeline).
ResultFrees == \A r \in Runs : result[r] # "none" ~> r \notin running \/ ~Undisturbed

\* Undisturbed, every result is announced and the answer recorded
\* (_requestResults).
ResultAnnounced == \A r \in Runs : result[r] # "none" ~> hook[r] # "none" \/ ~Undisturbed

\* Undisturbed, a run whose driver died gets a result (the CRASHED handler).
DeathIsResult == \A r \in Runs : r \in died ~> result[r] # "none" \/ ~Undisturbed
=============================================================================
