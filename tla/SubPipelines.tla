---------------------------- MODULE SubPipelines ----------------------------
(***************************************************************************)
(* The sub-pipelines an algorithm starts through its worker, and stops, or *)
(* that its worker stops on its behalf when the job ends                   *)
(* (subpipeline.js).  As in Worker, an action is the code from an event or *)
(* from the return of an awaited call to the next await.  The worker's own *)
(* states are reduced to what this component asks of them: is it working,  *)
(* and does it end or enter ready, where it calls stopAllSubPipelines.     *)
(***************************************************************************)
EXTENDS Naturals, FiniteSets

CONSTANTS
    Subs,         \* the sub-pipelines the algorithm asks for, each once
    MaxJobs,      \* bound: jobs the worker runs
    Aborted,      \* bound: those that the algorithm stops itself
    MaxFailures   \* bound: failed or unanswered calls

ASSUME SubPipelinesAssumption ==
    Aborted \subseteq Subs /\ MaxJobs \in Nat /\ MaxFailures \in Nat

VARIABLES
    wstate,      \* the worker: "ready", "working", "ended" (between the two), or
                 \* "dead": its process has exited
    job,         \* the number of the job it is at
    registered,  \* the domain of _jobId2InternalIdMap
    starting,    \* where the handler that starts a sub-pipeline is
    fetching,    \* the completed sub-pipelines whose result is being read
    stopping,    \* _stoppingSubpipelines
    caller,      \* who awaits the running stopAllSubPipelines
    closing,     \* where the stop of a sub-pipeline is: of stopAllSubPipelines
    aborting,    \* ... or asked for by the algorithm, once for each
    pipeline,    \* the api-server's view of a sub-pipeline
    watched,     \* the sub-pipelines whose result is watched in etcd
    events,      \* those whose result is on its way to the worker as an event
    answers,     \* the final messages the algorithm got about each
    nFailures

workVars == <<wstate, job>>
stopVars == <<stopping, caller, closing>>
vars == <<workVars, registered, starting, fetching, stopVars, aborting, pipeline,
          watched, events, answers, nFailures>>

Ended == {"completed", "stopped", "failed"}

\* Every variable has its type: stopAllSubPipelines has no caller but those that await it.
TypeOK ==
    /\ wstate \in {"ready", "working", "ended", "dead"} /\ job \in 0..MaxJobs
    /\ registered \subseteq Subs /\ fetching \subseteq Subs
    /\ watched \subseteq Subs /\ events \subseteq Subs
    /\ starting \in [Subs -> {"new", "post", "watch", "read", "over"}]
    /\ stopping \in BOOLEAN /\ caller \in {"none", "end", "ready", "exit"}
    /\ closing \in [Subs -> {"no", "unwatch", "post"}]
    /\ aborting \in [Subs -> {"no", "unwatch", "post", "over"}]
    /\ pipeline \in [Subs -> {"none", "running"} \cup Ended]
    /\ answers \in [Subs -> Nat] /\ nFailures \in 0..MaxFailures

Init ==
    /\ wstate = "ready" /\ job = 0
    /\ registered = {} /\ fetching = {} /\ watched = {} /\ events = {}
    /\ starting = [s \in Subs |-> "new"]
    /\ stopping = FALSE /\ caller = "none"
    /\ closing = [s \in Subs |-> "no"] /\ aborting = [s \in Subs |-> "no"]
    /\ pipeline = [s \in Subs |-> "none"]
    /\ answers = [s \in Subs |-> 0] /\ nFailures = 0

Fail == nFailures < MaxFailures /\ nFailures' = nFailures + 1

Up == wstate # "dead"

-----------------------------------------------------------------------------
(***************************************************************************)
(* stopAllSubPipelines.                                                    *)
(***************************************************************************)
\* Faulty variant: the worker takes its caller's name for a state.
ContinueAs(c) == wstate' = IF c = "end" THEN "ended" ELSE c

\* What the caller does when the call returns.
Continue(c) == wstate' = IF c = "end" THEN "ended" ELSE IF c = "exit" THEN "dead" ELSE wstate

\* A call returns at once when another one is under way, or nothing is registered.
StopAll(c) ==
    IF stopping \/ registered = {}
    THEN Continue(c) /\ UNCHANGED stopVars
    ELSE /\ stopping' = TRUE /\ caller' = c
         /\ closing' = [s \in Subs |-> IF s \in registered THEN "unwatch" ELSE "no"]
         /\ UNCHANGED wstate

\* The watch is given up, with what it has not delivered yet; or the call fails, which
\* is logged only.
Unwatch(s) ==
    \/ watched' = watched \ {s} /\ events' = events \ {s} /\ UNCHANGED nFailures
    \/ Fail /\ UNCHANGED <<watched, events>>

CloseUnwatched(s) ==
    /\ Up /\ closing[s] = "unwatch"
    /\ closing' = [closing EXCEPT ![s] = "post"]
    /\ Unwatch(s)
    /\ UNCHANGED <<workVars, registered, starting, fetching, stopping, caller, aborting,
                   pipeline, answers>>

\* Faulty variant: the flag of a stopAllSubPipelines stays up when it is over.
ClosedForGood(s) ==
    /\ closing' = [closing EXCEPT ![s] = "no"]
    /\ registered' = registered \ {s}
    /\ IF \A t \in Subs \ {s} : closing[t] = "no"
       THEN Continue(caller) /\ caller' = "none" /\ stopping' = TRUE
       ELSE UNCHANGED <<stopping, caller, wstate>>

\* The last one to be closed clears the whole map.
Closed(s) ==
    /\ closing' = [closing EXCEPT ![s] = "no"]
    /\ IF \A t \in Subs \ {s} : closing[t] = "no"
       THEN /\ registered' = {} /\ stopping' = FALSE /\ caller' = "none"
            /\ Continue(caller)
       ELSE /\ registered' = registered \ {s}
            /\ UNCHANGED <<stopping, caller, wstate>>

\* The result of the sub-pipeline is written, and sent to who watches it.
Ends(s, r) ==
    /\ pipeline' = [pipeline EXCEPT ![s] = r]
    /\ events' = IF s \in watched THEN events \cup {s} ELSE events

\* The api-server stops the sub-pipeline, if it runs, and answers the request.
Stop(s) == IF pipeline[s] = "running" THEN Ends(s, "stopped") ELSE UNCHANGED <<pipeline, events>>

ClosePosted(s) ==
    /\ Up /\ closing[s] = "post"
    /\ \/ Stop(s) /\ UNCHANGED nFailures
       \/ Fail /\ UNCHANGED <<pipeline, events>>
    /\ Closed(s)
    /\ UNCHANGED <<job, starting, fetching, aborting, watched, answers>>

-----------------------------------------------------------------------------
(***************************************************************************)
(* The worker.                                                             *)
(***************************************************************************)
BeginJob ==
    /\ wstate = "ready" /\ job < MaxJobs
    /\ wstate' = "working" /\ job' = job + 1
    /\ UNCHANGED <<registered, starting, fetching, stopVars, aborting, pipeline,
                   watched, answers, nFailures, events>>

EndJob ==
    /\ wstate = "working" /\ wstate' = "ended"
    /\ UNCHANGED <<job, registered, starting, fetching, stopVars, aborting, pipeline,
                   watched, answers, nFailures, events>>

\* A stop request or an error of the algorithm, and the end of the process, stop
\* the sub-pipelines first; entering ready stops those that are left.
StopOrError ==
    /\ wstate = "working"
    /\ StopAll("end")
    /\ UNCHANGED <<job, registered, starting, fetching, aborting, pipeline, watched,
                   answers, nFailures, events>>

\* Faulty variant: entering ready leaves the sub-pipelines alone.
EnterReadyOnly ==
    /\ wstate = "ended" /\ wstate' = "ready"
    /\ UNCHANGED <<job, registered, starting, fetching, stopVars, aborting, pipeline,
                   watched, answers, nFailures, events>>

EnterReady ==
    /\ wstate = "ended"
    /\ wstate' = "ready"
    /\ IF stopping \/ registered = {} THEN UNCHANGED stopVars
       ELSE /\ stopping' = TRUE /\ caller' = "ready"
            /\ closing' = [s \in Subs |-> IF s \in registered THEN "unwatch" ELSE "no"]
    /\ UNCHANGED <<job, registered, starting, fetching, aborting, pipeline, watched,
                   answers, nFailures, events>>

HandleExit ==
    /\ Up /\ caller # "exit"
    /\ StopAll("exit")
    /\ UNCHANGED <<job, registered, starting, fetching, aborting, pipeline, watched,
                   answers, nFailures, events>>

-----------------------------------------------------------------------------
(***************************************************************************)
(* A result, as an event for a watched sub-pipeline or as the answer of    *)
(* the watch: the sub-pipeline is unregistered and unwatched first.        *)
(***************************************************************************)
\* A final message for s.  The id in it is undefined when s was not registered: such
\* a message is for nobody, and left out.
Tell(s) == answers' = [answers EXCEPT ![s] = @ + 1]

\* A completed one has its result read from the storage before it is told.  A
\* failed one is told in any state when the watch itself returned it.
Told(s, r, immediate, known) ==
    /\ registered' = registered \ {s} /\ watched' = watched \ {s}
    /\ fetching' = IF known /\ r = "completed" /\ wstate = "working" THEN fetching \cup {s} ELSE fetching
    /\ IF known /\ r # "completed" /\ (wstate = "working" \/ (r = "failed" /\ immediate))
       THEN Tell(s) ELSE UNCHANGED answers

Handle(s, r, immediate) == Told(s, r, immediate, s \in registered)

\* The sub-pipeline ends of itself.
PipelineEnds(s, r) ==
    /\ Up /\ pipeline[s] = "running"
    /\ Ends(s, r)
    /\ UNCHANGED <<workVars, registered, starting, fetching, stopVars, aborting, watched,
                   answers, nFailures>>

\* The event arrives, also when the watch is being given up by then.
EventArrives(s) ==
    /\ Up /\ s \in events
    /\ events' = events \ {s}
    /\ Handle(s, pipeline[s], FALSE)
    /\ UNCHANGED <<workVars, starting, stopVars, aborting, pipeline, nFailures>>

\* The storage has answered, with the result (subPipelineDone) or an error
\* (subPipelineError): the worker's state is not looked at again.
Fetched(s) ==
    /\ Up /\ s \in fetching
    /\ fetching' = fetching \ {s}
    /\ Tell(s)
    /\ UNCHANGED <<workVars, registered, starting, stopVars, aborting, pipeline, watched, events,
                   nFailures>>

-----------------------------------------------------------------------------
(***************************************************************************)
(* _handleStartSubPipeline.                                                *)
(***************************************************************************)
\* The algorithm asks for a sub-pipeline; out of working it gets no answer.
Start(s) ==
    /\ Up /\ starting[s] = "new" /\ job > 0
    /\ starting' = [starting EXCEPT ![s] = IF wstate = "working" THEN "post" ELSE "over"]
    /\ UNCHANGED <<workVars, registered, fetching, stopVars, aborting, pipeline, watched, events,
                   answers, nFailures>>

\* The api-server runs the sub-pipeline and answers: it is registered, whatever has
\* become of the job meanwhile.  Running before the answer is here makes no
\* difference to the worker, that has no id for it yet.
PostReturned(s) ==
    /\ Up /\ starting[s] = "post"
    /\ pipeline' = [pipeline EXCEPT ![s] = "running"]
    /\ registered' = registered \cup {s}
    /\ starting' = [starting EXCEPT ![s] = "watch"]
    /\ UNCHANGED <<workVars, fetching, stopVars, aborting, watched, answers, nFailures,
                   events>>

\* The post or the watch fails, and leaves no watch: the algorithm is told so.
StartFailed(s) ==
    /\ Up /\ starting[s] \in {"post", "watch"}
    /\ Fail
    /\ starting' = [starting EXCEPT ![s] = "over"]
    /\ Tell(s)
    /\ UNCHANGED <<workVars, registered, fetching, stopVars, aborting, pipeline, 
                   watched, events>>

\* etcd sets the watch, and then reads the result that may be there already: one
\* that is written in between comes as an event and as the answer of the watch.
WatchSet(s) ==
    /\ Up /\ starting[s] = "watch"
    /\ starting' = [starting EXCEPT ![s] = "read"]
    /\ watched' = watched \cup {s}
    /\ UNCHANGED <<workVars, registered, fetching, stopVars, aborting, pipeline, events,
                   answers, nFailures>>

\* Faulty variants: a result that the watch returns is ignored; it is told under the
\* id that the handler of the start was called with.
WatchReturnedLate(s) ==
    /\ Up /\ starting[s] = "read"
    /\ starting' = [starting EXCEPT ![s] = "over"]
    /\ UNCHANGED <<workVars, registered, fetching, stopVars, aborting, pipeline, watched,
                   events, answers, nFailures>>

WatchReturnedOwnId(s) ==
    /\ Up /\ starting[s] = "read"
    /\ starting' = [starting EXCEPT ![s] = "over"]
    /\ IF pipeline[s] \in Ended THEN Told(s, pipeline[s], TRUE, TRUE)
       ELSE UNCHANGED <<watched, registered, fetching, answers>>
    /\ UNCHANGED <<workVars, stopVars, aborting, pipeline, events, nFailures>>

WatchReturned(s) ==
    /\ Up /\ starting[s] = "read"
    /\ starting' = [starting EXCEPT ![s] = "over"]
    /\ IF pipeline[s] \in Ended THEN Handle(s, pipeline[s], TRUE)
       ELSE UNCHANGED <<watched, registered, fetching, answers>>
    /\ UNCHANGED <<workVars, stopVars, aborting, pipeline, events, nFailures>>

-----------------------------------------------------------------------------
(***************************************************************************)
(* _handleStopSubPipeline: the algorithm stops a sub-pipeline of its own.  *)
(* For one that is not registered it gets a subPipelineError at once.      *)
(***************************************************************************)
Abort(s) ==
    /\ wstate = "working" /\ s \in registered \cap Aborted /\ aborting[s] = "no"
    /\ aborting' = [aborting EXCEPT ![s] = "unwatch"]
    /\ UNCHANGED <<workVars, registered, starting, fetching, stopVars, pipeline, 
                   watched, answers, nFailures, events>>

AbortUnwatched(s) ==
    /\ Up /\ aborting[s] = "unwatch"
    /\ aborting' = [aborting EXCEPT ![s] = "post"]
    /\ Unwatch(s)
    /\ UNCHANGED <<workVars, registered, starting, fetching, stopVars, pipeline, 
                   answers>>

AbortPosted(s) ==
    /\ Up /\ aborting[s] = "post"
    /\ aborting' = [aborting EXCEPT ![s] = "over"]
    /\ \/ Stop(s) /\ UNCHANGED nFailures
       \/ Fail /\ UNCHANGED <<pipeline, events>>
    /\ UNCHANGED <<workVars, registered, starting, fetching, stopVars, watched, answers>>

-----------------------------------------------------------------------------
Gone == wstate = "dead" /\ UNCHANGED vars

Step(s) ==
    \/ CloseUnwatched(s) \/ ClosePosted(s)
    \/ PostReturned(s) \/ StartFailed(s) \/ WatchSet(s) \/ WatchReturned(s)
    \/ EventArrives(s) \/ Fetched(s) \/ AbortUnwatched(s) \/ AbortPosted(s)

Next ==
    \/ BeginJob \/ EndJob \/ StopOrError \/ EnterReady \/ HandleExit
    \/ \E s \in Subs : \/ Start(s) \/ Abort(s) \/ Step(s)
                       \/ \E r \in {"completed", "failed"} : PipelineEnds(s, r)
    \/ Gone

\* Calls to the api-server and etcd return, well or not; a worker that has ended
\* a job enters ready.
Fairness ==
    /\ \A s \in Subs : /\ WF_vars(CloseUnwatched(s) \/ ClosePosted(s))
                      /\ WF_vars(PostReturned(s) \/ WatchSet(s) \/ WatchReturned(s))
    /\ WF_vars(EnterReady)

Spec == Init /\ [][Next]_vars
FairSpec == Spec /\ Fairness

-----------------------------------------------------------------------------
(***************************************************************************)
(* Properties.                                                             *)
(***************************************************************************)
\* The algorithm gets at most one final message (done, stopped or error) about a
\* sub-pipeline under its own id, although a failed start, the answer of the
\* watch, the event of the same result and the storage all send one: whichever of
\* answer and event comes second finds the id gone from the map (subpipeline.js:73-87).
AnsweredOnce == \A s \in Subs : answers[s] <= 1

\* While the first job runs and nothing has been stopped or has failed, no
\* sub-pipeline is lost between the api-server, the watch and the map: the
\* algorithm has its final message or a handler or event will still send it.
AnswerIsDue ==
    wstate = "working" /\ job = 1 /\ ~stopping /\ nFailures = 0 =>
        \A s \in Subs : starting[s] # "new" /\ aborting[s] = "no" =>
            \/ answers[s] = 1
            \/ starting[s] \in {"post", "watch"}
            \/ s \in registered /\ starting[s] = "read"
            \/ s \in registered \cap watched /\ (pipeline[s] = "running" \/ s \in events)
            \/ s \in fetching

\* stopAllSubPipelines comes to its end, with any call in it failing: the flag
\* that turns later calls away does not stay up (subpipeline.js:345-364).
StopAllReturns == stopping ~> ~stopping \/ wstate = "dead"

\* A sub-pipeline that is registered when the job ends does not stay registered:
\* entering ready, or the stopAllSubPipelines under way then, removes it.
EndedJobIsCleared ==
    \A s \in Subs : s \in registered /\ wstate = "ended" ~> s \notin registered \/ wstate = "dead"

\* "expect no registered subpiplines after state ready"
\* (workerSubPipelineTest.js:347).
ReadyHasNone == wstate = "ready" /\ ~stopping => registered = {}
=============================================================================
