------------------------- MODULE SubPipelinesProofs -------------------------
(***************************************************************************)
(* Theorems about SubPipelines, for any sub-pipelines, any number of jobs  *)
(* and of failures.                                                        *)
(***************************************************************************)
EXTENDS SubPipelines, TLAPS

Here(b) == IF b THEN 1 ELSE 0

\* What may still send a final message about s: the handler that starts it; while
\* it is registered the watch, its event or the answer of the watch; the storage
\* that was asked for its result.  They take turns, and the message sent takes the
\* last one's place.  Event and answer are one turn: the first takes s off the map.
Turns(s) ==
    Here(starting[s] \in {"new", "post", "watch"})
        + Here(s \in registered /\ (s \in watched \cup events \/ starting[s] = "read"))
        + Here(s \in fetching) + answers[s]

\* No watch is set before the handler sets it.
OneTurn ==
    \A s \in Subs : /\ Turns(s) <= 1
                    /\ starting[s] \in {"new", "post", "watch"} => s \notin watched \cup events

-----------------------------------------------------------------------------
LEMMA InitType == Init => TypeOK
<1> SUFFICES ASSUME Init PROVE TypeOK
  OBVIOUS
<1>1. 0 \in 0..MaxJobs /\ 0 \in 0..MaxFailures
  BY SubPipelinesAssumption
<1>2. /\ answers \in [Subs -> Nat]
      /\ starting \in [Subs -> {"new", "post", "watch", "read", "over"}]
      /\ closing \in [Subs -> {"no", "unwatch", "post"}]
      /\ aborting \in [Subs -> {"no", "unwatch", "post", "over"}]
      /\ pipeline \in [Subs -> {"none", "running"} \cup Ended]
  BY DEF Init
<1> QED BY <1>1, <1>2 DEF Init, TypeOK

LEMMA StopAllType ==
    ASSUME TypeOK, NEW c \in {"end", "ready", "exit"}, StopAll(c)
    PROVE  /\ wstate' \in {"ready", "working", "ended", "dead"}
           /\ stopping' \in BOOLEAN /\ caller' \in {"none", "end", "ready", "exit"}
           /\ closing' \in [Subs -> {"no", "unwatch", "post"}]
BY DEF TypeOK, StopAll, Continue, stopVars

LEMMA StopType ==
    ASSUME TypeOK, NEW s \in Subs, Stop(s) \/ UNCHANGED <<pipeline, events>>
    PROVE  pipeline' \in [Subs -> {"none", "running"} \cup Ended] /\ events' \subseteq Subs
BY DEF TypeOK, Stop, Ends, Ended

LEMMA UnwatchType ==
    ASSUME TypeOK, NEW s \in Subs, Unwatch(s)
    PROVE  /\ watched' \subseteq watched /\ events' \subseteq events
           /\ nFailures' \in 0..MaxFailures
BY SubPipelinesAssumption DEF TypeOK, Unwatch, Fail

LEMMA HandleType ==
    ASSUME TypeOK, NEW s \in Subs, NEW r, NEW i, Handle(s, r, i)
    PROVE  /\ registered' \subseteq Subs /\ watched' \subseteq Subs /\ fetching' \subseteq Subs
           /\ answers' \in [Subs -> Nat]
BY DEF TypeOK, Handle, Told, Tell

LEMMA TypeStep == TypeOK /\ [Next]_vars => TypeOK'
<1> SUFFICES ASSUME TypeOK, [Next]_vars PROVE TypeOK'
  OBVIOUS
<1> USE SubPipelinesAssumption
<1>1. CASE BeginJob \/ EndJob
  BY <1>1 DEF BeginJob, EndJob, TypeOK, stopVars
<1>2. CASE StopOrError \/ HandleExit
  BY <1>2, StopAllType DEF StopOrError, HandleExit, TypeOK
<1>3. CASE EnterReady
  BY <1>3 DEF EnterReady, TypeOK, stopVars
<1>4. ASSUME NEW s \in Subs, Start(s) \/ Abort(s) \/ PostReturned(s) \/ WatchSet(s)
      PROVE  TypeOK'
  BY <1>4 DEF Start, Abort, PostReturned, WatchSet, TypeOK, workVars, stopVars
<1>5. ASSUME NEW s \in Subs, CloseUnwatched(s) \/ AbortUnwatched(s)
      PROVE  TypeOK'
  <2>1. Unwatch(s)
    BY <1>5 DEF CloseUnwatched, AbortUnwatched
  <2> QED BY <1>5, <2>1, UnwatchType
    DEF CloseUnwatched, AbortUnwatched, TypeOK, workVars, stopVars
<1>6. ASSUME NEW s \in Subs, ClosePosted(s)
      PROVE  TypeOK'
  <2>1. /\ pipeline' \in [Subs -> {"none", "running"} \cup Ended] /\ events' \subseteq Subs
        /\ nFailures' \in 0..MaxFailures
    BY <1>6, StopType DEF ClosePosted, TypeOK, Fail
  <2>2. /\ registered' \subseteq Subs /\ stopping' \in BOOLEAN
        /\ caller' \in {"none", "end", "ready", "exit"}
        /\ closing' \in [Subs -> {"no", "unwatch", "post"}]
        /\ wstate' \in {"ready", "working", "ended", "dead"}
    BY <1>6 DEF ClosePosted, Closed, Continue, TypeOK
  <2> QED BY <1>6, <2>1, <2>2 DEF ClosePosted, TypeOK
<1>7. ASSUME NEW s \in Subs, StartFailed(s)
      PROVE  TypeOK'
  BY <1>7 DEF StartFailed, Fail, Tell, TypeOK, workVars, stopVars
<1>8. ASSUME NEW s \in Subs, WatchReturned(s)
      PROVE  TypeOK'
  <2>1. /\ registered' \subseteq Subs /\ watched' \subseteq Subs /\ fetching' \subseteq Subs
        /\ answers' \in [Subs -> Nat]
    BY <1>8, HandleType DEF WatchReturned, TypeOK
  <2> QED BY <1>8, <2>1 DEF WatchReturned, TypeOK, workVars, stopVars
<1>9. ASSUME NEW s \in Subs, EventArrives(s)
      PROVE  TypeOK'
  BY <1>9, HandleType DEF EventArrives, TypeOK, workVars, stopVars
<1>10. ASSUME NEW s \in Subs, AbortPosted(s)
       PROVE  TypeOK'
  <2>1. /\ pipeline' \in [Subs -> {"none", "running"} \cup Ended] /\ events' \subseteq Subs
        /\ nFailures' \in 0..MaxFailures
    BY <1>10, StopType DEF AbortPosted, TypeOK, Fail
  <2> QED BY <1>10, <2>1 DEF AbortPosted, TypeOK, workVars, stopVars
<1>11. ASSUME NEW s \in Subs, NEW r \in Ended, PipelineEnds(s, r)
       PROVE  TypeOK'
  BY <1>11 DEF PipelineEnds, Ends, TypeOK, workVars, stopVars
<1>12. ASSUME NEW s \in Subs, Fetched(s)
       PROVE  TypeOK'
  BY <1>12 DEF Fetched, Tell, TypeOK, workVars, stopVars
<1>13. CASE UNCHANGED vars
  BY <1>13 DEF vars, TypeOK, workVars, stopVars
<1> QED
  BY <1>1, <1>2, <1>3, <1>4, <1>5, <1>6, <1>7, <1>8, <1>9, <1>10, <1>11, <1>12, <1>13
  DEF Next, Step, Gone, Ended

\* The variables keep their types.
THEOREM TypeCorrect == Spec => []TypeOK
BY InitType, TypeStep, PTL DEF Spec

-----------------------------------------------------------------------------
\* A result that is handled ends the turn that the map gave s: the storage's or the
\* message's takes its place; for one off the map there is neither.
LEMMA HandleTurns ==
    ASSUME TypeOK, NEW s \in Subs, NEW r, NEW i, Handle(s, r, i)
    PROVE  /\ registered' = registered \ {s} /\ watched' = watched \ {s}
           /\ Here(s \in fetching') + answers'[s] <=
                  Here(s \in fetching) + answers[s] + Here(s \in registered)
           /\ \A k \in Subs \ {s} : answers'[k] = answers[k] /\ (k \in fetching' <=> k \in fetching)
<1>1. answers[s] \in Nat
  BY DEF TypeOK
<1>2. registered' = registered \ {s} /\ watched' = watched \ {s}
  BY DEF Handle, Told
<1>3. CASE fetching' = fetching /\ answers' = answers
  BY <1>1, <1>2, <1>3 DEF Here
<1>4. CASE s \in registered /\ fetching' = fetching \cup {s} /\ answers' = answers
  BY <1>1, <1>2, <1>4 DEF Here
<1>5. CASE s \in registered /\ fetching' = fetching /\ Tell(s)
  BY <1>1, <1>2, <1>5 DEF Here, Tell, TypeOK
<1> QED BY <1>3, <1>4, <1>5 DEF Handle, Told

OneTurnOf(s) ==
    /\ Turns(s) <= 1
    /\ starting[s] \in {"new", "post", "watch"} => s \notin watched \cup events

LEMMA TurnStep ==
    ASSUME TypeOK, TypeOK', [Next]_vars, NEW k \in Subs, OneTurnOf(k)
    PROVE  OneTurnOf(k)'
<1>a. answers[k] \in Nat /\ answers'[k] \in Nat
  BY DEF TypeOK
<1>1. CASE /\ UNCHANGED <<starting, fetching, answers>>
           /\ registered' \subseteq registered
           /\ watched' \subseteq watched /\ (k \in events' => k \in events \cup watched)
  BY <1>a, <1>1 DEF OneTurnOf, Turns, Here
<1>2. CASE \/ BeginJob \/ EndJob \/ StopOrError \/ EnterReady \/ HandleExit \/ UNCHANGED vars
  BY <1>1, <1>2 DEF BeginJob, EndJob, StopOrError, EnterReady, HandleExit, vars
<1>3. ASSUME NEW s \in Subs, \/ Abort(s) \/ CloseUnwatched(s) \/ AbortUnwatched(s)
                             \/ AbortPosted(s) \/ ClosePosted(s)
                             \/ \E r \in Ended : PipelineEnds(s, r)
      PROVE  OneTurnOf(k)'
  <2>1. UNCHANGED <<starting, fetching, answers>>
    BY <1>3 DEF Abort, CloseUnwatched, AbortUnwatched, AbortPosted, ClosePosted, PipelineEnds
  <2>2. registered' \subseteq registered
    BY <1>3 DEF Abort, CloseUnwatched, AbortUnwatched, AbortPosted, ClosePosted, Closed,
       PipelineEnds
  <2>3. watched' \subseteq watched /\ events' \subseteq events \cup watched
    BY <1>3 DEF Abort, CloseUnwatched, AbortUnwatched, Unwatch, AbortPosted, ClosePosted, Stop,
       Ends, PipelineEnds
  <2> QED BY <1>1, <2>1, <2>2, <2>3
<1>4. ASSUME NEW s \in Subs, Start(s) \/ PostReturned(s) \/ WatchSet(s)
      PROVE  OneTurnOf(k)'
  <2>1. UNCHANGED <<events, fetching, answers>>
    BY <1>4 DEF Start, PostReturned, WatchSet
  <2>2. CASE k # s
    BY <1>4, <2>1, <2>2 DEF Start, PostReturned, WatchSet, TypeOK, OneTurnOf, Turns
  <2>3. CASE k = s
    BY <1>a, <1>4, <2>1, <2>3 DEF Start, PostReturned, WatchSet, TypeOK, OneTurnOf, Turns, Here
  <2> QED BY <2>2, <2>3
<1>5. ASSUME NEW s \in Subs, StartFailed(s)
      PROVE  OneTurnOf(k)'
  BY <1>a, <1>5 DEF StartFailed, Tell, TypeOK, OneTurnOf, Turns, Here
<1>6. ASSUME NEW s \in Subs, WatchReturned(s)
      PROVE  OneTurnOf(k)'
  <2>1. /\ starting[s] = "read" /\ starting' = [starting EXCEPT ![s] = "over"]
        /\ events' = events
    BY <1>6 DEF WatchReturned
  <2>2. CASE Handle(s, pipeline[s], TRUE)
    <3>1. registered' = registered \ {s} /\ watched' = watched \ {s}
      BY <2>2, HandleTurns
    <3>2. CASE k = s
      <4>1. Here(k \in fetching') + answers'[k] <= Here(k \in fetching) + answers[k] + Here(k \in registered)
        BY <2>2, <3>2, HandleTurns
      <4> QED BY <1>a, <2>1, <2>2, <3>1, <3>2, <4>1 DEF TypeOK, OneTurnOf, Turns, Here
    <3>3. CASE k # s
      <4>1. answers'[k] = answers[k] /\ (k \in fetching' <=> k \in fetching)
        BY <2>2, <3>3, HandleTurns
      <4> QED BY <1>a, <2>1, <3>1, <3>3, <4>1 DEF TypeOK, OneTurnOf, Turns, Here
    <3> QED BY <3>2, <3>3
  <2>3. CASE UNCHANGED <<watched, registered, fetching, answers>>
    BY <1>a, <2>1, <2>3 DEF TypeOK, OneTurnOf, Turns, Here
  <2> QED BY <1>6, <2>2, <2>3 DEF WatchReturned
<1>7. ASSUME NEW s \in Subs, EventArrives(s)
      PROVE  OneTurnOf(k)'
  <2>1. /\ s \in events /\ events' = events \ {s} /\ starting' = starting
        /\ Handle(s, pipeline[s], FALSE)
    BY <1>7 DEF EventArrives
  <2>2. OneTurnOf(k)'
    <3>1. registered' = registered \ {s} /\ watched' = watched \ {s}
      BY <2>1, HandleTurns
    <3>2. CASE k = s
      <4>1. Here(k \in fetching') + answers'[k] <= Here(k \in fetching) + answers[k] + Here(k \in registered)
        BY <2>1, <3>2, HandleTurns
      <4> QED BY <1>a, <2>1, <3>1, <3>2, <4>1 DEF TypeOK, OneTurnOf, Turns, Here
    <3>3. CASE k # s
      <4>1. answers'[k] = answers[k] /\ (k \in fetching' <=> k \in fetching)
        BY <2>1, <3>3, HandleTurns
      <4> QED BY <1>a, <2>1, <3>1, <3>3, <4>1 DEF TypeOK, OneTurnOf, Turns, Here
    <3> QED BY <3>2, <3>3
  <2> QED BY <2>2
<1>8. ASSUME NEW s \in Subs, Fetched(s)
      PROVE  OneTurnOf(k)'
  BY <1>a, <1>8 DEF Fetched, Tell, TypeOK, OneTurnOf, Turns, Here
<1> QED BY <1>2, <1>3, <1>4, <1>5, <1>6, <1>7, <1>8 DEF Next, Step, Gone, Ended

\* The algorithm gets at most one final message about a sub-pipeline.
THEOREM AnsweredAtMostOnce == Spec => []AnsweredOnce
<1>1. Init => OneTurn
  BY DEF Init, OneTurn, Turns, Here
<1>2. TypeOK /\ TypeOK' /\ OneTurn /\ [Next]_vars => OneTurn'
  BY TurnStep DEF OneTurn, OneTurnOf
<1>3. TypeOK /\ OneTurn => AnsweredOnce
  <2> SUFFICES ASSUME TypeOK, OneTurn, NEW s \in Subs PROVE answers[s] <= 1
    BY DEF AnsweredOnce
  <2>1. answers[s] \in Nat /\ Turns(s) <= 1
    BY DEF TypeOK, OneTurn
  <2> QED BY <2>1 DEF Turns, Here
<1> QED BY <1>1, <1>2, <1>3, TypeCorrect, PTL DEF Spec

-----------------------------------------------------------------------------
(***************************************************************************)
(* No message is lost in the first job.                                    *)
(***************************************************************************)
\* The first job runs, undisturbed by stops and failures.
Undisturbed == wstate = "working" /\ job = 1 /\ ~stopping /\ nFailures = 0

\* The final message about s was sent, or something will still send it.
MessageDue(s) ==
    \/ answers[s] = 1
    \/ starting[s] \in {"post", "watch"}
    \/ s \in registered /\ starting[s] = "read"
    \/ s \in registered \cap watched /\ (pipeline[s] = "running" \/ s \in events)
    \/ s \in fetching

\* What holds of s while nothing disturbs the job: it is registered from the answer
\* of its start on, and watched while the watch is read.
Due(s) ==
    /\ starting[s] \in {"watch", "read"} => pipeline[s] # "none"
    /\ starting[s] = "watch" /\ aborting[s] = "no" => s \in registered
    /\ starting[s] = "read" /\ aborting[s] = "no" /\ s \in registered => s \in watched
    /\ starting[s] # "new" /\ aborting[s] = "no" => MessageDue(s)

\* The strengthening: nothing is started before the first job, and a stop of the
\* first job's sub-pipelines ends the job or the worker.
DueInv ==
    /\ job = 0 => /\ wstate \in {"ready", "dead"} /\ ~stopping /\ registered = {}
                  /\ \A s \in Subs : starting[s] = "new" /\ s \notin events
    /\ stopping /\ job = 1 /\ wstate = "working" => caller \in {"end", "exit"}
    /\ ~stopping => \A s \in Subs : closing[s] = "no"
    /\ Undisturbed => \A s \in Subs : Due(s)

\* Before the first job nothing is started, and a stop during it ends it.
LEMMA FrameStep ==
    ASSUME TypeOK, OneTurn, DueInv, [Next]_vars
    PROVE  /\ (job = 0)' => /\ wstate' \in {"ready", "dead"} /\ ~stopping' /\ registered' = {}
                            /\ \A s \in Subs : starting'[s] = "new" /\ s \notin events'
           /\ (stopping /\ job = 1 /\ wstate = "working")' => caller' \in {"end", "exit"}
           /\ ~stopping' => \A s \in Subs : closing'[s] = "no"
<1> DEFINE Frame == /\ (job = 0)' => /\ wstate' \in {"ready", "dead"} /\ ~stopping' /\ registered' = {}
                                     /\ \A s \in Subs : starting'[s] = "new" /\ s \notin events'
                    /\ (stopping /\ job = 1 /\ wstate = "working")' => caller' \in {"end", "exit"}
                    /\ ~stopping' => \A s \in Subs : closing'[s] = "no"
<1> SUFFICES Frame
  OBVIOUS
<1>0. job \in Nat
  BY SubPipelinesAssumption DEF TypeOK
<1>1. CASE UNCHANGED <<wstate, job, stopping, caller, closing, registered, starting, events>>
  BY <1>1 DEF DueInv
<1>2. CASE BeginJob \/ EndJob
  BY <1>0, <1>2 DEF BeginJob, EndJob, DueInv, stopVars
<1>3. CASE StopOrError \/ HandleExit \/ EnterReady
  BY <1>3 DEF StopOrError, HandleExit, EnterReady, StopAll, Continue, DueInv, stopVars, Up
<1>4. ASSUME NEW s \in Subs, ClosePosted(s)
      PROVE  Frame
  <2>1. stopping
    BY <1>4 DEF ClosePosted, DueInv
  <2>2. job # 0 /\ job' = job /\ starting' = starting
    BY <1>4, <2>1 DEF ClosePosted, DueInv
  <2>3. closing' = [closing EXCEPT ![s] = "no"]
    BY <1>4 DEF ClosePosted, Closed
  <2>4. CASE \A t \in Subs \ {s} : closing[t] = "no"
    <3>1. ~stopping'
      BY <1>4, <2>4 DEF ClosePosted, Closed
    <3>2. \A t \in Subs : closing'[t] = "no"
      BY <2>3, <2>4 DEF TypeOK
    <3> QED BY <2>2, <3>1, <3>2
  <2>5. CASE ~ \A t \in Subs \ {s} : closing[t] = "no"
    <3>1. UNCHANGED <<stopping, caller, wstate>>
      BY <1>4, <2>5 DEF ClosePosted, Closed
    <3> QED BY <2>1, <2>2, <3>1 DEF DueInv
  <2> QED BY <2>4, <2>5
<1>5. ASSUME NEW s \in Subs, CloseUnwatched(s)
      PROVE  Frame
  <2>1. stopping /\ UNCHANGED <<wstate, job, stopping, caller, registered, starting>>
    BY <1>5 DEF CloseUnwatched, DueInv, workVars
  <2> QED BY <2>1 DEF DueInv
<1>6. ASSUME NEW s \in Subs,
             \/ Start(s) \/ PostReturned(s) \/ StartFailed(s) \/ WatchSet(s) \/ WatchReturned(s)
             \/ EventArrives(s)
      PROVE  Frame
  <2>1. UNCHANGED <<wstate, job, stopping, caller, closing>>
    BY <1>6 DEF Start, PostReturned, StartFailed, WatchSet, WatchReturned, EventArrives,
       workVars, stopVars
  <2>2. job # 0
    <3>1. CASE Start(s)
      BY <1>0, <3>1 DEF Start
    <3>2. CASE starting[s] \in {"post", "watch", "read"} \/ s \in events
      BY <3>2 DEF DueInv
    <3> QED BY <1>6, <3>1, <3>2
      DEF PostReturned, StartFailed, WatchSet, WatchReturned, EventArrives
  <2> QED BY <2>1, <2>2 DEF DueInv
<1>7. ASSUME NEW s \in Subs, \/ AbortUnwatched(s) \/ AbortPosted(s)
                             \/ \E r \in Ended : PipelineEnds(s, r)
      PROVE  Frame
  <2>1. UNCHANGED <<wstate, job, stopping, caller, closing, registered, starting>>
    BY <1>7 DEF AbortUnwatched, AbortPosted, PipelineEnds, workVars, stopVars
  <2>2. \A t \in Subs : t \in events' => t \in events \cup watched
    BY <1>7 DEF AbortUnwatched, Unwatch, AbortPosted, PipelineEnds, Stop, Ends
  <2>3. job = 0 => \A t \in Subs : t \notin watched \cup events
    BY DEF OneTurn, DueInv
  <2> QED BY <2>1, <2>2, <2>3 DEF DueInv
<1>8. CASE UNCHANGED vars \/ \E s \in Subs : Fetched(s) \/ Abort(s)
  BY <1>1, <1>8 DEF vars, Fetched, Abort, workVars, stopVars
<1> QED BY <1>2, <1>3, <1>4, <1>5, <1>6, <1>7, <1>8 DEF Next, Step, Gone, Ended

\* The first job runs undisturbed only if it did before, or begins.
LEMMA UndisturbedBefore ==
    ASSUME TypeOK, DueInv, [Next]_vars, Undisturbed'
    PROVE  Undisturbed \/ (BeginJob /\ job = 0)
<1>0. job \in Nat /\ nFailures \in Nat
  BY SubPipelinesAssumption DEF TypeOK
<1>1. CASE BeginJob
  BY <1>0, <1>1 DEF BeginJob, Undisturbed
<1>2. CASE EndJob \/ EnterReady \/ StopOrError \/ HandleExit
  BY <1>2 DEF EndJob, EnterReady, StopOrError, HandleExit, StopAll, Continue, Undisturbed, stopVars
<1>3. ASSUME NEW s \in Subs, ClosePosted(s)
      PROVE  FALSE
  <2>1. stopping
    BY <1>3 DEF ClosePosted, DueInv
  <2>2. \A t \in Subs \ {s} : closing[t] = "no"
    BY <1>3, <2>1 DEF ClosePosted, Closed, Undisturbed
  <2>3. Continue(caller)
    BY <1>3, <2>2 DEF ClosePosted, Closed
  <2>4. job' = job /\ wstate' = "working"
    BY <1>3 DEF ClosePosted, Undisturbed
  <2> QED BY <2>1, <2>3, <2>4 DEF Continue, Undisturbed, DueInv
<1>4. CASE UNCHANGED <<wstate, job, stopping>> /\ (nFailures' = nFailures \/ Fail)
  <2>1. nFailures' = 0 /\ UNCHANGED <<wstate, job, stopping>>
    BY <1>4 DEF Undisturbed
  <2>2. nFailures = 0
    BY <1>0, <1>4, <2>1 DEF Fail
  <2> QED BY <2>1, <2>2 DEF Undisturbed
<1>5. CASE \/ UNCHANGED vars
           \/ \E s \in Subs : \/ Start(s) \/ Abort(s) \/ CloseUnwatched(s) \/ PostReturned(s)
                              \/ StartFailed(s) \/ WatchSet(s) \/ WatchReturned(s)
                              \/ EventArrives(s) \/ Fetched(s)
                              \/ AbortUnwatched(s) \/ AbortPosted(s)
                              \/ \E r \in Ended : PipelineEnds(s, r)
  BY <1>4, <1>5 DEF vars, Start, Abort, CloseUnwatched, Unwatch, PostReturned, StartFailed,
     WatchSet, WatchReturned, EventArrives, Fetched, AbortUnwatched, AbortPosted, PipelineEnds,
     workVars, stopVars
<1> QED BY <1>1, <1>2, <1>3, <1>5 DEF Next, Step, Gone, Ended

\* What s has left of its turn.
LEMMA TurnOf ==
    ASSUME TypeOK, OneTurn, NEW s \in Subs
    PROVE  /\ s \in registered /\ (s \in watched \cup events \/ starting[s] = "read") =>
                  s \notin fetching /\ answers[s] = 0
           /\ s \in fetching => answers[s] = 0
           /\ starting[s] \in {"new", "post", "watch"} => answers[s] = 0 /\ s \notin fetching
<1>1. answers[s] \in Nat /\ Turns(s) <= 1
  BY DEF TypeOK, OneTurn
<1> QED BY <1>1 DEF Turns, Here

\* A registered sub-pipeline's result that is handled while the worker works is told
\* or read from the storage.
LEMMA HandlePassesOn ==
    ASSUME TypeOK, NEW s \in Subs, NEW r, NEW i, Handle(s, r, i),
           s \in registered, wstate = "working", answers[s] = 0
    PROVE  s \in fetching' \/ answers'[s] = 1
BY DEF Handle, Told, Tell, TypeOK

LEMMA DueStep ==
    ASSUME TypeOK, TypeOK', OneTurn, DueInv, [Next]_vars, Undisturbed, Undisturbed', NEW k \in Subs
    PROVE  Due(k)'
<1> USE DEF Due, MessageDue
<1>a. Due(k)
  BY DEF DueInv
<1>b. \A s \in Subs : closing[s] = "no"
  BY DEF DueInv, Undisturbed
<1>c. wstate = "working" /\ nFailures = 0 /\ nFailures' = 0
  BY DEF Undisturbed
<1>1. CASE UNCHANGED <<registered, starting, fetching, aborting, pipeline, watched, events, answers>>
  BY <1>a, <1>1
<1>2. CASE BeginJob \/ EndJob \/ StopOrError \/ EnterReady \/ HandleExit \/ UNCHANGED vars
  BY <1>1, <1>2 DEF BeginJob, EndJob, StopOrError, EnterReady, HandleExit, vars
<1>3. ASSUME NEW s \in Subs, CloseUnwatched(s) \/ ClosePosted(s)
      PROVE  Due(k)'
  BY <1>b, <1>3 DEF CloseUnwatched, ClosePosted
<1>4. ASSUME NEW s \in Subs, Start(s) \/ PostReturned(s) \/ WatchSet(s)
      PROVE  Due(k)'
  BY <1>a, <1>c, <1>4 DEF Start, PostReturned, WatchSet, TypeOK
<1>5. ASSUME NEW s \in Subs, StartFailed(s)
      PROVE  Due(k)'
  BY <1>c, <1>5 DEF StartFailed, Fail
<1>6. ASSUME NEW s \in Subs, Abort(s) \/ AbortUnwatched(s) \/ AbortPosted(s)
      PROVE  Due(k)'
  <2>1. aborting'[s] # "no" /\ \A t \in Subs \ {s} : aborting'[t] = aborting[t]
    BY <1>6 DEF Abort, AbortUnwatched, AbortPosted, TypeOK
  <2>2. UNCHANGED <<starting, registered, fetching, answers>>
    BY <1>6 DEF Abort, AbortUnwatched, AbortPosted
  <2>3. \A t \in Subs : pipeline[t] # "none" => pipeline'[t] # "none"
    BY <1>6 DEF Abort, AbortUnwatched, AbortPosted, Stop, Ends, TypeOK
  <2>4. \A t \in Subs \ {s} : /\ pipeline'[t] = pipeline[t]
                              /\ (t \in watched' <=> t \in watched)
                              /\ (t \in events' <=> t \in events)
    BY <1>6 DEF Abort, AbortUnwatched, Unwatch, AbortPosted, Stop, Ends, TypeOK
  <2> QED BY <1>a, <2>1, <2>2, <2>3, <2>4
<1>7. ASSUME NEW s \in Subs, WatchReturned(s)
      PROVE  Due(k)'
  <2>1. /\ starting[s] = "read" /\ starting' = [starting EXCEPT ![s] = "over"]
        /\ UNCHANGED <<aborting, pipeline, events>>
    BY <1>7 DEF WatchReturned
  <2>2. CASE pipeline[s] \in Ended
    <3>1. Handle(s, pipeline[s], TRUE)
      BY <1>7, <2>2 DEF WatchReturned
    <3>2. CASE k = s
      <4>1. s \in registered => s \in fetching' \/ answers'[s] = 1
        BY <1>c, <2>1, <3>1, TurnOf, HandlePassesOn
      <4>2. s \notin registered => UNCHANGED answers /\ fetching' = fetching
        BY <3>1 DEF Handle, Told
      <4> QED BY <1>a, <2>1, <3>2, <4>1, <4>2 DEF TypeOK
    <3>3. CASE k # s
      <4>1. /\ registered' = registered \ {s} /\ watched' = watched \ {s}
            /\ answers'[k] = answers[k] /\ (k \in fetching' <=> k \in fetching)
        BY <3>1, <3>3, HandleTurns
      <4> QED BY <1>a, <2>1, <3>3, <4>1 DEF TypeOK
    <3> QED BY <3>2, <3>3
  <2>3. CASE pipeline[s] \notin Ended
    <3>1. UNCHANGED <<watched, registered, fetching, answers>>
      BY <1>7, <2>3 DEF WatchReturned
    <3>2. pipeline[s] # "none" => pipeline[s] = "running"
      BY <2>3 DEF TypeOK
    <3> QED BY <1>a, <2>1, <3>1, <3>2 DEF TypeOK
  <2> QED BY <2>2, <2>3
<1>8. ASSUME NEW s \in Subs, EventArrives(s)
      PROVE  Due(k)'
  <2>1. /\ s \in events /\ events' = events \ {s} /\ Handle(s, pipeline[s], FALSE)
        /\ UNCHANGED <<aborting, pipeline, starting>>
    BY <1>8 DEF EventArrives
  <2>2. CASE k = s
    <3>1. starting[s] \notin {"new", "post", "watch"}
      BY <2>1 DEF OneTurn
    <3>2. s \in registered => s \in fetching' \/ answers'[s] = 1
      BY <1>c, <2>1, TurnOf, HandlePassesOn
    <3>3. s \notin registered => UNCHANGED answers /\ fetching' = fetching
      BY <2>1 DEF Handle, Told
    <3>4. registered' = registered \ {s}
      BY <2>1 DEF Handle, Told
    <3> QED BY <1>a, <2>1, <2>2, <3>1, <3>2, <3>3, <3>4
  <2>3. CASE k # s
    BY <1>a, <2>1, <2>3, HandleTurns
  <2> QED BY <2>2, <2>3
<1>9. ASSUME NEW s \in Subs, NEW r \in Ended, PipelineEnds(s, r)
      PROVE  Due(k)'
  <2>1. /\ pipeline[s] = "running" /\ pipeline' = [pipeline EXCEPT ![s] = r]
        /\ r \notin {"none", "running"}
        /\ events' = IF s \in watched THEN events \cup {s} ELSE events
        /\ UNCHANGED <<aborting, starting, registered, watched, fetching, answers>>
    BY <1>9 DEF PipelineEnds, Ends, Ended
  <2> QED BY <1>a, <2>1 DEF TypeOK
<1>10. ASSUME NEW s \in Subs, Fetched(s)
       PROVE  Due(k)'
  <2>1. /\ s \in fetching /\ fetching' = fetching \ {s} /\ Tell(s)
        /\ UNCHANGED <<registered, starting, aborting, pipeline, watched, events>>
    BY <1>10 DEF Fetched
  <2>2. answers[s] = 0
    BY <2>1, TurnOf
  <2> QED BY <1>a, <2>1, <2>2 DEF Tell, TypeOK
<1> QED BY <1>2, <1>3, <1>4, <1>5, <1>6, <1>7, <1>8, <1>9, <1>10 DEF Next, Step, Gone, Ended

\* While the first job runs undisturbed no sub-pipeline is lost between the
\* api-server, the watch, the map and the storage: its message is due or sent.
THEOREM NoMessageLost == Spec => []AnswerIsDue
<1>1. Init => OneTurn /\ DueInv
  BY DEF Init, OneTurn, Turns, Here, DueInv, Undisturbed
<1>2. TypeOK /\ TypeOK' /\ OneTurn /\ DueInv /\ [Next]_vars => OneTurn' /\ DueInv'
  <2> SUFFICES ASSUME TypeOK, TypeOK', OneTurn, DueInv, [Next]_vars
               PROVE  OneTurn' /\ DueInv'
    OBVIOUS
  <2>1. OneTurn'
    BY TurnStep DEF OneTurn, OneTurnOf
  <2>2. ASSUME Undisturbed', NEW k \in Subs
        PROVE  Due(k)'
    <3>1. CASE Undisturbed
      BY <2>2, <3>1, DueStep
    <3>2. CASE BeginJob /\ job = 0
      BY <3>2 DEF BeginJob, DueInv, Due, MessageDue
    <3> QED BY <2>2, <3>1, <3>2, UndisturbedBefore
  <2> QED BY <2>1, <2>2, FrameStep DEF DueInv
<1>3. DueInv => AnswerIsDue
  BY DEF DueInv, Undisturbed, Due, MessageDue, AnswerIsDue
<1> QED BY <1>1, <1>2, <1>3, TypeCorrect, PTL DEF Spec
=============================================================================
