---------------------------- MODULE WorkerProofs ----------------------------
(***************************************************************************)
(* Theorems about Worker, for any jobs, any bounds and both modes.         *)
(***************************************************************************)
EXTENDS Worker, TLAPS

-----------------------------------------------------------------------------
(***************************************************************************)
(* The bag of suspended handlers.                                          *)
(***************************************************************************)
IsHandlers(b) ==
    /\ DOMAIN b \subseteq Handlers
    /\ \A h \in DOMAIN b : b[h] \in Nat \ {0}

\* Suspending a handler adds one copy of it and leaves the others.
LEMMA SuspendOne ==
    ASSUME NEW b, IsHandlers(b), NEW h \in Handlers
    PROVE  /\ IsHandlers(BagAdd(b, h))
           /\ DOMAIN BagAdd(b, h) = DOMAIN b \cup {h}
           /\ \A g : Copies(g, BagAdd(b, h)) = Copies(g, b) + IF g = h THEN 1 ELSE 0
BY DEF IsHandlers, Copies, BagAdd

\* Resuming a handler removes one copy of it and leaves the others.
LEMMA ResumeOne ==
    ASSUME NEW b, IsHandlers(b), NEW h \in DOMAIN b
    PROVE  /\ IsHandlers(BagRemove(b, h))
           /\ DOMAIN BagRemove(b, h) \subseteq DOMAIN b
           /\ \A g : Copies(g, BagRemove(b, h)) = Copies(g, b) - IF g = h THEN 1 ELSE 0
<1>1. CASE b[h] = 1
  BY <1>1 DEF IsHandlers, Copies, BagRemove
<1>2. CASE b[h] # 1
  BY <1>2 DEF IsHandlers, Copies, BagRemove
<1> QED BY <1>1, <1>2

\* Of the handlers waiting at points of K, d has no more copies than a.
FewerIn(K, a, d) == \A h \in DOMAIN d : h.at \in K => h \in DOMAIN a /\ d[h] <= a[h]

\* A handler goes on, and one may be suspended at a point outside of K.
LEMMA Fewer ==
    ASSUME NEW a, IsHandlers(a), NEW K,
           NEW b, b = a \/ \E h \in DOMAIN a : b = BagRemove(a, h),
           NEW d, d = b \/ \E h \in Handlers : h.at \notin K /\ d = BagAdd(b, h)
    PROVE  FewerIn(K, a, d)
<1>1. IsHandlers(b) /\ \A g \in DOMAIN b : g \in DOMAIN a /\ b[g] <= a[g]
  <2>1. CASE b = a
    BY <2>1 DEF IsHandlers
  <2>2. ASSUME NEW h \in DOMAIN a, b = BagRemove(a, h)
        PROVE  IsHandlers(b) /\ \A g \in DOMAIN b : g \in DOMAIN a /\ b[g] <= a[g]
    BY <2>2 DEF BagRemove, IsHandlers
  <2> QED BY <2>1, <2>2
<1>2. CASE d = b
  BY <1>1, <1>2 DEF FewerIn
<1>3. ASSUME NEW h \in Handlers, h.at \notin K, d = BagAdd(b, h)
      PROVE  FewerIn(K, a, d)
  BY <1>1, <1>3 DEF FewerIn, BagAdd, IsHandlers
<1> QED BY <1>2, <1>3

\* A handler may go on from a point outside of K, and one may be suspended.
LEMMA NotFewer ==
    ASSUME NEW a, IsHandlers(a), NEW K,
           NEW b, b = a \/ \E h \in DOMAIN a : h.at \notin K /\ b = BagRemove(a, h),
           NEW d, d = b \/ \E h \in Handlers : d = BagAdd(b, h)
    PROVE  FewerIn(K, d, a)
<1>1. IsHandlers(b) /\ \A g \in DOMAIN a : g.at \in K => g \in DOMAIN b /\ a[g] <= b[g]
  <2>1. CASE b = a
    BY <2>1 DEF IsHandlers
  <2>2. ASSUME NEW h \in DOMAIN a, h.at \notin K, b = BagRemove(a, h)
        PROVE  IsHandlers(b) /\ \A g \in DOMAIN a : g.at \in K => g \in DOMAIN b /\ a[g] <= b[g]
    BY <2>2 DEF BagRemove, IsHandlers
  <2> QED BY <2>1, <2>2
<1>2. CASE d = b
  BY <1>1, <1>2 DEF FewerIn
<1>3. ASSUME NEW h \in Handlers, d = BagAdd(b, h)
      PROVE  FewerIn(K, d, a)
  BY <1>1, <1>3 DEF FewerIn, BagAdd, IsHandlers
<1> QED BY <1>2, <1>3

\* The constructors of handlers.
LEMMA HandlerType ==
    ASSUME NEW at \in Points, NEW r \in Results, NEW j \in Jobs \cup {NoJob}
    PROVE  Handler(at, r, j) \in Handlers /\ Waiting(at) \in Handlers
BY DEF Handler, Handlers, Waiting, Results, NoJob

-----------------------------------------------------------------------------
(***************************************************************************)
(* Type correctness.                                                       *)
(***************************************************************************)
\* A call of a transition is well formed.
CallOK(c) ==
    /\ c.res \in Results /\ c.job \in Jobs \cup {NoJob}
    /\ IsHandlers(c.rest)
    /\ c.asked \subseteq {"initialize", "start", "stop"}
    /\ c.stopTimer \in BOOLEAN /\ c.lostTimers \in Nat
    /\ c.heard \in BOOLEAN /\ c.exits \in BOOLEAN /\ c.announces \in States \cup {"none"}

\* The part of the type invariant about the variables a transition may change.
StepTypeOK ==
    /\ state \in States /\ results \in Results /\ smJob \in Jobs \cup {NoJob}
    /\ idleTimer \in BOOLEAN /\ stopTimer \in BOOLEAN /\ lostTimers \in Nat
    /\ term \in BOOLEAN
    /\ cjob \in Jobs \cup {NoJob} /\ isReady \in BOOLEAN
    /\ IsHandlers(suspended)
    /\ published \in Discovery
    /\ acks \in [Jobs -> Nat]
    /\ asked \subseteq {"initialize", "start", "stop"}

RestTypeOK ==
    /\ <<isConnected, isInit, isBootstrapped>> \in BOOLEAN \X BOOLEAN \X BOOLEAN
    /\ dead \in BOOLEAN /\ slot \in Jobs \cup {NoJob}
    /\ hot \in BOOLEAN /\ paused \in BOOLEAN
    /\ queued \subseteq Jobs /\ queuePaused \in BOOLEAN
    /\ watched \subseteq Jobs /\ stopped \subseteq Jobs
    /\ task \in [Jobs -> Results \cup {"active"}]
    /\ stored \in [Jobs -> Results]
    /\ algUp \in BOOLEAN /\ halfOpen \in Nat /\ socket \in BOOLEAN
    /\ algInput \in Jobs \cup {NoJob}
    /\ nStops \in Nat /\ nConnections \in Nat /\ nCommands \in Nat /\ nFailures \in Nat

LEMMA TypeParts == TypeOK <=> StepTypeOK /\ RestTypeOK
BY DEF TypeOK, StepTypeOK, RestTypeOK, IsHandlers

LEMMA TypePartsNext == TypeOK' <=> StepTypeOK' /\ RestTypeOK'
BY DEF TypeOK, StepTypeOK, RestTypeOK, IsHandlers

\* Every request for a transition leads to a state.
LEMMA TargetType ==
    ASSUME NEW t \in Transitions, NEW s \in States, NEW d \in BOOLEAN
    PROVE  Target(t, s, d) \in States
BY DEF Transitions, States, Target, To

LEMMA DiscoveryType ==
    ASSUME NEW s \in States, NEW j \in Jobs \cup {NoJob}, paused \in BOOLEAN, hot \in BOOLEAN
    PROVE  DiscoveryOf(s, j) \in Discovery
BY DEF DiscoveryOf, Discovery

LEMMA FinishType ==
    ASSUME TypeOK, NEW s \in States, NEW c, Finish(s, c)
    PROVE  acks' \in [Jobs -> Nat] /\ cjob' \in Jobs \cup {NoJob}
BY DEF TypeOK, Finish, NoJob

LEMMA TimersType ==
    ASSUME TypeOK, NEW s \in States, NEW c, CallOK(c), Timers(s, c)
    PROVE  idleTimer' \in BOOLEAN /\ stopTimer' \in BOOLEAN /\ lostTimers' \in Nat
BY DEF TypeOK, CallOK, Timers

\* What a state that is entered leaves waiting.
LEMMA EnteredSuspends ==
    ASSUME TypeOK, NEW s \in States, NEW c, CallOK(c), Entered(s, c)
    PROVE  \/ suspended' = c.rest
           \/ \E at \in {"unwatch", "cleanup", "extract", "ready"}, r \in Results,
                 j \in Jobs \cup {NoJob} : suspended' = BagAdd(c.rest, Handler(at, r, j))
<1>1. CASE s = "results" /\ cjob # NoJob
  <2>1. suspended' = BagAdd(c.rest, Handler("unwatch", c.res, cjob))
    BY <1>1 DEF Entered
  <2> QED BY <2>1 DEF TypeOK, CallOK
<1>2. CASE s = "results" /\ cjob = NoJob
  <2>1. suspended' = BagAdd(c.rest, Handler("cleanup", "none", NoJob))
    BY <1>2 DEF Entered, Waiting
  <2> QED BY <2>1 DEF Results
<1>3. CASE s = "init"
  <2>1. suspended' = BagAdd(c.rest, Handler("extract", "none", c.job))
    BY <1>3 DEF Entered
  <2> QED BY <2>1 DEF CallOK, Results
<1>4. CASE s = "ready"
  <2>1. suspended' = BagAdd(c.rest, Handler("ready", "none", NoJob))
    BY <1>4 DEF Entered, Waiting
  <2> QED BY <2>1 DEF Results
<1>5. CASE s \notin {"results", "init", "ready"}
  BY <1>5 DEF Entered
<1> QED BY <1>1, <1>2, <1>3, <1>4, <1>5

LEMMA EnteredType ==
    ASSUME TypeOK, NEW s \in States, NEW c, CallOK(c), Entered(s, c),
           cjob' \in Jobs \cup {NoJob}
    PROVE  /\ isReady' \in BOOLEAN /\ term' \in BOOLEAN
           /\ idleTimer' \in BOOLEAN /\ stopTimer' \in BOOLEAN /\ lostTimers' \in Nat
           /\ asked' \subseteq {"initialize", "start", "stop"}
           /\ IsHandlers(suspended')
           /\ published' \in Discovery
<1>1. isReady' \in BOOLEAN /\ term' \in BOOLEAN
  BY DEF Entered, TypeOK, CallOK
<1>2. idleTimer' \in BOOLEAN /\ stopTimer' \in BOOLEAN /\ lostTimers' \in Nat
  BY TimersType DEF Entered
<1>3. asked' \subseteq {"initialize", "start", "stop"}
  BY DEF Entered, CallOK, CommandOf
<1>4. IsHandlers(suspended')
  <2>1. CASE suspended' = c.rest
    BY <2>1 DEF CallOK
  <2>2. ASSUME NEW at \in {"unwatch", "cleanup", "extract", "ready"}, NEW r \in Results,
               NEW j \in Jobs \cup {NoJob}, suspended' = BagAdd(c.rest, Handler(at, r, j))
        PROVE  IsHandlers(suspended')
    <3>1. at \in Points
      BY <2>2 DEF Points
    <3>2. Handler(at, r, j) \in Handlers
      BY <3>1, HandlerType
    <3>3. IsHandlers(c.rest)
      BY DEF CallOK
    <3>4. IsHandlers(BagAdd(c.rest, Handler(at, r, j)))
      BY <3>2, <3>3, SuspendOne
    <3> QED BY <2>2, <3>4
  <2> QED BY <2>1, <2>2, EnteredSuspends
<1>5. published' \in Discovery
  <2>1. /\ DiscoveryOf(s, cjob') \in Discovery
        /\ c.announces # "none" => DiscoveryOf(c.announces, cjob') \in Discovery
    BY DiscoveryType DEF TypeOK, CallOK
  <2> QED BY <2>1 DEF Entered, TypeOK
<1> QED BY <1>1, <1>2, <1>3, <1>4, <1>5

LEMMA TransitType ==
    ASSUME WorkerAssumption, TypeOK, NEW t \in Transitions, NEW c, CallOK(c), Transit(t, c)
    PROVE  StepTypeOK'
<1> DEFINE s == Target(t, state, DebugMode)
<1>1. s \in States
  BY TargetType DEF TypeOK, WorkerAssumption
<1>2. state' \in States /\ results' \in Results /\ smJob' \in Jobs \cup {NoJob}
  BY <1>1 DEF Transit, CallOK
<1>3. CASE state \notin From[t] /\ DebugMode /\ suspended' = c.rest /\ asked' = c.asked
           /\ stopTimer' = c.stopTimer /\ lostTimers' = c.lostTimers
           /\ term' = (term \/ c.exits)
           /\ published' = (IF c.announces = "none" THEN published
                            ELSE DiscoveryOf(c.announces, cjob))
           /\ UNCHANGED <<jobVars, acks, idleTimer>>
  <2>1. published' \in Discovery
    BY <1>3, DiscoveryType DEF TypeOK, CallOK
  <2> QED BY <1>2, <1>3, <2>1 DEF TypeOK, CallOK, StepTypeOK, jobVars
<1>4. CASE Finish(s, c) /\ c.heard /\ Entered(s, c)
  <2>1. acks' \in [Jobs -> Nat] /\ cjob' \in Jobs \cup {NoJob}
    BY <1>1, <1>4, FinishType
  <2> QED BY <1>1, <1>2, <1>4, <2>1, EnteredType DEF StepTypeOK
<1>5. CASE Finish(s, c) /\ EnteredUnheard(s, c)
  <2>1. acks' \in [Jobs -> Nat] /\ cjob' \in Jobs \cup {NoJob}
    BY <1>1, <1>5, FinishType
  <2> QED BY <1>2, <1>5, <2>1 DEF EnteredUnheard, TypeOK, CallOK, StepTypeOK
<1> QED BY <1>3, <1>4, <1>5 DEF Transit
LEMMA CallingOK ==
    ASSUME TypeOK, NEW b, IsHandlers(b)
    PROVE  CallOK(Calling(b))
BY DEF TypeOK, CallOK, Calling

LEMMA RestOK ==
    ASSUME TypeOK, NEW h, Resumed(h)
    PROVE  IsHandlers(Rest(h)) /\ h \in Handlers
BY ResumeOne DEF TypeOK, Resumed, Rest, IsHandlers

-----------------------------------------------------------------------------
(***************************************************************************)
(* The form of the actions that request a transition: each comes with a    *)
(* well-formed call, whose cause it consumes; only the two timers request  *)
(* "exit"; and states are heard from init on.                              *)
(***************************************************************************)
\* The handler of h goes on and requests the transition.
Resumes(h, c) ==
    /\ h \in DOMAIN suspended
    /\ c.rest = BagRemove(suspended, h) /\ c.asked = asked

Cause(t, c) ==
    \/ /\ t = "bootstrap" /\ isInit' /\ c.rest = suspended /\ c.asked \in {asked, {}}
       /\ nConnections' = nConnections => c.asked = asked
    \/ /\ t = "start" /\ Reachable /\ "initialize" \in asked
       /\ c.rest = suspended /\ c.asked = asked \ {"initialize"}
    \/ /\ t = "done" /\ c.res = algInput /\ Reachable /\ "start" \in asked
       /\ c.rest = suspended /\ c.asked = asked \ {"start"}
    \/ /\ t = "done" /\ c.res = "empty"
       /\ "stop" \in asked \/ stopTimer \/ lostTimers > 0
       /\ c.rest = suspended /\ c.asked \subseteq asked
    \/ /\ t = "done" /\ c.res = "error"
       /\ \E h \in DOMAIN suspended : /\ h.at \in {"algError", "disconnect", "extract"}
                                      /\ Resumes(h, c)
    \/ t = "prepare" /\ \E j \in Jobs : c.job = j /\ Resumes(AtUpdate(j), c)
    \/ t = "cleanup" /\ Resumes(Waiting("cleanup"), c)
    \/ t = "stop" /\ Resumes(Waiting("stop"), c)
    \/ /\ t = "exit"
       /\ state = "bootstrap" \/ idleTimer
       /\ c.rest = suspended /\ c.asked = asked

\* What no request changes but "prepare", whose job is active from then on, and
\* "bootstrap", which may come of a new connection.
Leaves(t, c) ==
    /\ task' = IF t = "prepare" THEN [task EXCEPT ![c.job] = "active"] ELSE task
    /\ UNCHANGED <<slot, queued, stored, stopped, hot, paused, queuePaused, algInput,
                   nCommands, nFailures>>
    /\ t = "bootstrap" \/ UNCHANGED <<sockVars, nConnections, isConnected>>

Requests(t, c) ==
    /\ CallOK(c) /\ Transit(t, c) /\ Cause(t, c) /\ Leaves(t, c)
    /\ c.heard = isInit'
    /\ c.stopTimer => stopTimer
    /\ c.lostTimers <= lostTimers
    /\ t = "done" \/ (c.stopTimer = stopTimer /\ c.lostTimers = lostTimers)
    /\ t = "prepare" \/ c.job = smJob

Requesting == \E t \in Transitions : \E c : Requests(t, c)
Requested == \E t \in Transitions \ {"bootstrap"} : \E c : Requests(t, c)

LEMMA RequestMade ==
    ASSUME WorkerAssumption, TypeOK,
           \/ BootTimeout \/ AlgInitialized \/ AlgDone \/ AlgStopped
           \/ AlgErrorHandled \/ DisconnectHandled
           \/ \E j \in Jobs : ExtractFailed(j) \/ JobUpdated(j)
           \/ CleanedUp \/ StopHandled \/ StopTimeout
           \/ IdleTimeout /\ ~term
    PROVE  Requested
<1> USE DEF Transitions
<1>t. lostTimers \in Nat
  BY DEF TypeOK
<1>a. CallOK(Calling(suspended))
  BY CallingOK DEF TypeOK, IsHandlers
<1>b. \A h : Resumed(h) => CallOK(Calling(Rest(h)))
  BY CallingOK, RestOK
<1>1. CASE BootTimeout
  <2>1. Requests("exit", Calling(suspended))
    BY <1>t, <1>1, <1>a DEF BootTimeout, Requests, Leaves, Cause, Resumes, AtUpdate, Calling, bootVars, cmdVars, etcdVars, counters
  <2> QED BY <2>1 DEF Requested
<1>2. CASE AlgInitialized
  <2> DEFINE c == [Calling(suspended) EXCEPT !.res = "none", !.asked = @ \ {"initialize"}]
  <2>1. CallOK(c)
    BY <1>a DEF CallOK, Calling, Results
  <2>2. Requests("start", c)
    BY <1>t, <1>2, <2>1 DEF AlgInitialized, Requests, Leaves, Cause, Resumes, AtUpdate, Calling, otherVars, bootVars, cmdVars, etcdVars, counters
  <2> QED BY <2>2 DEF Requested
<1>3. CASE AlgDone
  <2> DEFINE c == [[Calling(suspended) EXCEPT !.asked = @ \ {"start"}] EXCEPT !.res = algInput]
  <2>1. CallOK(c)
    BY <1>a DEF CallOK, Calling, Results, TypeOK, NoJob
  <2>2. Requests("done", c)
    BY <1>t, <1>3, <2>1 DEF AlgDone, Done, Requests, Leaves, Cause, Resumes, AtUpdate, Calling, otherVars, bootVars, cmdVars, etcdVars, counters
  <2> QED BY <2>2 DEF Requested
<1>4. CASE AlgStopped
  <2> DEFINE c == [[Calling(suspended) EXCEPT !.asked = @ \ {"stop"}, !.stopTimer = FALSE]
                     EXCEPT !.res = "empty"]
  <2>1. CallOK(c)
    BY <1>a DEF CallOK, Calling, Results
  <2>2. Requests("done", c)
    BY <1>t, <1>4, <2>1 DEF AlgStopped, Done, Requests, Leaves, Cause, Resumes, AtUpdate, Calling, otherVars, bootVars, cmdVars, etcdVars, counters
  <2> QED BY <2>2 DEF Requested
<1>5. CASE AlgErrorHandled \/ DisconnectHandled
  <2>1. PICK h : /\ Resumed(h) /\ Done("error", Calling(Rest(h)))
                 /\ h.at \in {"algError", "disconnect"}
                 /\ UNCHANGED <<otherVars, etcdVars, algInput>>
    BY <1>5 DEF AlgErrorHandled, DisconnectHandled, Waiting, Handler
  <2> DEFINE c == [Calling(Rest(h)) EXCEPT !.res = "error"]
  <2>2. CallOK(c)
    BY <1>b, <2>1 DEF CallOK, Calling, Results
  <2>3. Requests("done", c)
    BY <1>t, <2>1, <2>2 DEF Done, Requests, Leaves, Cause, Resumes, AtUpdate, Calling, Rest, Resumed, otherVars, bootVars, cmdVars, etcdVars, counters
  <2> QED BY <2>3 DEF Requested
<1>6. ASSUME NEW j \in Jobs, ExtractFailed(j)
      PROVE  Requested
  <2> DEFINE h == Handler("extract", "none", j)
             c == [[Calling(Rest(h)) EXCEPT !.announces = "init"] EXCEPT !.res = "error"]
  <2>1. CallOK(c)
    BY <1>6, <1>b DEF ExtractFailed, CallOK, Calling, Results, States
  <2>2. h.at = "extract"
    BY DEF Handler
  <2>3. Resumes(h, c) /\ c.res = "error" /\ h \in DOMAIN suspended
    BY <1>6 DEF ExtractFailed, Resumes, Calling, Rest, Resumed
  <2>t. Transit("done", c)
    BY <1>6 DEF ExtractFailed, Done
  <2>4. /\ c.heard = isInit'
        /\ c.stopTimer => stopTimer
        /\ c.lostTimers <= lostTimers
        /\ c.job = smJob
        /\ Leaves("done", c)
    BY <1>t, <1>6 DEF ExtractFailed, Leaves, Calling, otherVars, bootVars, cmdVars, etcdVars, counters
  <2> HIDE DEF c, h
  <2>5. Requests("done", c)
    BY <2>1, <2>2, <2>3, <2>t, <2>4 DEF Requests, Cause
  <2> QED BY <2>5 DEF Requested
<1>7. ASSUME NEW j \in Jobs, JobUpdated(j)
      PROVE  Requested
  <2> DEFINE h == Handler("job.update", "none", j)
             c == [Calling(Rest(h)) EXCEPT !.job = j]
  <2>1. CallOK(c)
    BY <1>7, <1>b DEF JobUpdated, CallOK, Calling
  <2>2. Requests("prepare", c)
    BY <1>t, <1>7, <2>1 DEF JobUpdated, Requests, Leaves, Cause, Resumes, AtUpdate, Calling, Rest, Resumed, otherVars, bootVars, cmdVars, etcdVars, counters
  <2> QED BY <2>2 DEF Requested
<1>8. CASE CleanedUp
  <2>1. Requests("cleanup", Calling(Rest(Waiting("cleanup"))))
    BY <1>t, <1>8, <1>b DEF CleanedUp, Requests, Leaves, Cause, Resumes, AtUpdate, Calling, Rest, Resumed, otherVars, bootVars, cmdVars, etcdVars, counters
  <2> QED BY <2>1 DEF Requested
<1>9. CASE StopHandled
  <2>1. Requests("stop", Calling(Rest(Waiting("stop"))))
    BY <1>t, <1>9, <1>b DEF StopHandled, Requests, Leaves, Cause, Resumes, AtUpdate, Calling, Rest, Resumed, otherVars, bootVars, cmdVars, etcdVars, counters
  <2> QED BY <2>1 DEF Requested
<1>10. CASE StopTimeout
  <2> DEFINE c1 == [[Calling(suspended) EXCEPT !.stopTimer = FALSE, !.exits = TRUE]
                      EXCEPT !.res = "empty"]
             c2 == [[Calling(suspended) EXCEPT !.lostTimers = @ - 1, !.exits = TRUE]
                      EXCEPT !.res = "empty"]
  <2>1. CallOK(c1) /\ (lostTimers > 0 => CallOK(c2))
    BY <1>a DEF CallOK, Calling, Results
  <2>2. Requests("done", c1) \/ Requests("done", c2)
    BY <1>t, <1>10, <2>1 DEF StopTimeout, Done, Requests, Leaves, Cause, Resumes, AtUpdate, Calling, otherVars, bootVars, cmdVars, etcdVars, counters
  <2> QED BY <2>2 DEF Requested
<1>11. CASE IdleTimeout /\ ~term
  <2>1. Requests("exit", Calling(suspended))
    BY <1>t, <1>11, <1>a DEF IdleTimeout, Requests, Leaves, Cause, Resumes, AtUpdate, Calling, otherVars, bootVars, cmdVars, etcdVars, counters
  <2> QED BY <2>1 DEF Requested
<1> QED
  BY <1>1, <1>2, <1>3, <1>4, <1>5, <1>6, <1>7, <1>8, <1>9, <1>10, <1>11

LEMMA RequestForm ==
    ASSUME WorkerAssumption, TypeOK,
           \/ BootTimeout \/ AlgInitialized \/ AlgDone \/ AlgStopped
           \/ AlgErrorHandled \/ DisconnectHandled
           \/ \E j \in Jobs : ExtractFailed(j) \/ JobUpdated(j)
           \/ CleanedUp \/ StopHandled \/ StopTimeout
           \/ IdleTimeout /\ ~term
    PROVE  Requesting
BY RequestMade DEF Requested, Requesting

\* Whatever the cause, one handler at most has gone on.
LEMMA RequestRest ==
    ASSUME NEW t, NEW c, Cause(t, c)
    PROVE  /\ c.rest = suspended \/ \E h \in DOMAIN suspended : c.rest = BagRemove(suspended, h)
           /\ t = "exit" => state = "bootstrap" \/ idleTimer
BY DEF Cause, Resumes

\* A state that is entered may leave one handler waiting, at one of these points.
Entering == {"unwatch", "cleanup", "extract", "ready"}

LEMMA TransitMoves ==
    ASSUME WorkerAssumption, TypeOK, NEW t \in Transitions, NEW c, CallOK(c), Transit(t, c)
    PROVE  suspended' = c.rest \/ \E h \in Handlers : h.at \in Entering /\ suspended' = BagAdd(c.rest, h)
<1> DEFINE s == Target(t, state, DebugMode)
<1>1. CASE Entered(s, c)
  <2>1. s \in States
    BY TargetType DEF TypeOK, WorkerAssumption
  <2>2. ASSUME NEW at \in Entering, NEW r \in Results, NEW j \in Jobs \cup {NoJob},
               suspended' = BagAdd(c.rest, Handler(at, r, j))
        PROVE  \E h \in Handlers : h.at \in Entering /\ suspended' = BagAdd(c.rest, h)
    <3>1. Handler(at, r, j) \in Handlers /\ Handler(at, r, j).at = at
      BY HandlerType DEF Handler, Points, Entering
    <3> QED BY <2>2, <3>1
  <2> QED BY <1>1, <2>1, <2>2, EnteredSuspends DEF Entering
<1> QED BY <1>1 DEF Transit, EnteredUnheard

\* Every handler but the one that goes on, and the one that the new state leaves.
LEMMA RequestMoves ==
    ASSUME WorkerAssumption, TypeOK, NEW t \in Transitions, NEW c, Requests(t, c)
    PROVE  /\ FewerIn(Points \ Entering, suspended, suspended')
           /\ FewerIn({"pause", "resume", "setInactive"}, suspended', suspended)
<1>1. IsHandlers(suspended) /\ CallOK(c) /\ Cause(t, c) /\ Transit(t, c)
  BY TypeParts DEF StepTypeOK, Requests
<1>2. \/ c.rest = suspended
      \/ \E h \in DOMAIN suspended : /\ h.at \notin {"pause", "resume", "setInactive"}
                                    /\ c.rest = BagRemove(suspended, h)
  BY <1>1 DEF Cause, Resumes, AtUpdate, Waiting, Handler
<1>3. suspended' = c.rest \/ \E h \in Handlers : h.at \in Entering /\ suspended' = BagAdd(c.rest, h)
  BY <1>1, TransitMoves
<1> QED BY <1>1, <1>2, <1>3, Fewer, NotFewer

\* A request that the machine refuses, or one for exit, leaves the job alone.
LEMMA RequestRefused ==
    ASSUME TypeOK, NEW t \in Transitions, NEW c, Requests(t, c), state \notin From[t] \/ t = "exit"
    PROVE  /\ state' \in {state, "exit"} /\ UNCHANGED <<cjob, isReady, acks>>
           /\ suspended' = c.rest /\ asked' = c.asked
           /\ stopTimer' = c.stopTimer /\ lostTimers' = c.lostTimers
<1> DEFINE s == Target(t, state, DebugMode)
<1>1. Transit(t, c) /\ state' = s
  BY DEF Requests, Transit
<1>2. CASE state \notin From[t] /\ DebugMode
  BY <1>1, <1>2 DEF Transit, Target, jobVars
<1>3. CASE s = "exit" /\ (state \in From[t] \/ ~DebugMode)
  <2>1. UNCHANGED <<acks, cjob>>
    BY <1>1, <1>3 DEF Transit, Finish
  <2>2. /\ isReady' = isReady /\ suspended' = c.rest /\ asked' = c.asked
        /\ stopTimer' = c.stopTimer /\ lostTimers' = c.lostTimers
    <3>1. CASE Entered(s, c)
      <4>1. CommandOf(s) = {}
        BY <1>3 DEF CommandOf
      <4>2. asked' = c.asked
        BY <3>1, <4>1 DEF Entered
      <4> QED BY <1>3, <3>1, <4>2 DEF Entered, Timers, TypeOK, Requests, CallOK
    <3>2. CASE EnteredUnheard(s, c)
      BY <1>3, <3>2 DEF EnteredUnheard, TypeOK
    <3> QED BY <1>1, <1>3, <3>1, <3>2 DEF Transit
  <2> QED BY <1>1, <1>3, <2>1, <2>2
<1> QED BY <1>2, <1>3 DEF Target, From, To, Transitions

\* A request that the machine takes enters the state the transition ends in.
LEMMA RequestTaken ==
    ASSUME NEW t \in Transitions, NEW c, Requests(t, c), state \in From[t]
    PROVE  /\ state' = To[t] /\ Finish(To[t], c) /\ smJob' = c.job
           /\ Entered(To[t], c) \/ EnteredUnheard(To[t], c)
BY DEF Requests, Transit, Target

\* Starting up requests a transition or leaves the worker as it is.
Still == /\ asked' \subseteq asked
         /\ nConnections' = nConnections => asked' = asked
         /\ UNCHANGED <<smVars, jobVars, acks, idleTimer, stopTimer, lostTimers, term, suspended,
                        published>>

LEMMA Booting ==
    ASSUME WorkerAssumption, TypeOK, InitWorker \/ Connect
    PROVE  Still \/ \E c : Requests("bootstrap", c) /\ isConnected'
<1>t. lostTimers \in Nat
  BY DEF TypeOK
<1>1. CASE InitWorker
  <2> DEFINE c == [Calling(suspended) EXCEPT !.heard = TRUE]
  <2>1. CallOK(c)
    BY CallingOK DEF CallOK, Calling, TypeOK, IsHandlers
  <2>2. Transit("bootstrap", c) => Requests("bootstrap", c)
    BY <1>t, <1>1, <2>1 DEF InitWorker, Requests, Leaves, Cause, Calling, cmdVars, etcdVars, sockVars, counters
  <2> QED BY <1>1, <2>2 DEF InitWorker, Bootstrap, Still, Calling, counters
<1>2. CASE Connect
  <2>1. PICK owed \in {{}, asked} :
           IF state = "exit"
           THEN asked' = owed /\ UNCHANGED <<isBootstrapped, smVars, jobVars, acks, idleTimer,
                                    stopTimer, lostTimers, term, suspended, published>>
           ELSE Bootstrap([Calling(suspended) EXCEPT !.asked = owed])
    BY <1>2 DEF Connect
  <2> DEFINE c == [Calling(suspended) EXCEPT !.asked = owed]
  <2>2. CallOK(c)
    BY CallingOK DEF CallOK, Calling, TypeOK, IsHandlers
  <2>3. nConnections' # nConnections
    BY <1>2 DEF Connect, TypeOK
  <2>4. Transit("bootstrap", c) /\ isInit' => Requests("bootstrap", c)
    BY <1>t, <1>2, <2>2, <2>3 DEF Connect, Requests, Leaves, Cause, Calling, cmdVars, etcdVars, sockVars, counters
  <2> QED BY <1>2, <2>1, <2>3, <2>4 DEF Connect, Bootstrap, Still, Calling
<1> QED BY <1>1, <1>2

LEMMA BootstrapForm ==
    ASSUME WorkerAssumption, TypeOK, InitWorker \/ Connect
    PROVE  Requesting \/ Still
BY Booting DEF Requesting, Transitions

-----------------------------------------------------------------------------
(***************************************************************************)
(* Type correctness, action by action.                                     *)
(***************************************************************************)
LEMMA RequestingType ==
    ASSUME WorkerAssumption, TypeOK, Requesting
    PROVE  StepTypeOK'
BY TransitType DEF Requesting, Requests

LEMMA BootstrapType ==
    ASSUME WorkerAssumption, TypeOK, InitWorker \/ Connect
    PROVE  TypeOK'
<1>1. StepTypeOK'
  <2>1. CASE Still
    BY <2>1 DEF Still, TypeOK, StepTypeOK, smVars, jobVars, IsHandlers
  <2> QED BY <2>1, BootstrapForm, RequestingType
<1>2. isBootstrapped' \in BOOLEAN /\ isConnected' \in BOOLEAN /\ isInit' \in BOOLEAN
  BY DEF InitWorker, Connect, Bootstrap, TypeOK
<1>3. CASE InitWorker
  <2>1. RestTypeOK'
    BY <1>2, <1>3 DEF InitWorker, TypeOK, RestTypeOK, cmdVars, sockVars, counters, etcdVars
  <2> QED BY <1>1, <2>1, TypePartsNext
<1>4. CASE Connect
  <2>1. halfOpen' \in Nat /\ nConnections' \in Nat /\ algUp' \in BOOLEAN /\ socket' \in BOOLEAN
    BY <1>4 DEF Connect, TypeOK
  <2>2. UNCHANGED <<dead, hot, paused, queuePaused, slot, queued, watched, stopped, task, stored,
                    algInput, nStops, nCommands, nFailures>>
    BY <1>4 DEF Connect, cmdVars, etcdVars
  <2>3. RestTypeOK'
    BY <1>2, <2>1, <2>2 DEF TypeOK, RestTypeOK
  <2> QED BY <1>1, <2>3, TypePartsNext
<1> QED BY <1>3, <1>4

\* What most transitions leave alone keeps its type.
LEMMA OtherType ==
    ASSUME TypeOK, UNCHANGED <<otherVars, etcdVars, algInput>>
    PROVE  RestTypeOK'
BY DEF TypeOK, RestTypeOK, otherVars, bootVars, cmdVars, sockVars, counters, etcdVars

LEMMA RequestType ==
    ASSUME WorkerAssumption, TypeOK,
           \/ BootTimeout \/ Answer \/ AlgErrorHandled \/ DisconnectHandled
           \/ \E j \in Jobs : ExtractFailed(j)
           \/ CleanedUp \/ StopHandled \/ StopTimeout \/ IdleTimeout
    PROVE  TypeOK'
<1>1. RestTypeOK'
  <2>1. UNCHANGED <<otherVars, etcdVars, algInput>>
    BY DEF BootTimeout, Answer, AlgInitialized, AlgDone, AlgStopped, AlgError, AlgErrorHandled,
           DisconnectHandled, ExtractFailed, CleanedUp, StopHandled, StopTimeout, IdleTimeout,
           otherVars
  <2> QED BY <2>1, OtherType
<1>2. StepTypeOK'
  <2>1. CASE AlgError
    <3>1. IsHandlers(suspended')
      BY <2>1, HandlerType, SuspendOne DEF AlgError, TypeOK, IsHandlers, Points, Results
    <3> QED BY <2>1, <3>1 DEF AlgError, TypeOK, StepTypeOK, smVars, jobVars
  <2>2. CASE IdleTimeout /\ term
    BY <2>2 DEF IdleTimeout, TypeOK, StepTypeOK, smVars, jobVars, IsHandlers
  <2> QED BY <2>1, <2>2, RequestForm, RequestingType DEF Answer
<1> QED BY <1>1, <1>2, TypePartsNext

LEMMA HandlerStepType ==
    ASSUME WorkerAssumption, TypeOK,
           \/ Disconnect \/ Poll \/ ReadyHandled \/ SetInactive
           \/ \E j \in Jobs : Deliver(j) \/ StopJob(j) \/ JobWatched(j) \/ JobUnwatched(j)
                              \/ JobUpdated(j) \/ Extracted(j)
    PROVE  TypeOK'
<1> USE DEF Transitions
<1>a. \A at \in Points : IsHandlers(BagAdd(suspended, Waiting(at)))
  BY SuspendOne, HandlerType DEF TypeOK, IsHandlers, Results
<1>1. CASE Disconnect
  <2>1. IsHandlers(suspended')
    BY <1>1, <1>a DEF Disconnect, TypeOK, IsHandlers, Points
  <2>2. StepTypeOK'
    BY <1>1, <2>1 DEF Disconnect, TypeOK, StepTypeOK, smVars, jobVars
  <2>3. algUp' \in BOOLEAN /\ halfOpen' \in Nat /\ socket' \in BOOLEAN
    <3>1. \/ algUp' = FALSE /\ halfOpen' = halfOpen
          \/ halfOpen > 0 /\ halfOpen' = halfOpen - 1 /\ algUp' = algUp
      BY <1>1, Zenon DEF Disconnect
    <3>2. halfOpen \in Nat /\ algUp \in BOOLEAN /\ socket' = FALSE
      BY <1>1 DEF Disconnect, TypeOK
    <3>3. halfOpen' \in Nat
      BY <3>1, <3>2
    <3>4. algUp' \in BOOLEAN
      BY <3>1, <3>2, Zenon
    <3> QED BY <3>2, <3>3, <3>4
  <2>4. RestTypeOK'
    BY <1>1, <2>3 DEF Disconnect, TypeOK, RestTypeOK, bootVars, cmdVars, etcdVars, counters
  <2> QED BY <2>2, <2>4, TypePartsNext
<1>2. CASE Poll
  <2>1. IsHandlers(suspended')
    BY <1>2, HandlerType, SuspendOne DEF Poll, TypeOK, IsHandlers, Points, Results
  <2>2. StepTypeOK'
    BY <1>2, <2>1 DEF Poll, TypeOK, StepTypeOK, smVars, jobVars
  <2>3. RestTypeOK'
    BY <1>2 DEF Poll, TypeOK, RestTypeOK, bootVars, cmdVars, etcdVars, sockVars, counters
  <2> QED BY <2>2, <2>3, TypePartsNext
<1>3. CASE ReadyHandled
  <2>1. IsHandlers(suspended')
    BY <1>3, RestOK DEF ReadyHandled
  <2>2. published' \in Discovery
    BY <1>3, DiscoveryType DEF ReadyHandled, TypeOK, States
  <2>3. StepTypeOK'
    BY <1>3, <2>1, <2>2 DEF ReadyHandled, TypeOK, StepTypeOK, smVars, jobVars
  <2> QED BY <1>3, <2>3, OtherType, TypePartsNext DEF ReadyHandled
<1>4. CASE SetInactive
  <2>1. IsHandlers(suspended')
    BY <1>4, RestOK DEF SetInactive
  <2>2. StepTypeOK'
    BY <1>4, <2>1 DEF SetInactive, TypeOK, StepTypeOK, smVars, jobVars
  <2> QED BY <1>4, <2>2, OtherType, TypePartsNext DEF SetInactive
<1>5. ASSUME NEW j \in Jobs, Deliver(j)
      PROVE  TypeOK'
  <2>1. StepTypeOK'
    BY <1>5 DEF Deliver, TypeOK, StepTypeOK, stepVars, smVars, jobVars, IsHandlers
  <2>2. RestTypeOK'
    BY <1>5 DEF Deliver, TypeOK, RestTypeOK, bootVars, cmdVars, etcdVars, sockVars, counters
  <2> QED BY <2>1, <2>2, TypePartsNext
<1>6. ASSUME NEW j \in Jobs, StopJob(j)
      PROVE  TypeOK'
  <2>1. IsHandlers(suspended')
    BY <1>6, <1>a DEF StopJob, TypeOK, IsHandlers, Points
  <2>2. StepTypeOK'
    BY <1>6, <2>1 DEF StopJob, TypeOK, StepTypeOK, smVars, jobVars
  <2>3. RestTypeOK'
    BY <1>6 DEF StopJob, TypeOK, RestTypeOK, bootVars, cmdVars, sockVars
  <2> QED BY <2>2, <2>3, TypePartsNext
<1>7. ASSUME NEW j \in Jobs, JobWatched(j)
      PROVE  TypeOK'
  <2> DEFINE h == Handler("job.watch", "none", j)
  <2>1. IsHandlers(Rest(h))
    BY <1>7, RestOK DEF JobWatched
  <2>2. \A at \in Points : IsHandlers(BagAdd(Rest(h), Handler(at, "none", j)))
    BY <2>1, SuspendOne, HandlerType DEF Results
  <2>3. IsHandlers(suspended') /\ cjob' \in Jobs \cup {NoJob}
    BY <1>7, <2>2 DEF JobWatched, Points, TypeOK
  <2>4. StepTypeOK'
    BY <1>7, <2>3 DEF JobWatched, TypeOK, StepTypeOK, smVars
  <2>5. RestTypeOK'
    BY <1>7 DEF JobWatched, TypeOK, RestTypeOK, otherVars, bootVars, cmdVars, sockVars, counters
  <2> QED BY <2>4, <2>5, TypePartsNext
<1>8. ASSUME NEW j \in Jobs, JobUnwatched(j)
      PROVE  TypeOK'
  <2>1. IsHandlers(suspended')
    BY <1>8, RestOK DEF JobUnwatched
  <2>2. acks' \in [Jobs -> Nat]
    BY <1>8 DEF JobUnwatched, TypeOK
  <2>3. StepTypeOK'
    BY <1>8, <2>1, <2>2 DEF JobUnwatched, TypeOK, StepTypeOK, smVars, jobVars
  <2>4. RestTypeOK'
    BY <1>8 DEF JobUnwatched, TypeOK, RestTypeOK, otherVars, bootVars, cmdVars, sockVars, counters
  <2> QED BY <2>3, <2>4, TypePartsNext
<1>9. ASSUME NEW j \in Jobs, JobUpdated(j)
      PROVE  TypeOK'
  <2>1. StepTypeOK'
    BY <1>9, RequestForm, RequestingType
  <2>2. task' \in [Jobs -> Results \cup {"active"}]
    BY <1>9 DEF JobUpdated, TypeOK
  <2>3. RestTypeOK'
    BY <1>9, <2>2 DEF JobUpdated, TypeOK, RestTypeOK, otherVars, bootVars, cmdVars, sockVars, counters
  <2> QED BY <2>1, <2>3, TypePartsNext
<1>10. ASSUME NEW j \in Jobs, Extracted(j)
       PROVE  TypeOK'
  <2>1. IsHandlers(suspended')
    BY <1>10, RestOK DEF Extracted
  <2>2. published' \in Discovery /\ asked' \subseteq {"initialize", "start", "stop"}
    BY <1>10, DiscoveryType DEF Extracted, TypeOK, States
  <2>3. term' \in BOOLEAN /\ algInput' \in Jobs \cup {NoJob}
    BY <1>10 DEF Extracted, TypeOK
  <2>4. StepTypeOK'
    BY <1>10, <2>1, <2>2, <2>3 DEF Extracted, TypeOK, StepTypeOK, smVars, jobVars
  <2>5. RestTypeOK'
    BY <1>10, <2>3 DEF Extracted, TypeOK, RestTypeOK, otherVars, bootVars, cmdVars, sockVars,
       counters, etcdVars
  <2> QED BY <2>4, <2>5, TypePartsNext
<1> QED BY <1>1, <1>2, <1>3, <1>4, <1>5, <1>6, <1>7, <1>8, <1>9, <1>10

\* A step of finishJob leaves handlers waiting.
LEMMA FinishWithType ==
    ASSUME TypeOK, NEW b, IsHandlers(b), NEW at \in Points, NEW r \in Results,
           FinishWith(b, at, r)
    PROVE  StepTypeOK'
<1>1. IsHandlers(suspended')
  BY HandlerType, SuspendOne DEF FinishWith, TypeOK
<1> QED BY <1>1 DEF FinishWith, TypeOK, StepTypeOK, smVars, jobVars

LEMMA FinishJobType ==
    ASSUME WorkerAssumption, TypeOK, NEW h \in Pending,
           Unwatched(h) \/ ResultStored(h) \/ StoreFailed(h) \/ TaskUpdated(h)
    PROVE  TypeOK'
<1> USE DEF Points
<1>a. Resumed(h) => IsHandlers(Rest(h)) /\ h.res \in Results /\ h.job \in Jobs \cup {NoJob}
  BY RestOK DEF Handlers
<1>1. CASE Unwatched(h)
  <2>1. StepTypeOK'
    <3>1. Resumed(h)
      BY <1>1 DEF Unwatched
    <3>2. PICK at \in {"update", "put"} : FinishWith(Rest(h), at, h.res)
      BY <1>1 DEF Unwatched
    <3> QED BY <1>a, <3>1, <3>2, FinishWithType
  <2>2. RestTypeOK'
    BY <1>1 DEF Unwatched, FinishWith, TypeOK, RestTypeOK, otherVars, bootVars, cmdVars,
       sockVars, counters
  <2> QED BY <2>1, <2>2, TypePartsNext
<1>2. CASE ResultStored(h)
  <2>1. StepTypeOK'
    BY <1>2, <1>a, FinishWithType DEF ResultStored
  <2>2. stored' \in [Jobs -> Results]
    BY <1>2, <1>a DEF ResultStored, TypeOK
  <2>3. RestTypeOK'
    BY <1>2, <2>2 DEF ResultStored, FinishWith, TypeOK, RestTypeOK, otherVars, bootVars, cmdVars,
       sockVars, counters
  <2> QED BY <2>1, <2>3, TypePartsNext
<1>3. CASE StoreFailed(h)
  <2>1. StepTypeOK'
    BY <1>3, <1>a, FinishWithType DEF StoreFailed, Results
  <2> QED BY <1>3, <2>1, OtherType, TypePartsNext DEF StoreFailed, FinishWith
<1>4. CASE TaskUpdated(h)
  <2>1. IsHandlers(suspended')
    BY <1>4, <1>a, HandlerType, SuspendOne DEF TaskUpdated, Results
  <2>2. published' \in Discovery
    BY <1>4, DiscoveryType DEF TaskUpdated, TypeOK, States
  <2>3. StepTypeOK'
    BY <1>4, <2>1, <2>2 DEF TaskUpdated, TypeOK, StepTypeOK, smVars, jobVars
  <2>4. task' \in [Jobs -> Results \cup {"active"}]
    BY <1>4, <1>a DEF TaskUpdated, TypeOK
  <2>5. RestTypeOK'
    BY <1>4, <2>4 DEF TaskUpdated, TypeOK, RestTypeOK, otherVars, bootVars, cmdVars,
       sockVars, counters
  <2> QED BY <2>3, <2>5, TypePartsNext
<1> QED BY <1>1, <1>2, <1>3, <1>4

LEMMA CommandType ==
    ASSUME WorkerAssumption, TypeOK,
           \/ \E b \in BOOLEAN : SetHot(b)
           \/ StopProcessing \/ StartProcessing
           \/ \E h \in Pending : QueueReturned(h)
    PROVE  TypeOK'
<1> USE DEF Points
<1>a. \A at \in Points, r \in Results : IsHandlers(BagAdd(suspended, Handler(at, r, NoJob)))
  BY SuspendOne, HandlerType DEF TypeOK, IsHandlers
<1>b. \A b \in BOOLEAN : /\ [DiscoveryOf(state, cjob) EXCEPT !.hot = b] \in Discovery
                         /\ [DiscoveryOf(state, cjob) EXCEPT !.paused = b] \in Discovery
  BY DEF DiscoveryOf, Discovery, TypeOK
<1>1. ASSUME NEW b \in BOOLEAN, SetHot(b)
      PROVE  TypeOK'
  <2>1. IsHandlers(suspended')
    BY <1>1, <1>a DEF SetHot, Waiting, Results
  <2>2. StepTypeOK'
    BY <1>1, <1>b, <2>1 DEF SetHot, Command, TypeOK, StepTypeOK, smVars, jobVars
  <2>3. RestTypeOK'
    BY <1>1 DEF SetHot, Command, TypeOK, RestTypeOK, bootVars, etcdVars, sockVars
  <2> QED BY <2>2, <2>3, TypePartsNext
<1>2. ASSUME NEW at \in {"pause", "resume"}, NEW p \in BOOLEAN, CallQueue(at, p),
             paused' = p, Command, UNCHANGED <<hot, published>>
      PROVE  TypeOK'
  <2>1. IsHandlers(suspended')
    BY <1>2, <1>a DEF CallQueue, Waiting, Results
  <2>2. StepTypeOK'
    BY <1>2, <2>1 DEF Command, TypeOK, StepTypeOK, smVars, jobVars
  <2>3. queuePaused' \in BOOLEAN /\ nFailures' \in Nat /\ nCommands' \in Nat
    BY <1>2 DEF CallQueue, Command, TypeOK
  <2>4. RestTypeOK'
    BY <1>2, <2>3 DEF Command, TypeOK, RestTypeOK, bootVars, etcdVars, sockVars
  <2> QED BY <2>2, <2>4, TypePartsNext
<1>3. CASE StopProcessing \/ StartProcessing
  BY <1>2, <1>3 DEF StopProcessing, StartProcessing
<1>4. ASSUME NEW h \in Pending, QueueReturned(h)
      PROVE  TypeOK'
  <2>1. IsHandlers(suspended')
    BY <1>4, RestOK, HandlerType, SuspendOne DEF QueueReturned, Results
  <2>2. paused' \in BOOLEAN
    BY <1>4 DEF QueueReturned, TypeOK
  <2>3. StepTypeOK'
    BY <1>4, <1>b, <2>1, <2>2 DEF QueueReturned, TypeOK, StepTypeOK, smVars, jobVars
  <2>4. RestTypeOK'
    BY <1>4, <2>2 DEF QueueReturned, TypeOK, RestTypeOK, bootVars, etcdVars, sockVars, counters
  <2> QED BY <2>3, <2>4, TypePartsNext
<1> QED BY <1>1, <1>3, <1>4

LEMMA EndType ==
    ASSUME WorkerAssumption, TypeOK,
           \/ \E h \in Pending : Rejected(h)
           \/ Unhandled \/ Exit \/ Signal \/ UNCHANGED vars
    PROVE  TypeOK'
<1>1. CASE (\E h \in Pending : Rejected(h)) \/ Unhandled
  <2>1. Failing /\ IsHandlers(suspended')
    BY <1>1, RestOK DEF Rejected, Unhandled, TypeOK, IsHandlers, Resumed, Failing
  <2>2. StepTypeOK'
    BY <2>1 DEF Failing, TypeOK, StepTypeOK, smVars, jobVars
  <2>3. RestTypeOK'
    BY <2>1 DEF Failing, TypeOK, RestTypeOK, bootVars, cmdVars, etcdVars, sockVars
  <2> QED BY <2>2, <2>3, TypePartsNext
<1>2. CASE Exit \/ Signal
  <2>1. StepTypeOK'
    BY <1>2 DEF Exit, Signal, TypeOK, StepTypeOK, stepVars, smVars, jobVars, IsHandlers
  <2>2. RestTypeOK'
    BY <1>2 DEF Exit, Signal, TypeOK, RestTypeOK, bootVars, cmdVars, etcdVars, sockVars, counters
  <2> QED BY <2>1, <2>2, TypePartsNext
<1>3. CASE UNCHANGED vars
  <2>1. StepTypeOK'
    BY <1>3 DEF vars, TypeOK, StepTypeOK, stepVars, smVars, jobVars, IsHandlers
  <2>2. RestTypeOK'
    BY <1>3 DEF vars, TypeOK, RestTypeOK, bootVars, cmdVars, etcdVars, sockVars, counters
  <2> QED BY <2>1, <2>2, TypePartsNext
<1> QED BY <1>1, <1>2, <1>3

LEMMA InitType == WorkerAssumption /\ Init => TypeOK
<1> SUFFICES ASSUME WorkerAssumption, Init PROVE TypeOK
  OBVIOUS
<1>1. IsHandlers(suspended)
  BY DEF Init, EmptyBag, SetToBag, IsHandlers
<1>2. published \in Discovery
  BY DEF Init, Discovery, States
<1>3. StepTypeOK
  BY <1>1, <1>2 DEF Init, StepTypeOK, States, Results
<1>4. RestTypeOK
  BY DEF Init, RestTypeOK, Results
<1> QED BY <1>3, <1>4, TypeParts

LEMMA TypeStep == TypeOK /\ [Next]_vars => TypeOK'
<1> SUFFICES ASSUME TypeOK, [Next]_vars PROVE TypeOK'
  OBVIOUS
<1> USE WorkerAssumption
<1>1. CASE InitWorker \/ Connect
  BY <1>1, BootstrapType
<1>2. CASE \/ BootTimeout \/ Answer \/ AlgErrorHandled \/ DisconnectHandled
           \/ \E j \in Jobs : ExtractFailed(j)
           \/ CleanedUp \/ StopHandled \/ StopTimeout \/ IdleTimeout
  BY <1>2, RequestType
<1>3. CASE \/ Disconnect \/ Poll \/ ReadyHandled \/ SetInactive
           \/ \E j \in Jobs : Deliver(j) \/ StopJob(j) \/ JobWatched(j) \/ JobUnwatched(j)
                              \/ JobUpdated(j) \/ Extracted(j)
  BY <1>3, HandlerStepType
<1>4. ASSUME NEW h \in Pending,
             Unwatched(h) \/ ResultStored(h) \/ StoreFailed(h) \/ TaskUpdated(h)
      PROVE  TypeOK'
  BY <1>4, FinishJobType
<1>5. CASE \/ \E b \in BOOLEAN : SetHot(b)
           \/ StopProcessing \/ StartProcessing
           \/ \E h \in Pending : QueueReturned(h)
  BY <1>5, CommandType
<1>6. CASE \/ \E h \in Pending : Rejected(h)
           \/ Unhandled \/ Exit \/ Signal \/ UNCHANGED vars
  BY <1>6, EndType
<1> QED BY <1>1, <1>2, <1>3, <1>4, <1>5, <1>6 DEF Next, Return, Gone

\* The variables of the worker, of the stores and of the algorithm keep their
\* types, through any transition of the state machine and any failure.
THEOREM TypeCorrect == Spec => []TypeOK
<1>1. Init => TypeOK
  BY InitType, WorkerAssumption
<1> QED BY <1>1, TypeStep, PTL DEF Spec
=============================================================================
