------------------------- MODULE WorkerTimerProofs -------------------------
(***************************************************************************)
(* The inactivity timer, the pause flag, and what a worker waits for.      *)
(***************************************************************************)
EXTENDS WorkerProofs

\* A handler of a command is waiting, which will set the inactivity timer.
CommandPending(b) == \E h \in DOMAIN b : h.at \in {"pause", "resume", "setInactive"}

\* The strengthening: besides, the timer runs, and commands are handled, only
\* when worker.init has registered the handlers of states and commands, so that
\* from then on no state is entered without the timer being cleared.
IdleInv ==
    /\ idleTimer => state = "ready" /\ isInit
    /\ CommandPending(suspended) => isInit

LEMMA InitOnce == [Next]_vars => isInit' = isInit \/ isInit' = TRUE
BY DEF Next, InitWorker, Connect, Disconnect, BootTimeout, Answer, AlgInitialized, AlgDone,
       AlgStopped, AlgError, Deliver, StopJob, Poll, Return, JobWatched, JobUnwatched, JobUpdated,
       Extracted, ExtractFailed, Unwatched, ResultStored, StoreFailed, FinishWith, TaskUpdated,
       QueueReturned, CleanedUp, ReadyHandled, StopHandled, SetInactive, AlgErrorHandled,
       DisconnectHandled, SetHot, StopProcessing, StartProcessing, Command, StopTimeout,
       IdleTimeout, Rejected, Unhandled, Failing, Exit, Signal, Gone, vars, otherVars, bootVars

LEMMA TransitIdle ==
    ASSUME TypeOK, NEW t \in Transitions, NEW c, Transit(t, c), c.heard = isInit',
           isInit => isInit', idleTimer => state = "ready" /\ isInit
    PROVE  idleTimer' => state' = "ready" /\ isInit'
<1> DEFINE s == Target(t, state, DebugMode)
<1>1. CASE state \notin From[t] /\ DebugMode /\ UNCHANGED idleTimer
  <2>1. state' = state
    BY <1>1 DEF Transit, Target
  <2> QED BY <1>1, <2>1
<1>2. CASE c.heard /\ Entered(s, c)
  BY <1>2 DEF Transit, Entered, Timers
<1>3. CASE ~c.heard /\ EnteredUnheard(s, c)
  BY <1>3 DEF EnteredUnheard
<1> QED BY <1>1, <1>2, <1>3 DEF Transit, TypeOK

\* Resuming a handler, or suspending one of another kind, leaves no more commands.
LEMMA PendingKept ==
    ASSUME NEW a, IsHandlers(a),
           NEW b, b = a \/ \E h \in DOMAIN a : b = BagRemove(a, h),
           NEW d, \/ d = b
                  \/ \E at \in Points \ {"pause", "resume", "setInactive"}, r \in Results,
                        j \in Jobs \cup {NoJob} : d = BagAdd(b, Handler(at, r, j))
    PROVE  CommandPending(d) => CommandPending(a)
<1>1. IsHandlers(b) /\ DOMAIN b \subseteq DOMAIN a
  BY ResumeOne
<1>2. CASE d = b
  BY <1>1, <1>2 DEF CommandPending
<1>3. ASSUME NEW at \in Points \ {"pause", "resume", "setInactive"}, NEW r \in Results,
             NEW j \in Jobs \cup {NoJob}, d = BagAdd(b, Handler(at, r, j))
      PROVE  CommandPending(d) => CommandPending(a)
  <2>1. Handler(at, r, j) \in Handlers /\ Handler(at, r, j).at = at
    BY HandlerType DEF Handler
  <2>2. DOMAIN d = DOMAIN b \cup {Handler(at, r, j)}
    BY <1>1, <1>3, <2>1, SuspendOne
  <2> QED BY <1>1, <2>1, <2>2 DEF CommandPending
<1> QED BY <1>2, <1>3

LEMMA RequestingIdle ==
    ASSUME WorkerAssumption, TypeOK, IdleInv, Requesting, isInit => isInit'
    PROVE  IdleInv'
<1>0. PICK t \in Transitions : \E c : Requests(t, c)
  BY DEF Requesting
<1>1. PICK c : Requests(t, c)
  BY <1>0
<1>2. idleTimer' => state' = "ready" /\ isInit'
  BY <1>1, TransitIdle DEF Requests, IdleInv
<1>3. IsHandlers(suspended) /\ CallOK(c)
  BY <1>1, TypeParts DEF StepTypeOK, Requests
<1>4. \/ suspended' = c.rest
      \/ \E at \in {"unwatch", "cleanup", "extract", "ready"}, r \in Results,
            j \in Jobs \cup {NoJob} : suspended' = BagAdd(c.rest, Handler(at, r, j))
  <2> DEFINE s == Target(t, state, DebugMode)
  <2>1. s \in States
    BY TargetType DEF TypeOK, WorkerAssumption
  <2>2. CASE Entered(s, c)
    BY <1>3, <2>1, <2>2, EnteredSuspends
  <2> QED BY <1>1, <2>2 DEF Requests, Transit, EnteredUnheard
<1>5. CommandPending(suspended') => CommandPending(suspended)
  BY <1>1, <1>3, <1>4, RequestRest, PendingKept DEF Points, Requests
<1> QED BY <1>2, <1>5 DEF IdleInv

\* The same for a step that leaves the state machine and the timer alone.
LEMMA ResumingIdle ==
    ASSUME TypeOK, IdleInv, UNCHANGED <<state, idleTimer>>, isInit => isInit',
           NEW b, b = suspended \/ \E h \in DOMAIN suspended : b = BagRemove(suspended, h),
           \/ suspended' = b
           \/ \E at \in Points \ {"pause", "resume", "setInactive"}, r \in Results,
                 j \in Jobs \cup {NoJob} : suspended' = BagAdd(b, Handler(at, r, j))
    PROVE  IdleInv'
<1>1. IsHandlers(suspended)
  BY TypeParts DEF StepTypeOK
<1>2. CommandPending(suspended') => CommandPending(suspended)
  BY <1>1, PendingKept
<1> QED BY <1>2 DEF IdleInv

LEMMA IdleStep == TypeOK /\ IdleInv /\ [Next]_vars => IdleInv'
<1> SUFFICES ASSUME TypeOK, IdleInv, [Next]_vars PROVE IdleInv'
  OBVIOUS
<1> USE WorkerAssumption DEF Points, Results, Waiting
<1>a. isInit => isInit'
  BY InitOnce DEF TypeOK
<1>1. CASE \/ BootTimeout \/ AlgInitialized \/ AlgDone \/ AlgStopped
           \/ AlgErrorHandled \/ DisconnectHandled
           \/ \E j \in Jobs : ExtractFailed(j) \/ JobUpdated(j)
           \/ CleanedUp \/ StopHandled \/ StopTimeout
           \/ IdleTimeout /\ ~term
  BY <1>1, <1>a, RequestForm, RequestingIdle
<1>2. CASE InitWorker \/ Connect
  <2>1. Still => IdleInv'
    BY <1>a, ResumingIdle DEF Still, smVars
  <2> QED BY <1>2, <1>a, <2>1, BootstrapForm, RequestingIdle
<1>3. CASE Disconnect \/ AlgError \/ \E j \in Jobs : StopJob(j)
  BY <1>3, <1>a, ResumingIdle DEF Disconnect, AlgError, StopJob, smVars
<1>3a. CASE Poll
  BY <1>3a, <1>a, ResumingIdle DEF Poll, smVars, TypeOK
<1>3b. ASSUME NEW j \in Jobs, Deliver(j)
       PROVE  IdleInv'
  BY <1>3b, <1>a, ResumingIdle DEF Deliver, stepVars, smVars
<1>4. ASSUME NEW j \in Jobs, JobWatched(j) \/ JobUnwatched(j) \/ Extracted(j)
      PROVE  IdleInv'
  BY <1>4, <1>a, ResumingIdle DEF JobWatched, JobUnwatched, Extracted, Resumed, Rest, smVars
<1>5. CASE ReadyHandled
  BY <1>5, <1>a, ResumingIdle DEF ReadyHandled, Resumed, Rest, smVars
<1>6. ASSUME NEW h \in Pending,
             Unwatched(h) \/ ResultStored(h) \/ StoreFailed(h) \/ TaskUpdated(h)
      PROVE  IdleInv'
  <2>1. h \in DOMAIN suspended /\ h.res \in Results /\ cjob \in Jobs \cup {NoJob}
    BY <1>6 DEF Pending, TypeOK, Handlers
  <2> QED BY <1>6, <1>a, <2>1, ResumingIdle DEF Unwatched, ResultStored, StoreFailed,
            TaskUpdated, FinishWith, Rest, smVars
<1>7. CASE SetInactive
  <2>1. isInit
    BY <1>7 DEF SetInactive, IdleInv, CommandPending, Resumed, Handler
  <2>2. idleTimer' => state' = "ready"
    BY <1>7 DEF SetInactive, smVars
  <2> QED BY <1>a, <2>1, <2>2 DEF IdleInv
<1>8. CASE (\E b \in BOOLEAN : SetHot(b)) \/ StopProcessing \/ StartProcessing
  <2>1. isInit /\ UNCHANGED <<state, idleTimer>>
    BY <1>8 DEF SetHot, StopProcessing, StartProcessing, Command, smVars
  <2> QED BY <1>a, <2>1 DEF IdleInv
<1>9. ASSUME NEW h \in Pending, QueueReturned(h)
      PROVE  IdleInv'
  <2>1. isInit
    BY <1>9 DEF QueueReturned, IdleInv, CommandPending, Pending
  <2>2. UNCHANGED <<state, idleTimer>>
    BY <1>9 DEF QueueReturned, smVars
  <2> QED BY <1>a, <2>1, <2>2 DEF IdleInv
<1>10. CASE (\E h \in Pending : Rejected(h)) \/ Unhandled
  BY <1>10, <1>a, ResumingIdle DEF Rejected, Unhandled, Failing, Rest, smVars
<1>11. CASE IdleTimeout /\ term
  BY <1>11, <1>a DEF IdleTimeout, IdleInv, smVars
<1>12. CASE Exit \/ Signal \/ UNCHANGED vars
  BY <1>12, <1>a, ResumingIdle DEF Exit, Signal, vars, stepVars, smVars
<1> QED
  BY <1>1, <1>2, <1>3, <1>3a, <1>3b, <1>4, <1>5, <1>6, <1>7, <1>8, <1>9, <1>10, <1>11, <1>12
  DEF Next, Return, Answer, Gone

\* The inactivity timer runs only in ready: whatever handlers, commands and
\* transitions interleave, it never ends a worker that has a job in hand.
THEOREM IdleTimerSafe == Spec => []IdleTimerOnlyInReady
<1>1. Init => IdleInv
  BY DEF Init, IdleInv, CommandPending, EmptyBag, SetToBag
<1>2. IdleInv => IdleTimerOnlyInReady
  BY DEF IdleInv, IdleTimerOnlyInReady
<1> QED BY <1>1, <1>2, IdleStep, TypeCorrect, PTL DEF Spec

-----------------------------------------------------------------------------
\* Before worker.init no state but the first and the last is entered, and nothing
\* hears of stop requests: ready is entered with its handler registered.
StartInv ==
    ~isInit => state \in {"bootstrap", "exit"} /\ \A h \in Pending : h.at # "stop"

SetInv == StartInv /\ IdleTimerIsSet

LEMMA RequestingSet ==
    ASSUME WorkerAssumption, TypeOK, TypeOK', SetInv, Requesting, isInit => isInit'
    PROVE  SetInv'
<1>0. PICK t \in Transitions : \E c : Requests(t, c)
  BY DEF Requesting
<1>1. PICK c : Requests(t, c)
  BY <1>0
<1> DEFINE s == Target(t, state, DebugMode)
<1>2. /\ Transit(t, c) /\ Cause(t, c) /\ c.heard = isInit' /\ hot' = hot /\ state' = s
      /\ isInit' \in BOOLEAN
  BY <1>1 DEF Requests, Leaves, Transit, TypeOK
<1>3. /\ FewerIn(Points \ Entering, suspended, suspended')
      /\ FewerIn({"pause", "resume", "setInactive"}, suspended', suspended)
  BY <1>1, RequestMoves
<1>4. StartInv'
  <2> SUFFICES ASSUME ~isInit'
               PROVE  state' \in {"bootstrap", "exit"} /\ \A h \in DOMAIN suspended' : h.at # "stop"
    BY DEF StartInv, Pending
  <2>1. state \in {"bootstrap", "exit"} /\ \A h \in DOMAIN suspended : h.at # "stop"
    BY DEF SetInv, StartInv, Pending
  <2>2. \A h \in DOMAIN suspended' : h.at # "stop"
    BY <1>3, <2>1 DEF FewerIn, Points, Entering
  <2>3. t \notin {"stop", "bootstrap"}
    BY <1>2, <2>1 DEF Cause, Resumes, Waiting, Handler
  <2>4. s \in {"bootstrap", "exit"}
    BY <2>1, <2>3 DEF Target, From, To, Transitions
  <2> QED BY <1>2, <2>2, <2>4
<1>5. IdleTimerIsSet'
  <2> SUFFICES ASSUME state' = "ready", ~hot', ~term', Waiting("setInactive") \notin DOMAIN suspended'
               PROVE  idleTimer'
    BY DEF IdleTimerIsSet, Pending, Waiting, Handler
  <2>1. isInit'
    BY <1>4 DEF StartInv
  <2>2. CASE Entered(s, c)
    BY <1>2, <2>2 DEF Entered, Timers
  <2>3. CASE state \notin From[t] /\ DebugMode /\ UNCHANGED idleTimer /\ term' = (term \/ c.exits)
    <3>1. state = "ready" /\ ~hot /\ ~term
      BY <1>2, <2>3 DEF Target
    <3>2. Waiting("setInactive") \notin Pending
      BY <1>3 DEF FewerIn, Pending, Waiting, Handler
    <3> QED BY <2>3, <3>1, <3>2 DEF SetInv, IdleTimerIsSet
  <2> QED BY <1>2, <2>1, <2>2, <2>3 DEF Transit
<1> QED BY <1>4, <1>5 DEF SetInv

\* The same for a step that leaves the state, the timer and "hot" alone, resumes none
\* that will set the timer and brings no stop request.
LEMMA ResumingSet ==
    ASSUME TypeOK, SetInv, UNCHANGED <<state, idleTimer, hot>>, isInit => isInit', term => term',
           NEW b, \/ b = suspended
                  \/ \E h \in DOMAIN suspended : h.at # "setInactive" /\ b = BagRemove(suspended, h),
           \/ suspended' = b
           \/ \E at \in Points \ {"stop"}, r \in Results, j \in Jobs \cup {NoJob} :
                 suspended' = BagAdd(b, Handler(at, r, j))
    PROVE  SetInv'
<1>1. IsHandlers(suspended)
  BY TypeParts DEF StepTypeOK
<1>2. suspended' = b \/ \E h \in Handlers : h.at # "stop" /\ suspended' = BagAdd(b, h)
  <2>1. \A at \in Points, r \in Results, j \in Jobs \cup {NoJob} :
           Handler(at, r, j) \in Handlers /\ Handler(at, r, j).at = at
    BY HandlerType DEF Handler
  <2> QED BY <2>1
<1>3. FewerIn({"stop"}, suspended, suspended')
  BY <1>1, <1>2, Fewer
<1>4. FewerIn({"setInactive"}, suspended', suspended)
  BY <1>1, <1>2, NotFewer
<1>5. StartInv'
  BY <1>3 DEF SetInv, StartInv, FewerIn, Pending
<1>6. IdleTimerIsSet'
  <2>1. Waiting("setInactive") \in Pending => Waiting("setInactive") \in DOMAIN suspended'
    BY <1>4 DEF FewerIn, Pending, Waiting, Handler
  <2> QED BY <2>1 DEF SetInv, IdleTimerIsSet, Pending, Waiting, Handler
<1> QED BY <1>5, <1>6 DEF SetInv

\* A command that sets the timer later suspends the handler that will.
LEMMA CommandSet ==
    ASSUME TypeOK, SetInv, UNCHANGED state, isInit => isInit',
           NEW b, b = suspended \/ \E h \in DOMAIN suspended : b = BagRemove(suspended, h),
           suspended' = BagAdd(b, Waiting("setInactive"))
    PROVE  SetInv'
<1>1. IsHandlers(suspended) /\ Waiting("setInactive") \in Handlers
  BY TypeParts, HandlerType DEF StepTypeOK, Points, Results
<1>2. IsHandlers(b)
  BY <1>1, ResumeOne
<1>3. Waiting("setInactive") \in DOMAIN suspended'
  BY <1>1, <1>2, SuspendOne
<1>4. FewerIn({"stop"}, suspended, suspended')
  BY <1>1, Fewer DEF Waiting, Handler
<1> QED BY <1>3, <1>4 DEF SetInv, StartInv, IdleTimerIsSet, FewerIn, Pending, Waiting, Handler

LEMMA SetStep == TypeOK /\ TypeOK' /\ SetInv /\ [Next]_vars => SetInv'
<1> SUFFICES ASSUME TypeOK, TypeOK', SetInv, [Next]_vars PROVE SetInv'
  OBVIOUS
<1> USE WorkerAssumption DEF Points, Results, Waiting, cmdVars, otherVars
<1>a. isInit => isInit'
  BY InitOnce DEF TypeOK
<1>1. CASE \/ BootTimeout \/ AlgInitialized \/ AlgDone \/ AlgStopped
           \/ AlgErrorHandled \/ DisconnectHandled
           \/ \E j \in Jobs : ExtractFailed(j) \/ JobUpdated(j)
           \/ CleanedUp \/ StopHandled \/ StopTimeout
           \/ IdleTimeout /\ ~term
  BY <1>1, <1>a, RequestForm, RequestingSet
<1>2. CASE InitWorker \/ Connect
  <2>1. UNCHANGED hot
    BY <1>2 DEF InitWorker, Connect
  <2>2. Still => SetInv'
    BY <1>a, <2>1, ResumingSet DEF Still, smVars
  <2> QED BY <1>2, <1>a, <2>2, BootstrapForm, RequestingSet
<1>3. CASE Disconnect \/ AlgError
  <2>1. UNCHANGED <<state, idleTimer, hot, term>>
    BY <1>3 DEF Disconnect, AlgError, smVars
  <2>2. \/ suspended' = suspended
        \/ \E at \in {"disconnect", "algError"} : suspended' = BagAdd(suspended, Handler(at, "none", NoJob))
    BY <1>3 DEF Disconnect, AlgError
  <2> QED BY <1>a, <2>1, <2>2, ResumingSet
<1>4. ASSUME NEW j \in Jobs, StopJob(j)
      PROVE  SetInv'
  <2>1. CASE isInit
    <3>1. isInit' /\ UNCHANGED <<state, idleTimer, hot, term>>
      BY <1>4, <1>a, <2>1 DEF StopJob, smVars
    <3>2. Waiting("setInactive") \in Pending => Waiting("setInactive") \in DOMAIN suspended'
      <4>1. IsHandlers(suspended) /\ Waiting("stop") \in Handlers
        BY TypeParts, HandlerType DEF StepTypeOK
      <4>2. suspended' = suspended \/ suspended' = BagAdd(suspended, Waiting("stop"))
        BY <1>4 DEF StopJob
      <4> QED BY <4>1, <4>2, SuspendOne DEF Pending
    <3> QED BY <3>1, <3>2 DEF SetInv, StartInv, IdleTimerIsSet, Pending, Handler
  <2>2. CASE ~isInit
    BY <1>4, <1>a, <2>2, ResumingSet DEF StopJob, smVars
  <2> QED BY <2>1, <2>2
<1>5. CASE Poll
  BY <1>5, <1>a, ResumingSet DEF Poll, smVars, TypeOK
<1>6. ASSUME NEW j \in Jobs, Deliver(j)
      PROVE  SetInv'
  BY <1>6, <1>a, ResumingSet DEF Deliver, stepVars, smVars
<1>7. ASSUME NEW j \in Jobs, JobWatched(j) \/ JobUnwatched(j) \/ Extracted(j)
      PROVE  SetInv'
  BY <1>7, <1>a, ResumingSet DEF JobWatched, JobUnwatched, Extracted, Resumed, Rest, smVars, Handler
<1>8. CASE ReadyHandled
  BY <1>8, <1>a, ResumingSet DEF ReadyHandled, Resumed, Rest, smVars, Handler
<1>9. ASSUME NEW h \in Pending,
             Unwatched(h) \/ ResultStored(h) \/ StoreFailed(h) \/ TaskUpdated(h)
      PROVE  SetInv'
  <2>1. h \in DOMAIN suspended /\ h.res \in Results /\ cjob \in Jobs \cup {NoJob}
    BY <1>9 DEF Pending, TypeOK, Handlers
  <2> HIDE DEF Points, Results, Waiting
  <2>2. h.at # "setInactive" /\ UNCHANGED <<state, idleTimer, hot>>
    BY <1>9 DEF Unwatched, ResultStored, StoreFailed, TaskUpdated, FinishWith, smVars
  <2>2t. term => term'
    <3>1. CASE Unwatched(h) \/ ResultStored(h) \/ StoreFailed(h)
      BY <3>1, Zenon DEF Unwatched, ResultStored, StoreFailed, FinishWith
    <3>2. CASE TaskUpdated(h)
      BY <3>2 DEF TaskUpdated
    <3> QED BY <1>9, <3>1, <3>2
  <2>3. \/ suspended' = Rest(h)
        \/ \E at \in {"put", "update", "cleanup"}, r \in Results, j \in Jobs \cup {NoJob} :
              suspended' = BagAdd(Rest(h), Handler(at, r, j))
    BY <1>9, <2>1 DEF Unwatched, ResultStored, StoreFailed, TaskUpdated, FinishWith, Waiting, Results
  <2> QED BY <1>a, <2>1, <2>2, <2>2t, <2>3, ResumingSet DEF Points, Rest
<1>10. CASE SetInactive
  <2>1. UNCHANGED <<state, hot>> /\ (idleTimer' = (state = "ready" /\ ~hot))
    BY <1>10 DEF SetInactive, smVars
  <2>2. FewerIn({"stop"}, suspended, suspended')
    <3>1. IsHandlers(suspended)
      BY TypeParts DEF StepTypeOK
    <3> QED BY <1>10, <3>1, Fewer DEF SetInactive, Resumed, Rest
  <2> QED BY <1>a, <2>1, <2>2 DEF SetInv, StartInv, IdleTimerIsSet, FewerIn, Pending
<1>11. ASSUME NEW b \in BOOLEAN, SetHot(b)
       PROVE  SetInv'
  BY <1>11, <1>a, CommandSet DEF SetHot, Command, smVars
<1>12. CASE StopProcessing \/ StartProcessing
  <2>1. UNCHANGED <<state, idleTimer, hot, term>>
    BY <1>12 DEF StopProcessing, StartProcessing, Command, smVars
  <2>2. \E at \in {"pause", "resume"}, r \in {"none", "error"} :
           suspended' = BagAdd(suspended, Handler(at, r, NoJob))
    BY <1>12 DEF StopProcessing, StartProcessing, CallQueue
  <2> HIDE DEF Points
  <2> QED BY <1>a, <2>1, <2>2, ResumingSet DEF Points
<1>13. ASSUME NEW h \in Pending, QueueReturned(h)
       PROVE  SetInv'
  BY <1>13, <1>a, CommandSet DEF QueueReturned, Pending, Rest, smVars
<1>14. ASSUME NEW h \in Pending, Rejected(h)
       PROVE  SetInv'
  <2>1. term' /\ UNCHANGED state /\ suspended' = BagRemove(suspended, h) /\ h \in DOMAIN suspended
    BY <1>14 DEF Rejected, Failing, Rest, smVars
  <2>2. FewerIn({"stop"}, suspended, suspended')
    BY <2>1, TypeParts, Fewer DEF StepTypeOK
  <2> QED BY <1>a, <2>1, <2>2 DEF SetInv, StartInv, IdleTimerIsSet, FewerIn, Pending
<1>15. CASE Unhandled \/ (IdleTimeout /\ term)
  <2>1. term' /\ UNCHANGED <<state, suspended>>
    BY <1>15 DEF Unhandled, Failing, IdleTimeout, smVars
  <2> QED BY <1>a, <2>1 DEF SetInv, StartInv, IdleTimerIsSet, Pending
<1>16. CASE Exit \/ Signal \/ UNCHANGED vars
  BY <1>16, <1>a, ResumingSet DEF Exit, Signal, vars, stepVars, smVars
<1> QED
  BY <1>1, <1>2, <1>3, <1>4, <1>5, <1>6, <1>7, <1>8, <1>9, <1>10, <1>11, <1>12, <1>13, <1>14,
     <1>15, <1>16
  DEF Next, Return, Answer, Gone

\* An idle worker that is not hot has its inactivity timer running, whatever
\* commands, transitions and failures came before: it will go away.
THEOREM IdleTimerSet == Spec => []IdleTimerIsSet
<1>1. Init => SetInv
  BY DEF Init, SetInv, StartInv, IdleTimerIsSet, Pending, EmptyBag, SetToBag
<1>2. SetInv => IdleTimerIsSet
  BY DEF SetInv
<1> QED BY <1>1, <1>2, SetStep, TypeCorrect, PTL DEF Spec

-----------------------------------------------------------------------------
(***************************************************************************)
(* The pause flag and the queue.  A failed call that was not reported yet  *)
(* tells which of the two is right, and that a second command has come if  *)
(* the flag says otherwise.                                                *)
(***************************************************************************)
Commands == {"pause", "resume"}
PauseErr == Handler("pause", "error", NoJob)
ResumeErr == Handler("resume", "error", NoJob)
\* What PauseFlagIsRight is stated for.
FewFailures == nFailures = 0 \/ (nCommands <= 2 /\ nFailures = 1)

PauseInv ==
    /\ \A h \in Pending : h.at \in Commands => h.job = NoJob
    /\ Copies(PauseErr, suspended) + Copies(ResumeErr, suspended) <= nFailures
    /\ FewFailures =>
          /\ Copies(PauseErr, suspended) > 0 => ~queuePaused /\ (paused \/ nCommands >= 2)
          /\ Copies(ResumeErr, suspended) > 0 => queuePaused /\ nCommands >= 2
          /\ Copies(PauseErr, suspended) + Copies(ResumeErr, suspended) = 0 => paused = queuePaused
          /\ paused => nCommands >= 1

\* Commands under way are counted alike in both bags.
LEMMA SameCopies ==
    ASSUME NEW a, IsHandlers(a), NEW d, IsHandlers(d), NEW K,
           FewerIn(K, a, d), FewerIn(K, d, a), NEW h, h.at \in K
    PROVE  Copies(h, d) = Copies(h, a)
BY DEF Copies, FewerIn, IsHandlers

LEMMA CopiesNat ==
    ASSUME NEW b, IsHandlers(b), NEW h
    PROVE  Copies(h, b) \in Nat /\ (h \in DOMAIN b <=> Copies(h, b) > 0)
BY DEF Copies, IsHandlers

\* Steps that are no command to the queue, and not its return.
LEMMA PauseKept ==
    ASSUME TypeOK, TypeOK', PauseInv, UNCHANGED <<paused, queuePaused>>,
           nFailures' >= nFailures, nCommands' >= nCommands,
           FewerIn(Commands, suspended, suspended'), FewerIn(Commands, suspended', suspended)
    PROVE  PauseInv'
<1>1. IsHandlers(suspended) /\ IsHandlers(suspended')
  BY TypeParts, TypePartsNext DEF StepTypeOK
<1>2. PauseErr.at \in Commands /\ ResumeErr.at \in Commands
  BY DEF PauseErr, ResumeErr, Handler, Commands
<1>3. /\ Copies(PauseErr, suspended') = Copies(PauseErr, suspended)
      /\ Copies(ResumeErr, suspended') = Copies(ResumeErr, suspended)
  BY <1>1, <1>2, SameCopies
<1>4. Copies(PauseErr, suspended) \in Nat /\ Copies(ResumeErr, suspended) \in Nat
  BY <1>1, CopiesNat
<1>5. nFailures \in Nat /\ nFailures' \in Nat /\ nCommands \in Nat /\ nCommands' \in Nat
  BY DEF TypeOK
<1>6. FewFailures' => FewFailures
  BY <1>5 DEF FewFailures
<1>7. \A h \in DOMAIN suspended' : h.at \in Commands => h.job = NoJob
  BY DEF PauseInv, FewerIn, Pending
<1> QED BY <1>3, <1>4, <1>5, <1>6, <1>7 DEF PauseInv, Pending, PauseErr, ResumeErr

LEMMA ResumingPause ==
    ASSUME TypeOK, TypeOK', PauseInv, UNCHANGED <<paused, queuePaused>>,
           nFailures' >= nFailures, nCommands' >= nCommands,
           NEW b, \/ b = suspended
                  \/ \E h \in DOMAIN suspended : h.at \notin Commands /\ b = BagRemove(suspended, h),
           \/ suspended' = b
           \/ \E at \in Points \ Commands, r \in Results, j \in Jobs \cup {NoJob} :
                 suspended' = BagAdd(b, Handler(at, r, j))
    PROVE  PauseInv'
<1>1. IsHandlers(suspended)
  BY TypeParts DEF StepTypeOK
<1>2. suspended' = b \/ \E h \in Handlers : h.at \notin Commands /\ suspended' = BagAdd(b, h)
  <2>1. \A at \in Points, r \in Results, j \in Jobs \cup {NoJob} :
           Handler(at, r, j) \in Handlers /\ Handler(at, r, j).at = at
    BY HandlerType DEF Handler
  <2> QED BY <2>1
<1>3. FewerIn(Commands, suspended, suspended') /\ FewerIn(Commands, suspended', suspended)
  BY <1>1, <1>2, Fewer, NotFewer
<1> QED BY <1>3, PauseKept

LEMMA RequestingPause ==
    ASSUME WorkerAssumption, TypeOK, TypeOK', PauseInv, Requesting
    PROVE  PauseInv'
<1>0. PICK t \in Transitions : \E c : Requests(t, c)
  BY DEF Requesting
<1>1. PICK c : Requests(t, c)
  BY <1>0
<1>2. FewerIn(Commands, suspended, suspended') /\ FewerIn(Commands, suspended', suspended)
  BY <1>1, RequestMoves DEF FewerIn, Points, Entering, Commands
<1>3. nFailures' >= nFailures /\ nCommands' >= nCommands
  BY <1>1 DEF Requests, Leaves, TypeOK
<1> QED BY <1>1, <1>2, <1>3, PauseKept DEF Requests, Leaves

\* A command to the queue.
LEMMA CommandPause ==
    ASSUME TypeOK, TypeOK', PauseInv, StopProcessing \/ StartProcessing
    PROVE  PauseInv'
<1>1. IsHandlers(suspended) /\ PauseErr # ResumeErr
  BY TypeParts DEF StepTypeOK, PauseErr, ResumeErr, Handler
<1>2. Copies(PauseErr, suspended) \in Nat /\ Copies(ResumeErr, suspended) \in Nat
  BY <1>1, CopiesNat
<1>3. nFailures \in Nat /\ nCommands \in Nat /\ nCommands' = nCommands + 1
  BY DEF TypeOK, StopProcessing, StartProcessing, Command
<1>4. PICK at \in Commands, r \in {"none", "error"} :
         /\ suspended' = BagAdd(suspended, Handler(at, r, NoJob))
         /\ r = "none" => /\ at = "pause" => queuePaused' = TRUE
                          /\ at = "resume" => queuePaused' = FALSE
                          /\ nFailures' = nFailures
         /\ r = "error" => queuePaused' = queuePaused /\ nFailures' = nFailures + 1
         /\ at = "pause" => paused = FALSE /\ paused' = TRUE
         /\ at = "resume" => paused = TRUE /\ paused' = FALSE
  <2>1. CASE StopProcessing
    <3>1. paused = FALSE
      BY <2>1 DEF StopProcessing, TypeOK
    <3>2. CASE suspended' = BagAdd(suspended, Waiting("pause")) /\ queuePaused' = TRUE /\ UNCHANGED nFailures
      BY <2>1, <3>1, <3>2 DEF StopProcessing, Waiting, Commands
    <3>3. CASE /\ suspended' = BagAdd(suspended, PauseErr) /\ UNCHANGED queuePaused
               /\ nFailures' = nFailures + 1
      BY <2>1, <3>1, <3>3 DEF StopProcessing, PauseErr, Commands
    <3> QED BY <2>1, <3>2, <3>3 DEF StopProcessing, CallQueue, PauseErr
  <2>2. CASE StartProcessing
    <3>1. paused = TRUE
      BY <2>2 DEF StartProcessing, TypeOK
    <3>2. CASE suspended' = BagAdd(suspended, Waiting("resume")) /\ queuePaused' = FALSE /\ UNCHANGED nFailures
      BY <2>2, <3>1, <3>2 DEF StartProcessing, Waiting, Commands
    <3>3. CASE /\ suspended' = BagAdd(suspended, ResumeErr) /\ UNCHANGED queuePaused
               /\ nFailures' = nFailures + 1
      BY <2>2, <3>1, <3>3 DEF StartProcessing, ResumeErr, Commands
    <3> QED BY <2>2, <3>2, <3>3 DEF StartProcessing, CallQueue, ResumeErr
  <2> QED BY <2>1, <2>2
<1> DEFINE h == Handler(at, r, NoJob)
<1>5. h \in Handlers
  BY HandlerType DEF Points, Results, Commands
<1>6. /\ \A g : Copies(g, suspended') = Copies(g, suspended) + IF g = h THEN 1 ELSE 0
      /\ DOMAIN suspended' = DOMAIN suspended \cup {h}
  BY <1>1, <1>4, <1>5, SuspendOne
<1>7. /\ h = PauseErr <=> at = "pause" /\ r = "error"
      /\ h = ResumeErr <=> at = "resume" /\ r = "error"
  BY DEF PauseErr, ResumeErr, Handler
<1>8. \A g \in DOMAIN suspended' : g.at \in Commands => g.job = NoJob
  BY <1>6 DEF PauseInv, Pending, Handler
<1>9. FewFailures' => FewFailures /\ (nFailures = 1 => nCommands <= 1) /\ (r = "error" => nFailures = 0)
  BY <1>3, <1>4 DEF FewFailures
<1> DEFINE p == Copies(PauseErr, suspended)
           q == Copies(ResumeErr, suspended)
<1>10. /\ Copies(PauseErr, suspended') = p + IF at = "pause" /\ r = "error" THEN 1 ELSE 0
       /\ Copies(ResumeErr, suspended') = q + IF at = "resume" /\ r = "error" THEN 1 ELSE 0
  BY <1>6, <1>7
<1>11. p + q <= nFailures /\ p \in Nat /\ q \in Nat
  BY <1>2 DEF PauseInv
<1>12. Copies(PauseErr, suspended') + Copies(ResumeErr, suspended') <= nFailures'
  BY <1>3, <1>4, <1>10, <1>11
<1>13. ASSUME FewFailures'
       PROVE  /\ Copies(PauseErr, suspended') > 0 => ~queuePaused' /\ (paused' \/ nCommands' >= 2)
              /\ Copies(ResumeErr, suspended') > 0 => queuePaused' /\ nCommands' >= 2
              /\ Copies(PauseErr, suspended') + Copies(ResumeErr, suspended') = 0
                    => paused' = queuePaused'
              /\ paused' => nCommands' >= 1
  <2>1. /\ p > 0 => ~queuePaused /\ (paused \/ nCommands >= 2)
        /\ q > 0 => queuePaused /\ nCommands >= 2
        /\ p + q = 0 => paused = queuePaused
        /\ paused => nCommands >= 1
    BY <1>9, <1>13 DEF PauseInv
  <2>2. nFailures = 0 \/ (nFailures = 1 /\ nCommands <= 1)
    BY <1>3, <1>9, <1>13 DEF FewFailures
  <2>3. q = 0
    BY <1>3, <1>11, <2>1, <2>2
  <2>4. CASE at = "pause"
    <3>1. p = 0
      BY <1>3, <1>4, <1>11, <2>1, <2>2, <2>4
    <3>2. /\ paused' = TRUE
          /\ r = "none" => queuePaused' = TRUE
          /\ r = "error" => queuePaused' = FALSE
      BY <1>4, <2>1, <2>3, <2>4, <3>1
    <3>3. /\ Copies(PauseErr, suspended') = IF r = "error" THEN 1 ELSE 0
          /\ Copies(ResumeErr, suspended') = 0 /\ nCommands' >= 1
      BY <1>3, <1>10, <2>3, <2>4, <3>1
    <3>4. CASE r = "error"
      BY <3>2, <3>3, <3>4
    <3>5. CASE r = "none"
      BY <3>2, <3>3, <3>5
    <3> QED BY <3>4, <3>5
  <2>5. CASE at = "resume"
    <3>1. paused' = FALSE /\ paused = TRUE /\ nCommands' >= 2
      BY <1>3, <1>4, <2>1, <2>5
    <3>2. r = "none" => queuePaused' = FALSE
      BY <1>4, <2>5
    <3>3. r = "error" => p = 0
      BY <1>9, <1>11, <1>13
    <3>4. r = "error" => queuePaused' = TRUE
      <4>1. p = 0 => paused = queuePaused
        BY <2>1, <2>3
      <4> QED BY <1>4, <3>1, <3>3, <4>1
    <3>5. /\ Copies(PauseErr, suspended') = p
          /\ Copies(ResumeErr, suspended') = IF r = "error" THEN 1 ELSE 0
      BY <1>10, <1>11, <2>3, <2>5
    <3>6. CASE r = "error"
      BY <1>11, <3>1, <3>3, <3>4, <3>5, <3>6
    <3>7. CASE r = "none"
      <4>1. Copies(ResumeErr, suspended') = 0
        BY <3>5, <3>7
      <4>2. ~ (0 > 0)
        OBVIOUS
      <4> QED BY <3>1, <3>2, <3>7, <4>1, <4>2, Zenon
    <3> QED BY <3>6, <3>7
  <2> QED BY <2>4, <2>5 DEF Commands
<1> QED BY <1>8, <1>12, <1>13 DEF PauseInv, Pending, PauseErr, ResumeErr

\* The call returns: a failed one is undone in the flag, and was the only one.
LEMMA ReturnPause ==
    ASSUME TypeOK, TypeOK', PauseInv, NEW h \in Pending, QueueReturned(h)
    PROVE  PauseInv'
<1> DEFINE b == BagRemove(suspended, h)
           p == Copies(PauseErr, suspended)
           q == Copies(ResumeErr, suspended)
<1>1. /\ IsHandlers(suspended) /\ h \in DOMAIN suspended /\ h \in Handlers
      /\ h.at \in Commands /\ PauseErr # ResumeErr
  BY TypeParts DEF StepTypeOK, QueueReturned, Pending, IsHandlers, Commands, PauseErr, ResumeErr,
     Handler
<1>2. /\ suspended' = BagAdd(b, Waiting("setInactive"))
      /\ paused' = IF h.res = "error" THEN h.at = "resume" ELSE paused
      /\ UNCHANGED <<queuePaused, nFailures, nCommands>>
  BY DEF QueueReturned, Rest, counters
<1>3. IsHandlers(b) /\ Waiting("setInactive") \in Handlers
  BY <1>1, ResumeOne, HandlerType DEF Points, Results
<1>4. /\ DOMAIN suspended' \subseteq DOMAIN suspended \cup {Waiting("setInactive")}
      /\ \A g : g.at \in Commands =>
             Copies(g, suspended') = Copies(g, suspended) - IF g = h THEN 1 ELSE 0
  <2>1. /\ DOMAIN b \subseteq DOMAIN suspended
        /\ \A g : Copies(g, b) = Copies(g, suspended) - IF g = h THEN 1 ELSE 0
    BY <1>1, ResumeOne
  <2>2. /\ DOMAIN suspended' = DOMAIN b \cup {Waiting("setInactive")}
        /\ \A g : Copies(g, suspended') = Copies(g, b) + IF g = Waiting("setInactive") THEN 1 ELSE 0
    BY <1>2, <1>3, SuspendOne
  <2>3. ASSUME NEW g, g.at \in Commands
        PROVE  Copies(g, suspended') = Copies(g, suspended) - IF g = h THEN 1 ELSE 0
    <3>1. g # Waiting("setInactive")
      BY <2>3 DEF Waiting, Handler, Commands
    <3>2. Copies(g, b) \in Nat
      BY <1>3, CopiesNat
    <3> QED BY <2>1, <2>2, <3>1, <3>2
  <2> QED BY <2>1, <2>2, <2>3
<1>5. /\ p \in Nat /\ q \in Nat /\ p + q <= nFailures
      /\ h = PauseErr => p >= 1
      /\ h = ResumeErr => q >= 1
  BY <1>1, CopiesNat DEF PauseInv
<1>6. /\ Copies(PauseErr, suspended') = p - IF h = PauseErr THEN 1 ELSE 0
      /\ Copies(ResumeErr, suspended') = q - IF h = ResumeErr THEN 1 ELSE 0
  <2>1. PauseErr.at \in Commands /\ ResumeErr.at \in Commands
    BY DEF PauseErr, ResumeErr, Handler, Commands
  <2> QED BY <1>4, <2>1
<1>7. \A g \in DOMAIN suspended' : g.at \in Commands => g.job = NoJob
  BY <1>4 DEF PauseInv, Pending, Waiting, Handler, Commands
<1>8. Copies(PauseErr, suspended') + Copies(ResumeErr, suspended') <= nFailures'
  BY <1>2, <1>5, <1>6 DEF TypeOK
<1>9. ASSUME FewFailures'
      PROVE  /\ Copies(PauseErr, suspended') > 0 => ~queuePaused' /\ (paused' \/ nCommands' >= 2)
             /\ Copies(ResumeErr, suspended') > 0 => queuePaused' /\ nCommands' >= 2
             /\ Copies(PauseErr, suspended') + Copies(ResumeErr, suspended') = 0
                   => paused' = queuePaused'
             /\ paused' => nCommands' >= 1
  <2>1. /\ p > 0 => ~queuePaused /\ (paused \/ nCommands >= 2)
        /\ q > 0 => queuePaused /\ nCommands >= 2
        /\ p + q = 0 => paused = queuePaused
        /\ paused => nCommands >= 1
    BY <1>2, <1>9 DEF PauseInv, FewFailures
  <2>2. p + q <= 1
    BY <1>2, <1>5, <1>9 DEF FewFailures
  <2>3. CASE h = PauseErr
    <3>1. paused' = FALSE /\ queuePaused = FALSE /\ queuePaused' = FALSE
      <4>1. h.res = "error" /\ h.at = "pause"
        BY <2>3 DEF PauseErr, Handler
      <4>2. paused' = FALSE
        BY <1>2, <4>1
      <4>3. queuePaused = FALSE
        BY <1>5, <2>1, <2>3 DEF TypeOK
      <4> QED BY <1>2, <4>2, <4>3
    <3>2. Copies(PauseErr, suspended') = 0 /\ Copies(ResumeErr, suspended') = 0
      BY <1>1, <1>5, <1>6, <2>2, <2>3
    <3>3. ~ (0 > 0)
      OBVIOUS
    <3> QED BY <3>1, <3>2, <3>3, Zenon
  <2>4. CASE h = ResumeErr
    <3>1. paused' = TRUE /\ queuePaused = TRUE /\ queuePaused' = TRUE
      <4>1. h.res = "error" /\ h.at = "resume"
        BY <2>4 DEF ResumeErr, Handler
      <4>2. paused' = TRUE
        BY <1>2, <4>1
      <4>3. queuePaused = TRUE
        BY <1>5, <2>1, <2>4 DEF TypeOK
      <4> QED BY <1>2, <4>2, <4>3
    <3>2. Copies(PauseErr, suspended') = 0 /\ Copies(ResumeErr, suspended') = 0
      BY <1>1, <1>5, <1>6, <2>2, <2>4
    <3>3. nCommands' >= 1
      BY <1>2, <1>5, <2>1, <2>4 DEF TypeOK
    <3> QED BY <3>1, <3>2, <3>3
  <2>5. CASE h # PauseErr /\ h # ResumeErr
    <3>1. h.res # "error"
      <4>1. h.job = NoJob
        BY <1>1 DEF PauseInv, Pending
      <4> QED BY <1>1, <2>5, <4>1 DEF PauseErr, ResumeErr, Handler, Handlers, Commands
    <3>2. UNCHANGED <<paused, queuePaused, nCommands>>
      BY <1>2, <3>1
    <3>3. Copies(PauseErr, suspended') = p /\ Copies(ResumeErr, suspended') = q
      BY <1>5, <1>6, <2>5
    <3> QED BY <2>1, <3>2, <3>3
  <2> QED BY <2>3, <2>4, <2>5
<1> QED BY <1>7, <1>8, <1>9 DEF PauseInv, Pending, PauseErr, ResumeErr

LEMMA PauseStep == TypeOK /\ TypeOK' /\ PauseInv /\ [Next]_vars => PauseInv'
<1> SUFFICES ASSUME TypeOK, TypeOK', PauseInv, [Next]_vars PROVE PauseInv'
  OBVIOUS
<1> USE WorkerAssumption
<1>a. nFailures \in Nat /\ nCommands \in Nat
  BY DEF TypeOK
<1>b. /\ \A at \in Points \ Commands : Waiting(at) = Handler(at, "none", NoJob)
      /\ "none" \in Results /\ NoJob \in Jobs \cup {NoJob}
  BY DEF Waiting, Results
<1>1. CASE \/ BootTimeout \/ AlgInitialized \/ AlgDone \/ AlgStopped
           \/ AlgErrorHandled \/ DisconnectHandled
           \/ \E j \in Jobs : ExtractFailed(j) \/ JobUpdated(j)
           \/ CleanedUp \/ StopHandled \/ StopTimeout
           \/ IdleTimeout /\ ~term
  BY <1>1, RequestForm, RequestingPause
<1>2. CASE InitWorker \/ Connect
  <2>1. UNCHANGED <<paused, queuePaused, nFailures, nCommands>>
    BY <1>2 DEF InitWorker, Connect, cmdVars, counters
  <2>2. Still => PauseInv'
    BY <1>a, <2>1, ResumingPause DEF Still
  <2> QED BY <1>2, <2>2, BootstrapForm, RequestingPause
<1>3. CASE \/ Disconnect \/ AlgError \/ Poll
           \/ \E j \in Jobs : Deliver(j) \/ StopJob(j)
           \/ \E b \in BOOLEAN : SetHot(b)
  <2>1. UNCHANGED <<paused, queuePaused, nFailures>> /\ nCommands' >= nCommands
    BY <1>3, <1>a DEF Disconnect, AlgError, Poll, Deliver, StopJob, SetHot, Command, cmdVars,
       counters, otherVars
  <2>2. \/ suspended' = suspended
        \/ \E at \in Points \ Commands, j \in Jobs \cup {NoJob} :
              suspended' = BagAdd(suspended, Handler(at, "none", j))
    BY <1>3 DEF Disconnect, AlgError, Poll, Deliver, StopJob, SetHot, stepVars, TypeOK, Points,
       Commands, Waiting
  <2> QED BY <1>a, <1>b, <2>1, <2>2, ResumingPause
<1>4. CASE \/ \E j \in Jobs : JobWatched(j) \/ JobUnwatched(j) \/ Extracted(j)
           \/ ReadyHandled \/ SetInactive
  <2>1. UNCHANGED <<paused, queuePaused, nFailures, nCommands>>
    BY <1>4 DEF JobWatched, JobUnwatched, Extracted, ReadyHandled, SetInactive, cmdVars,
       counters, otherVars
  <2>2. PICK h \in DOMAIN suspended :
           /\ h.at \notin Commands
           /\ \/ suspended' = BagRemove(suspended, h)
              \/ \E at \in Points \ Commands, j \in Jobs \cup {NoJob} :
                   suspended' = BagAdd(BagRemove(suspended, h), Handler(at, "none", j))
    <3>1. ASSUME NEW j \in Jobs, JobWatched(j)
          PROVE  \E at \in {"job.unwatch", "job.update"} :
                   suspended' = BagAdd(BagRemove(suspended, AtWatch(j)), Handler(at, "none", j))
      BY <3>1 DEF JobWatched, Rest, AtWatch
    <3>2. ASSUME NEW j \in Jobs, JobWatched(j) PROVE AtWatch(j) \in DOMAIN suspended
      BY <3>2 DEF JobWatched, Resumed, AtWatch
    <3>3. CASE \/ \E j \in Jobs : JobUnwatched(j) \/ Extracted(j)
               \/ ReadyHandled \/ SetInactive
      BY <3>3 DEF JobUnwatched, Extracted, ReadyHandled, SetInactive, Resumed, Rest, Handler,
         Waiting, Commands
    <3>4. /\ \A j \in Jobs : AtWatch(j).at = "job.watch"
          /\ {"job.unwatch", "job.update"} \subseteq Points \ Commands
      BY DEF AtWatch, Handler, Points, Commands
    <3> QED BY <1>4, <3>1, <3>2, <3>3, <3>4 DEF Commands
  <2> QED BY <1>a, <1>b, <2>1, <2>2, ResumingPause
<1>5. ASSUME NEW h \in Pending,
             Unwatched(h) \/ ResultStored(h) \/ StoreFailed(h) \/ TaskUpdated(h)
      PROVE  PauseInv'
  <2>1. h \in DOMAIN suspended /\ h.res \in Results /\ cjob \in Jobs \cup {NoJob}
    BY <1>5 DEF Pending, TypeOK, Handlers
  <2>2. h.at \notin Commands /\ UNCHANGED <<paused, queuePaused, nFailures, nCommands>>
    BY <1>5 DEF Unwatched, ResultStored, StoreFailed, TaskUpdated, FinishWith, Commands, cmdVars,
       counters, otherVars
  <2>3. \/ suspended' = BagRemove(suspended, h)
        \/ \E at \in {"put", "update", "cleanup"}, r \in Results, j \in Jobs \cup {NoJob} :
              suspended' = BagAdd(BagRemove(suspended, h), Handler(at, r, j))
    BY <1>5, <2>1 DEF Unwatched, ResultStored, StoreFailed, TaskUpdated, FinishWith, Waiting,
       Results, Rest
  <2> QED BY <1>a, <2>1, <2>2, <2>3, ResumingPause DEF Points, Commands
<1>6. CASE StopProcessing \/ StartProcessing
  BY <1>6, CommandPause
<1>7. ASSUME NEW h \in Pending, QueueReturned(h)
      PROVE  PauseInv'
  BY <1>7, ReturnPause
<1>8. CASE (\E h \in Pending : Rejected(h)) \/ Unhandled
  <2>1. UNCHANGED <<paused, queuePaused, nCommands>> /\ nFailures' >= nFailures
    BY <1>8, <1>a DEF Rejected, Unhandled, Failing, cmdVars
  <2>2. \/ suspended' = suspended
        \/ \E h \in DOMAIN suspended : h.at \notin Commands /\ suspended' = BagRemove(suspended, h)
    BY <1>8 DEF Rejected, Unhandled, Rest, Commands
  <2> QED BY <1>a, <2>1, <2>2, ResumingPause
<1>9. CASE Exit \/ Signal \/ (IdleTimeout /\ term) \/ UNCHANGED vars
  BY <1>9, <1>a, ResumingPause DEF Exit, Signal, IdleTimeout, vars, stepVars, cmdVars, counters, otherVars
<1> QED
  BY <1>1, <1>2, <1>3, <1>4, <1>5, <1>6, <1>7, <1>8, <1>9 DEF Next, Return, Answer, Gone

\* Commands to the queue that overlap never leave the flag and the queue at odds,
\* even when one of them fails and is reported late.
THEOREM PauseFlag == Spec => []PauseFlagIsRight
<1>1. Init => PauseInv
  <2> SUFFICES ASSUME Init PROVE PauseInv
    OBVIOUS
  <2>1. DOMAIN suspended = {}
    BY DEF Init, EmptyBag, SetToBag
  <2>2. Copies(PauseErr, suspended) = 0 /\ Copies(ResumeErr, suspended) = 0
    BY <2>1 DEF Copies
  <2>3. paused = FALSE /\ queuePaused = FALSE /\ nFailures = 0
    BY DEF Init
  <2>4. 0 + 0 <= nFailures /\ ~ (0 > 0)
    BY <2>3
  <2> QED BY <2>1, <2>2, <2>3, <2>4, Zenon DEF PauseInv, Pending
<1>2. TypeOK /\ PauseInv => PauseFlagIsRight
  <2> SUFFICES ASSUME TypeOK, PauseInv, \A h \in Pending : h.at \notin {"pause", "resume"}, FewFailures
               PROVE  paused = queuePaused
    BY DEF PauseFlagIsRight, FewFailures
  <2>1. PauseErr \notin DOMAIN suspended /\ ResumeErr \notin DOMAIN suspended
    BY DEF Pending, PauseErr, ResumeErr, Handler
  <2>2. Copies(PauseErr, suspended) = 0 /\ Copies(ResumeErr, suspended) = 0
    BY <2>1 DEF Copies
  <2> QED BY <2>2 DEF PauseInv
<1> QED BY <1>1, <1>2, PauseStep, TypeCorrect, PTL DEF Spec

-----------------------------------------------------------------------------
(***************************************************************************)
(* Something is due.  The invariant also covers the time before the first  *)
(* connection, when nothing is asked and a state that needs the algorithm  *)
(* ends the worker; and a job taken before the state manager had any.      *)
(***************************************************************************)
FinishPoints == {"unwatch", "put", "update", "cleanup"}
DuePoints == FinishPoints \cup {"job.update", "extract", "algError"}
OnFirst == nConnections = 0 \/ FirstUp

DueInv ==
    /\ nConnections = 0 => asked = {} /\ ~socket
    /\ ~term =>
        /\ cjob # NoJob /\ (state = "ready" \/ smJob = NoJob) => AtUpdate(cjob) \in Pending
        /\ OnFirst /\ state = "init" => AtPoint({"extract", "algError"}) \/ "initialize" \in asked
        /\ OnFirst /\ state = "working" => AtPoint({"algError"}) \/ "start" \in asked
        /\ state = "stop" => stopTimer \/ lostTimers > 0
        /\ state = "results" => AtPoint(FinishPoints)

\* A handler waiting at a point of K still waits.
Keeps(K) == \A h \in Pending : h.at \in K => h \in DOMAIN suspended'

LEMMA KeepsOn ==
    ASSUME TypeOK, NEW K,
           NEW b, b = suspended \/ \E h \in DOMAIN suspended : h.at \notin K /\ b = BagRemove(suspended, h),
           suspended' = b \/ \E h \in Handlers : suspended' = BagAdd(b, h)
    PROVE  Keeps(K)
<1>1. IsHandlers(suspended)
  BY TypeParts DEF StepTypeOK
<1>2. FewerIn(K, suspended', suspended)
  BY <1>1, NotFewer
<1> QED BY <1>2 DEF FewerIn, Keeps, Pending

LEMMA AddedPends ==
    ASSUME NEW b, IsHandlers(b), NEW h \in Handlers, suspended' = BagAdd(b, h)
    PROVE  h \in DOMAIN suspended'
<1>1. DOMAIN BagAdd(b, h) = DOMAIN b \cup {h}
  BY SuspendOne
<1> QED BY <1>1

\* Only the handler that requests a transition goes on.
LEMMA RequestKeeps ==
    ASSUME WorkerAssumption, TypeOK, NEW t \in Transitions, NEW c, Requests(t, c)
    PROVE  /\ t # "prepare" => Keeps({"job.update"})
           /\ t # "done" => Keeps({"extract", "algError"})
           /\ t # "cleanup" => Keeps(FinishPoints)
<1>1. CallOK(c) /\ Cause(t, c) /\ Transit(t, c)
  BY DEF Requests
<1>2. suspended' = c.rest \/ \E h \in Handlers : suspended' = BagAdd(c.rest, h)
  BY <1>1, TransitMoves
<1>3. \/ c.rest = suspended
      \/ \E h \in DOMAIN suspended :
            /\ c.rest = BagRemove(suspended, h)
            /\ \/ t = "done" /\ h.at \in {"algError", "disconnect", "extract"}
               \/ t = "prepare" /\ h.at = "job.update"
               \/ t = "cleanup" /\ h.at = "cleanup"
               \/ t = "stop" /\ h.at = "stop"
  BY <1>1 DEF Cause, Resumes, AtUpdate, Waiting, Handler
<1> QED BY <1>2, <1>3, KeepsOn DEF FinishPoints

\* What is due at a point is due as long as the handlers there wait.
LEMMA KeptDue ==
    ASSUME NEW K, NEW S, S \subseteq K, Keeps(K)
    PROVE  AtPoint(S) => AtPoint(S)'
BY DEF Keeps, AtPoint, Pending

LEMMA KeptUpdate ==
    ASSUME Keeps({"job.update"}), AtUpdate(cjob) \in Pending, cjob' = cjob
    PROVE  AtUpdate(cjob') \in DOMAIN suspended'
BY DEF Keeps, AtUpdate, Handler, Pending

\* A step that leaves the state, the job and the timers alone, and what is due.
LEMMA KeptAll ==
    ASSUME DueInv, UNCHANGED <<state, smJob, cjob, stopTimer, lostTimers>>, term => term',
           nConnections' = 0 => asked' = {} /\ ~socket',
           OnFirst' => OnFirst /\ asked \subseteq asked',
           Keeps(DuePoints)
    PROVE  DueInv'
<1>1. /\ AtPoint({"extract", "algError"}) => AtPoint({"extract", "algError"})'
      /\ AtPoint({"algError"}) => AtPoint({"algError"})'
      /\ AtPoint(FinishPoints) => AtPoint(FinishPoints)'
  BY KeptDue DEF DuePoints
<1>2. AtUpdate(cjob) \in Pending => AtUpdate(cjob') \in DOMAIN suspended'
  BY KeptUpdate DEF Keeps, DuePoints
<1> QED BY <1>1, <1>2 DEF DueInv, Pending, AtUpdate, Handler, FinishPoints

\* The connections while a transition is requested: it may be a new one that does it.
LEMMA RequestFirst ==
    ASSUME TypeOK, DueInv, NEW t \in Transitions, NEW c, Requests(t, c),
           \/ UNCHANGED <<nConnections, algUp, socket>>
           \/ t = "bootstrap" /\ nConnections' = nConnections + 1
    PROVE  /\ nConnections' = 0 => nConnections = 0 /\ asked = {} /\ ~socket /\ ~socket'
           /\ OnFirst' => OnFirst /\ (t = "bootstrap" => c.asked = asked)
<1>1. Cause(t, c) /\ nConnections \in Nat
  BY DEF Requests, TypeOK
<1>2. CASE UNCHANGED <<nConnections, algUp, socket>>
  BY <1>1, <1>2 DEF Cause, DueInv, OnFirst, FirstUp
<1>3. CASE t = "bootstrap" /\ nConnections' = nConnections + 1
  <2>1. OnFirst' => nConnections = 0
    BY <1>1, <1>3 DEF OnFirst, FirstUp
  <2>2. c.asked \in {asked, {}}
    BY <1>1, <1>3 DEF Cause
  <2> QED BY <1>1, <1>3, <2>1, <2>2 DEF DueInv, OnFirst
<1> QED BY <1>2, <1>3

LEMMA RefusedDue ==
    ASSUME WorkerAssumption, TypeOK, DueInv, NEW t \in Transitions, NEW c, Requests(t, c),
           state \notin From[t] \/ t = "exit",
           nConnections' = 0 => nConnections = 0 /\ asked = {} /\ ~socket /\ ~socket',
           OnFirst' => OnFirst /\ (t = "bootstrap" => c.asked = asked)
    PROVE  DueInv'
<1>1. /\ state' \in {state, "exit"} /\ cjob' = cjob /\ suspended' = c.rest /\ asked' = c.asked
      /\ stopTimer' = c.stopTimer /\ lostTimers' = c.lostTimers
  BY RequestRefused
<1>2. Cause(t, c) /\ smJob' = c.job /\ (term => term')
  BY DEF Requests, Transit, Entered, EnteredUnheard
<1>3. /\ t # "done" => c.stopTimer = stopTimer /\ c.lostTimers = lostTimers
      /\ t # "prepare" => c.job = smJob
      /\ t = "prepare" => c.job # NoJob
  BY <1>2 DEF Requests, Cause, WorkerAssumption, NoJob
<1>4. /\ t = "prepare" => state # "ready"
      /\ t = "start" => state # "init"
      /\ t = "done" => state \notin {"working", "stop", "init"}
      /\ t = "cleanup" => state # "results"
  BY DEF From
<1>5. nConnections' = 0 => asked' = {} /\ ~socket'
  BY <1>1, <1>2 DEF Cause, Resumes
<1>6. t # "prepare" /\ AtUpdate(cjob) \in Pending => AtUpdate(cjob') \in DOMAIN suspended'
  BY <1>1, RequestKeeps, KeptUpdate
<1>7. t # "done" => /\ AtPoint({"extract", "algError"}) => AtPoint({"extract", "algError"})'
                    /\ AtPoint({"algError"}) => AtPoint({"algError"})'
  BY RequestKeeps, KeptDue
<1>8. t # "cleanup" /\ AtPoint(FinishPoints) => AtPoint(FinishPoints)'
  BY RequestKeeps, KeptDue
<1>9. OnFirst' /\ t # "done" => /\ t # "start" /\ "initialize" \in asked => "initialize" \in asked'
                                /\ "start" \in asked => "start" \in asked'
  BY <1>1, <1>2 DEF Cause, Resumes
<1>10. cjob' # NoJob /\ (state' = "ready" \/ smJob' = NoJob) /\ ~term' => AtUpdate(cjob') \in DOMAIN suspended'
  BY <1>1, <1>2, <1>3, <1>4, <1>6 DEF DueInv
<1>11. ~term' /\ state' = "results" => AtPoint(FinishPoints)'
  BY <1>1, <1>2, <1>4, <1>8 DEF DueInv
<1>12. ~term' /\ state' = "stop" => stopTimer' \/ lostTimers' > 0
  <2>1. t # "done" => stopTimer' = stopTimer /\ lostTimers' = lostTimers
    BY <1>1, <1>3
  <2>2. state' = "stop" => state = "stop"
    BY <1>1
  <2> QED BY <1>2, <1>4, <2>1, <2>2 DEF DueInv
<1>13. ~term' /\ OnFirst' /\ state' = "init" => AtPoint({"extract", "algError"})' \/ "initialize" \in asked'
  BY <1>1, <1>2, <1>4, <1>7, <1>9 DEF DueInv
<1>14. ~term' /\ OnFirst' /\ state' = "working" => AtPoint({"algError"})' \/ "start" \in asked'
  BY <1>1, <1>2, <1>4, <1>7, <1>9 DEF DueInv
<1> QED BY <1>5, <1>10, <1>11, <1>12, <1>13, <1>14 DEF DueInv, Pending

LEMMA TakenDue ==
    ASSUME WorkerAssumption, TypeOK, TypeOK', SetInv', DueInv, NEW t \in Transitions \ {"exit"},
           NEW c, Requests(t, c), state \in From[t],
           nConnections' = 0 => nConnections = 0 /\ asked = {} /\ ~socket /\ ~socket',
           OnFirst' => OnFirst /\ (t = "bootstrap" => c.asked = asked)
    PROVE  DueInv'
<1>1. /\ state' = To[t] /\ Finish(To[t], c) /\ smJob' = c.job
      /\ Cause(t, c) /\ CallOK(c) /\ c.heard = isInit'
  BY RequestTaken DEF Requests
<1>2. state' \notin {"bootstrap", "exit"}
  BY <1>1 DEF To, Transitions
<1>3. isInit'
  BY <1>2 DEF SetInv, StartInv
<1>4. Entered(To[t], c)
  <2>1. Target(t, state, DebugMode) = To[t]
    BY DEF Target
  <2> QED BY <1>1, <1>3, <2>1 DEF Requests, Transit
<1>5. c.asked \subseteq asked /\ IsHandlers(c.rest)
  BY <1>1 DEF Cause, Resumes, CallOK
<1>6. nConnections' = 0 => asked' = {} /\ ~socket'
  BY <1>4, <1>5 DEF Entered
<1>7. term => term'
  BY <1>4 DEF Entered
<1>8. cjob' \in {cjob, NoJob}
  BY <1>1 DEF Finish
<1>9. cjob' # NoJob /\ (state' = "ready" \/ smJob' = NoJob) /\ ~term' => AtUpdate(cjob') \in DOMAIN suspended'
  <2>1. CASE t = "prepare"
    BY <1>1, <2>1 DEF Cause, To, WorkerAssumption, NoJob
  <2>2. CASE t # "prepare"
    <3>1. c.job = smJob
      BY <2>2 DEF Requests
    <3>2. state' = "ready" /\ c.job # NoJob => cjob' = NoJob
      BY <1>1 DEF Finish, To, From, Transitions
    <3>3. AtUpdate(cjob) \in Pending /\ cjob' = cjob => AtUpdate(cjob') \in DOMAIN suspended'
      BY <2>2, RequestKeeps, KeptUpdate
    <3> QED BY <1>1, <1>7, <1>8, <3>1, <3>2, <3>3 DEF DueInv
  <2> QED BY <2>1, <2>2
<1>10. CASE t \in {"bootstrap", "cleanup"}
  <2>1. state' = "ready"
    BY <1>1, <1>10 DEF To
  <2> QED BY <1>6, <1>9, <2>1 DEF DueInv, Pending
<1>11. CASE t = "prepare"
  <2> DEFINE h == Handler("extract", "none", c.job)
  <2>1. state' = "init" /\ suspended' = BagAdd(c.rest, h)
    BY <1>1, <1>4, <1>11 DEF To, Entered
  <2>2. h \in Handlers /\ h.at = "extract"
    BY <1>1, HandlerType DEF CallOK, Points, Results, Handler
  <2>3. h \in DOMAIN suspended'
    <3> HIDE DEF h
    <3> QED BY <1>5, <2>1, <2>2, AddedPends
  <2>4. AtPoint({"extract", "algError"})'
    BY <2>2, <2>3 DEF AtPoint, Pending
  <2> QED BY <1>6, <1>9, <2>1, <2>4 DEF DueInv, Pending
<1>12. CASE t = "start"
  <2>1. state' = "working" /\ (term' \/ "start" \in asked')
    BY <1>1, <1>4, <1>12 DEF To, Entered, CommandOf
  <2> QED BY <1>6, <1>9, <2>1 DEF DueInv, Pending
<1>13. CASE t = "stop"
  <2>1. state' = "stop" /\ stopTimer'
    BY <1>1, <1>4, <1>13 DEF To, Entered, Timers
  <2> QED BY <1>6, <1>9, <2>1 DEF DueInv, Pending
<1>14. CASE t = "done"
  <2>1. PICK h \in {Handler("unwatch", c.res, cjob), Waiting("cleanup")} : suspended' = BagAdd(c.rest, h)
    BY <1>1, <1>4, <1>14 DEF To, Entered
  <2>2. h \in Handlers /\ h.at \in FinishPoints
    <3>1. c.res \in Results /\ cjob \in Jobs \cup {NoJob} /\ {"unwatch", "cleanup"} \subseteq Points
      BY <1>1 DEF CallOK, TypeOK, Points
    <3>2. Handler("unwatch", c.res, cjob) \in Handlers /\ Waiting("cleanup") \in Handlers
      BY <3>1, HandlerType
    <3> QED BY <2>1, <3>2 DEF Handler, Waiting, FinishPoints
  <2>3. AtPoint(FinishPoints)'
    <3>1. h \in DOMAIN suspended'
      BY <1>5, <2>1, <2>2, AddedPends
    <3> QED BY <2>2, <3>1 DEF AtPoint, Pending
  <2>4. state' = "results"
    BY <1>1, <1>14 DEF To
  <2> QED BY <1>6, <1>9, <2>3, <2>4 DEF DueInv, Pending
<1> QED BY <1>10, <1>11, <1>12, <1>13, <1>14 DEF Transitions

LEMMA RequestDue ==
    ASSUME WorkerAssumption, TypeOK, TypeOK', SetInv', DueInv, NEW t \in Transitions, NEW c,
           Requests(t, c),
           \/ UNCHANGED <<nConnections, algUp, socket>>
           \/ t = "bootstrap" /\ nConnections' = nConnections + 1
    PROVE  DueInv'
<1>1. /\ nConnections' = 0 => nConnections = 0 /\ asked = {} /\ ~socket /\ ~socket'
      /\ OnFirst' => OnFirst /\ (t = "bootstrap" => c.asked = asked)
  BY RequestFirst
<1>2. CASE state \notin From[t] \/ t = "exit"
  BY <1>1, <1>2, RefusedDue
<1>3. CASE state \in From[t] /\ t # "exit"
  BY <1>1, <1>3, TakenDue
<1> QED BY <1>2, <1>3

-----------------------------------------------------------------------------
\* The steps that request no transition.
LEMMA FinishDue ==
    ASSUME WorkerAssumption, TypeOK, DueInv, NEW h \in Pending,
           Unwatched(h) \/ ResultStored(h) \/ StoreFailed(h) \/ TaskUpdated(h)
    PROVE  DueInv'
<1>1. /\ UNCHANGED <<state, smJob, cjob, stopTimer, lostTimers, asked, nConnections, algUp, socket>>
      /\ h.at \in {"unwatch", "put", "update"}
  BY DEF Unwatched, ResultStored, StoreFailed, TaskUpdated, FinishWith, smVars, jobVars, otherVars,
     sockVars, counters
<1>2. /\ IsHandlers(suspended) /\ h \in DOMAIN suspended /\ h \in Handlers
      /\ cjob \in Jobs \cup {NoJob} /\ h.res \in Results /\ IsHandlers(Rest(h))
  BY ResumeOne, TypeParts DEF StepTypeOK, Pending, Handlers, IsHandlers, Rest
<1>3. term => term'
  <2>1. CASE Unwatched(h) \/ ResultStored(h) \/ StoreFailed(h)
    BY <2>1, Zenon DEF Unwatched, ResultStored, StoreFailed, FinishWith
  <2>2. CASE TaskUpdated(h)
    BY <2>2 DEF TaskUpdated
  <2> QED BY <2>1, <2>2
<1>4. \/ term' /\ suspended' = Rest(h)
      \/ \E g \in Handlers : g.at \in FinishPoints /\ suspended' = BagAdd(Rest(h), g)
  <2>1. \A at \in {"put", "update", "cleanup"}, r \in Results :
           /\ Handler(at, r, cjob) \in Handlers /\ Waiting(at) \in Handlers
           /\ Handler(at, r, cjob).at = at /\ Waiting(at).at = at
    BY <1>2, HandlerType DEF Points, Handler, Waiting
  <2>2. CASE cjob = NoJob /\ ~TaskUpdated(h)
    BY <2>2 DEF Unwatched, ResultStored, StoreFailed, FinishWith
  <2>3. CASE cjob # NoJob \/ TaskUpdated(h)
    <3>1. \E at \in {"put", "update", "cleanup"}, r \in Results :
             suspended' = BagAdd(Rest(h), Handler(at, r, cjob)) \/ suspended' = BagAdd(Rest(h), Waiting(at))
      BY <1>2, <2>3 DEF Unwatched, ResultStored, StoreFailed, TaskUpdated, FinishWith, Results
    <3> QED BY <2>1, <3>1 DEF FinishPoints
  <2> QED BY <2>2, <2>3
<1>5. Keeps({"job.update", "extract", "algError"})
  BY <1>1, <1>2, <1>4, KeepsOn DEF Rest
<1>6. term' \/ AtPoint(FinishPoints)'
  BY <1>2, <1>4, AddedPends DEF AtPoint, Pending
<1>7. /\ AtPoint({"extract", "algError"}) => AtPoint({"extract", "algError"})'
      /\ AtPoint({"algError"}) => AtPoint({"algError"})'
  BY <1>5, KeptDue
<1>8. AtUpdate(cjob) \in Pending => AtUpdate(cjob') \in DOMAIN suspended'
  BY <1>1, <1>5, KeptUpdate DEF Keeps
<1> QED BY <1>1, <1>3, <1>6, <1>7, <1>8 DEF DueInv, OnFirst, FirstUp, Pending

LEMMA WatchedDue ==
    ASSUME WorkerAssumption, TypeOK, DueInv, NEW j \in Jobs, JobWatched(j)
    PROVE  DueInv'
<1>1. /\ UNCHANGED <<state, smJob, stopTimer, lostTimers, asked, nConnections, algUp, socket, term>>
      /\ AtWatch(j) \in DOMAIN suspended
  BY DEF JobWatched, smVars, otherVars, sockVars, counters, Resumed, AtWatch
<1>2. PICK g \in Handlers :
         /\ suspended' = BagAdd(BagRemove(suspended, AtWatch(j)), g)
         /\ cjob' = cjob \/ (cjob' = j /\ g = AtUpdate(j))
  <2>1. \A at \in {"job.unwatch", "job.update"} : Handler(at, "none", j) \in Handlers
    BY HandlerType DEF Points, Results
  <2> QED BY <2>1 DEF JobWatched, Rest, AtWatch, AtUpdate
<1>3. Keeps(DuePoints)
  BY <1>1, <1>2, KeepsOn DEF AtWatch, Handler, DuePoints, FinishPoints
<1>4. CASE cjob' = cjob
  BY <1>1, <1>3, <1>4, KeptAll DEF OnFirst, FirstUp, DueInv
<1>5. CASE cjob' = j /\ g = AtUpdate(j)
  <2>1. IsHandlers(suspended) /\ IsHandlers(BagRemove(suspended, AtWatch(j)))
    BY <1>1, ResumeOne, TypeParts DEF StepTypeOK
  <2>2. AtUpdate(cjob') \in DOMAIN suspended'
    BY <1>2, <1>5, <2>1, AddedPends
  <2>3. /\ AtPoint({"extract", "algError"}) => AtPoint({"extract", "algError"})'
        /\ AtPoint({"algError"}) => AtPoint({"algError"})'
        /\ AtPoint(FinishPoints) => AtPoint(FinishPoints)'
    BY <1>3, KeptDue DEF DuePoints
  <2> QED BY <1>1, <2>2, <2>3 DEF DueInv, OnFirst, FirstUp, Pending
<1> QED BY <1>2, <1>4, <1>5

LEMMA ExtractedDue ==
    ASSUME WorkerAssumption, TypeOK, DueInv, NEW j \in Jobs, Extracted(j)
    PROVE  DueInv'
<1>1. /\ UNCHANGED <<state, smJob, cjob, stopTimer, lostTimers, nConnections, algUp, socket>>
      /\ Handler("extract", "none", j) \in DOMAIN suspended
      /\ suspended' = BagRemove(suspended, Handler("extract", "none", j))
  BY DEF Extracted, smVars, jobVars, otherVars, sockVars, counters, Resumed, Rest
<1>2. \/ ~socket /\ term' /\ asked' = asked
      \/ socket /\ asked' = asked \cup {"initialize"} /\ term' = term
  BY DEF Extracted
<1>3. Keeps({"job.update", "algError"} \cup FinishPoints)
  BY <1>1, KeepsOn DEF Handler, FinishPoints
<1>4. /\ AtPoint({"algError"}) => AtPoint({"algError"})'
      /\ AtPoint(FinishPoints) => AtPoint(FinishPoints)'
  BY <1>3, KeptDue
<1>5. AtUpdate(cjob) \in Pending => AtUpdate(cjob') \in DOMAIN suspended'
  BY <1>1, <1>3, KeptUpdate DEF Keeps
<1> QED BY <1>1, <1>2, <1>4, <1>5 DEF DueInv, OnFirst, FirstUp, Pending

LEMMA AlgErrorDue ==
    ASSUME WorkerAssumption, TypeOK, DueInv, AlgError
    PROVE  DueInv'
<1>1. /\ UNCHANGED <<state, smJob, cjob, stopTimer, lostTimers, nConnections, algUp, socket, term>>
      /\ asked' \subseteq asked /\ suspended' = BagAdd(suspended, Waiting("algError"))
  BY DEF AlgError, smVars, jobVars, otherVars, sockVars, counters
<1>2. Waiting("algError") \in Handlers /\ IsHandlers(suspended)
  BY HandlerType, TypeParts DEF StepTypeOK, Points, Results
<1>3. Waiting("algError") \in DOMAIN suspended' /\ Waiting("algError").at = "algError"
  BY <1>1, <1>2, AddedPends DEF Waiting, Handler
<1>4. Keeps(DuePoints)
  BY <1>1, <1>2, KeepsOn
<1>5. AtPoint(FinishPoints) => AtPoint(FinishPoints)'
  BY <1>4, KeptDue DEF DuePoints
<1>6. AtPoint({"algError"})' /\ AtPoint({"extract", "algError"})'
  BY <1>3 DEF AtPoint, Pending
<1>7. AtUpdate(cjob) \in Pending => AtUpdate(cjob') \in DOMAIN suspended'
  BY <1>1, <1>4, KeptUpdate DEF Keeps, DuePoints
<1> QED BY <1>1, <1>5, <1>6, <1>7 DEF DueInv, OnFirst, FirstUp, Pending

\* The same for a step after which every handler at a point of DuePoints still waits.
LEMMA AsideDue ==
    ASSUME WorkerAssumption, TypeOK, DueInv,
           UNCHANGED <<state, smJob, cjob, stopTimer, lostTimers, asked>>, term => term',
           nConnections' = nConnections, algUp' => algUp, socket' => socket,
           NEW b, \/ b = suspended
                  \/ \E h \in DOMAIN suspended : h.at \notin DuePoints /\ b = BagRemove(suspended, h),
           \/ suspended' = b
           \/ \E at \in Points, r \in Results, j \in Jobs \cup {NoJob} :
                 suspended' = BagAdd(b, Handler(at, r, j))
    PROVE  DueInv'
<1>1. suspended' = b \/ \E h \in Handlers : suspended' = BagAdd(b, h)
  BY HandlerType
<1>2. Keeps(DuePoints)
  BY <1>1, KeepsOn
<1> QED BY <1>2, KeptAll DEF DueInv, OnFirst, FirstUp

LEMMA DueStep == TypeOK /\ TypeOK' /\ SetInv' /\ DueInv /\ [Next]_vars => DueInv'
<1> SUFFICES ASSUME TypeOK, TypeOK', SetInv', DueInv, [Next]_vars PROVE DueInv'
  OBVIOUS
<1> USE WorkerAssumption
<1>a. /\ \A at \in Points : Waiting(at) = Handler(at, "none", NoJob)
      /\ "none" \in Results /\ "error" \in Results /\ NoJob \in Jobs \cup {NoJob}
  BY DEF Waiting, Results
<1>1. CASE \/ BootTimeout \/ AlgInitialized \/ AlgDone \/ AlgStopped
           \/ AlgErrorHandled \/ DisconnectHandled
           \/ \E j \in Jobs : ExtractFailed(j) \/ JobUpdated(j)
           \/ CleanedUp \/ StopHandled \/ StopTimeout
           \/ IdleTimeout /\ ~term
  <2>1. PICK t \in Transitions \ {"bootstrap"} : \E c : Requests(t, c)
    BY <1>1, RequestMade DEF Requested
  <2>2. PICK c : Requests(t, c)
    BY <2>1
  <2>3. UNCHANGED <<nConnections, algUp, socket>>
    BY <2>1, <2>2 DEF Requests, Leaves, sockVars
  <2> QED BY <2>2, <2>3, RequestDue
<1>2. CASE InitWorker \/ Connect
  <2>1. \/ UNCHANGED <<nConnections, algUp, socket>>
        \/ nConnections' = nConnections + 1
    BY <1>2 DEF InitWorker, Connect, sockVars, counters
  <2>2. CASE Still
    <3>1. nConnections' = 0 => asked' = {} /\ ~socket'
      BY <2>1, <2>2 DEF Still, DueInv, TypeOK
    <3>2. OnFirst' => OnFirst /\ asked \subseteq asked'
      BY <2>1, <2>2 DEF Still, DueInv, TypeOK, OnFirst, FirstUp
    <3>3. Keeps(DuePoints)
      BY <2>2 DEF Still, Keeps, Pending
    <3> QED BY <2>2, <3>1, <3>2, <3>3, KeptAll DEF Still, smVars, jobVars
  <2>3. ASSUME NEW c, Requests("bootstrap", c)
        PROVE  DueInv'
    BY <2>1, <2>3, RequestDue DEF Transitions
  <2> QED BY <1>2, <2>2, <2>3, Booting
<1>3. CASE Disconnect \/ Poll \/ \E j \in Jobs : Deliver(j) \/ StopJob(j)
  <2>1. UNCHANGED <<state, smJob, cjob, stopTimer, lostTimers, asked, term, nConnections>>
        /\ (algUp' => algUp) /\ (socket' => socket)
    BY <1>3 DEF Disconnect, Poll, Deliver, StopJob, stepVars, smVars, jobVars, sockVars, counters
  <2>2. \/ suspended' = suspended
        \/ \E at \in Points, j \in Jobs \cup {NoJob} :
              suspended' = BagAdd(suspended, Handler(at, "none", j))
    BY <1>3, <1>a DEF Disconnect, Poll, Deliver, StopJob, stepVars, TypeOK, Points
  <2> QED BY <1>a, <2>1, <2>2, AsideDue
<1>4. CASE AlgError
  BY <1>4, AlgErrorDue
<1>5. ASSUME NEW j \in Jobs, JobWatched(j) \/ Extracted(j)
      PROVE  DueInv'
  BY <1>5, WatchedDue, ExtractedDue
<1>6. CASE (\E j \in Jobs : JobUnwatched(j)) \/ ReadyHandled \/ SetInactive
  <2>1. UNCHANGED <<state, smJob, cjob, stopTimer, lostTimers, asked, term, nConnections, algUp, socket>>
    BY <1>6 DEF JobUnwatched, ReadyHandled, SetInactive, smVars, jobVars, otherVars, sockVars, counters
  <2>2. \E h \in DOMAIN suspended : h.at \notin DuePoints /\ suspended' = BagRemove(suspended, h)
    BY <1>6 DEF JobUnwatched, ReadyHandled, SetInactive, Resumed, Rest, Waiting, Handler, DuePoints,
       FinishPoints
  <2> QED BY <2>1, <2>2, AsideDue
<1>7. ASSUME NEW h \in Pending, Unwatched(h) \/ ResultStored(h) \/ StoreFailed(h) \/ TaskUpdated(h)
      PROVE  DueInv'
  BY <1>7, FinishDue
<1>8. CASE \/ \E b \in BOOLEAN : SetHot(b)
           \/ StopProcessing \/ StartProcessing
  <2>1. UNCHANGED <<state, smJob, cjob, stopTimer, lostTimers, asked, term, nConnections, algUp, socket>>
    BY <1>8 DEF SetHot, StopProcessing, StartProcessing, Command, smVars, jobVars, sockVars
  <2>2. \E at \in Points, r \in Results : suspended' = BagAdd(suspended, Handler(at, r, NoJob))
    BY <1>8, <1>a DEF SetHot, StopProcessing, StartProcessing, CallQueue, Points
  <2> QED BY <1>a, <2>1, <2>2, AsideDue
<1>9. ASSUME NEW h \in Pending, QueueReturned(h)
      PROVE  DueInv'
  <2>1. UNCHANGED <<state, smJob, cjob, stopTimer, lostTimers, asked, term, nConnections, algUp, socket>>
    BY <1>9 DEF QueueReturned, smVars, jobVars, sockVars, counters
  <2>2. /\ h \in DOMAIN suspended /\ h.at \notin DuePoints
        /\ suspended' = BagAdd(BagRemove(suspended, h), Waiting("setInactive"))
    BY <1>9 DEF QueueReturned, Pending, Rest, DuePoints, FinishPoints
  <2>3. "setInactive" \in Points
    BY DEF Points
  <2> QED BY <1>a, <2>1, <2>2, <2>3, AsideDue
<1>10. CASE (\E h \in Pending : Rejected(h)) \/ Unhandled \/ (IdleTimeout /\ term)
  <2>1. term' /\ UNCHANGED <<asked, nConnections, socket>>
    BY <1>10 DEF Rejected, Unhandled, Failing, IdleTimeout, otherVars, sockVars, counters
  <2> QED BY <2>1 DEF DueInv
<1>11. CASE Exit \/ Signal \/ UNCHANGED vars
  BY <1>11, AsideDue DEF Exit, Signal, vars, stepVars, smVars, jobVars, sockVars, counters
<1> QED
  BY <1>1, <1>2, <1>3, <1>4, <1>5, <1>6, <1>7, <1>8, <1>9, <1>10, <1>11 DEF Next, Return, Answer, Gone

\* The worker never waits for what will not come: whatever overlaps, something is due
\* that ends the state it is in.
THEOREM SomethingAlwaysDue == Spec => []SomethingIsDue
<1>1. Init => DueInv
  BY DEF Init, DueInv
<1>2. DueInv => SomethingIsDue
  BY DEF DueInv, SomethingIsDue, OnFirst, FinishPoints
<1>3. Init => SetInv
  BY DEF Init, SetInv, StartInv, IdleTimerIsSet, Pending, EmptyBag, SetToBag
<1> QED BY <1>1, <1>2, <1>3, DueStep, SetStep, TypeCorrect, PTL DEF Spec
=============================================================================
