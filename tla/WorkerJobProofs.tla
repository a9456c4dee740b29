-------------------------- MODULE WorkerJobProofs --------------------------
(***************************************************************************)
(* A job is at one place at most, and is acknowledged once: it only moves  *)
(* forward, from the queue to the acknowledgement, and what overwrites a   *)
(* variable that holds it takes a place away.                              *)
(* Without stops, moreover, what finishes a job works for the one in hand, *)
(* records what is stored and not another's output, and the worker keeps   *)
(* the promise of JobLifecycle.                                            *)
(***************************************************************************)
EXTENDS WorkerProofs

\* Bag b2 has no more handlers that take a job, or send it back, than b.
NoMore(b, b2) ==
    \A j \in Jobs : /\ Copies(AtWatch(j), b2) <= Copies(AtWatch(j), b)
                    /\ Copies(AtUnwatch(j), b2) <= Copies(AtUnwatch(j), b)

\* Each job is held or acknowledged no more often than before.
HeldNoMore ==
    \A j \in Jobs : Here(cjob' = j) + acks'[j] <= Here(cjob = j) + acks[j]

LEMMA CopiesType == \A b, h : IsHandlers(b) => Copies(h, b) \in Nat
BY DEF IsHandlers, Copies

LEMMA OtherSuspended ==
    ASSUME NEW b, IsHandlers(b), NEW h \in Handlers, h.at \notin {"job.watch", "job.unwatch"}
    PROVE  NoMore(b, BagAdd(b, h))
<1> SUFFICES ASSUME NEW j \in Jobs
             PROVE  /\ Copies(AtWatch(j), BagAdd(b, h)) <= Copies(AtWatch(j), b)
                    /\ Copies(AtUnwatch(j), BagAdd(b, h)) <= Copies(AtUnwatch(j), b)
  BY DEF NoMore
<1>1. AtWatch(j) # h /\ AtUnwatch(j) # h
  BY DEF AtWatch, AtUnwatch, Handler
<1>2. \A g : Copies(g, BagAdd(b, h)) = Copies(g, b) + IF g = h THEN 1 ELSE 0
  BY SuspendOne
<1>3. Copies(AtWatch(j), b) \in Nat /\ Copies(AtUnwatch(j), b) \in Nat
  BY CopiesType
<1> QED BY <1>1, <1>2, <1>3

LEMMA AnyResumed ==
    ASSUME NEW b, IsHandlers(b), NEW h \in DOMAIN b
    PROVE  NoMore(b, BagRemove(b, h))
BY ResumeOne, CopiesType DEF NoMore

LEMMA NoMoreTrans ==
    ASSUME NEW a, NEW b, NEW c, IsHandlers(a), IsHandlers(b), IsHandlers(c),
           NoMore(a, b), NoMore(b, c)
    PROVE  NoMore(a, c)
BY CopiesType DEF NoMore

LEMMA FewerPlaces ==
    ASSUME TypeOK, TypeOK', OnePlace, UNCHANGED <<queued, slot>>,
           NoMore(suspended, suspended'), HeldNoMore
    PROVE  OnePlace'
<1> SUFFICES ASSUME NEW j \in Jobs PROVE Places(j)' <= 1
  BY DEF OnePlace
<1>1. IsHandlers(suspended) /\ IsHandlers(suspended')
  BY TypeParts, TypePartsNext DEF StepTypeOK
<1>2. /\ Copies(AtWatch(j), suspended) \in Nat /\ Copies(AtUnwatch(j), suspended) \in Nat
      /\ Copies(AtWatch(j), suspended') \in Nat /\ Copies(AtUnwatch(j), suspended') \in Nat
  BY <1>1, CopiesType
<1>3. acks[j] \in Nat /\ acks'[j] \in Nat
  BY DEF TypeOK
<1>4. /\ Copies(AtWatch(j), suspended') <= Copies(AtWatch(j), suspended)
      /\ Copies(AtUnwatch(j), suspended') <= Copies(AtUnwatch(j), suspended)
  BY DEF NoMore
<1>5. Here(cjob' = j) + acks'[j] <= Here(cjob = j) + acks[j]
  BY DEF HeldNoMore
<1>6. Places(j) <= 1
  BY DEF OnePlace
<1> QED BY <1>2, <1>3, <1>4, <1>5, <1>6 DEF Places, Here, AtWatch, AtUnwatch

LEMMA FinishHeld ==
    ASSUME WorkerAssumption, TypeOK, NEW s, NEW c, Finish(s, c)
    PROVE  HeldNoMore
<1>1. NoJob \notin Jobs
  BY DEF WorkerAssumption, NoJob
<1> SUFFICES ASSUME NEW j \in Jobs
             PROVE  Here(cjob' = j) + acks'[j] <= Here(cjob = j) + acks[j]
  BY DEF HeldNoMore
<1>2. acks[j] \in Nat /\ acks \in [Jobs -> Nat]
  BY DEF TypeOK
<1>3. CASE UNCHANGED <<acks, cjob>>
  BY <1>2, <1>3 DEF Here
<1>4. CASE /\ acks' = IF cjob = NoJob THEN acks ELSE [acks EXCEPT ![cjob] = @ + 1]
           /\ cjob' = NoJob
  BY <1>1, <1>2, <1>4 DEF Here
<1> QED BY <1>3, <1>4 DEF Finish

LEMMA TransitHeld ==
    ASSUME WorkerAssumption, TypeOK, NEW t \in Transitions, NEW c, CallOK(c), Transit(t, c)
    PROVE  HeldNoMore
<1>1. CASE UNCHANGED <<jobVars, acks>>
  BY <1>1 DEF HeldNoMore, Here, jobVars, TypeOK
<1> QED BY <1>1, FinishHeld DEF Transit

LEMMA TransitSuspends ==
    ASSUME WorkerAssumption, TypeOK, NEW t \in Transitions, NEW c, CallOK(c), Transit(t, c)
    PROVE  NoMore(c.rest, suspended')
<1> DEFINE s == Target(t, state, DebugMode)
<1>1. IsHandlers(c.rest) /\ s \in States
  BY TargetType DEF CallOK, TypeOK, WorkerAssumption
<1>2. CASE suspended' = c.rest
  BY <1>1, <1>2, CopiesType DEF NoMore
<1>3. CASE Entered(s, c)
  <2>1. ASSUME NEW at \in {"unwatch", "cleanup", "extract", "ready"}, NEW r \in Results,
               NEW j \in Jobs \cup {NoJob}, suspended' = BagAdd(c.rest, Handler(at, r, j))
        PROVE  NoMore(c.rest, suspended')
    <3>1. /\ Handler(at, r, j) \in Handlers
          /\ Handler(at, r, j).at \notin {"job.watch", "job.unwatch"}
      BY HandlerType DEF Points, Handler
    <3> QED BY <1>1, <2>1, <3>1, OtherSuspended
  <2> QED BY <1>1, <1>2, <1>3, <2>1, EnteredSuspends
<1> QED BY <1>2, <1>3 DEF Transit, EnteredUnheard

\* The steps that do not take a job or send it back.
Quiet == UNCHANGED <<queued, slot>> /\ NoMore(suspended, suspended') /\ HeldNoMore

LEMMA RequestingQuiet ==
    ASSUME WorkerAssumption, TypeOK, TypeOK', Requesting, UNCHANGED <<queued, slot>>
    PROVE  Quiet
<1>0. PICK t \in Transitions : \E c : Requests(t, c)
  BY DEF Requesting
<1>1. PICK c : Requests(t, c)
  BY <1>0
<1>2. IsHandlers(suspended) /\ IsHandlers(c.rest) /\ IsHandlers(suspended')
  BY <1>1, TypeParts, TypePartsNext DEF Requests, CallOK, StepTypeOK
<1>3. NoMore(suspended, c.rest)
  BY <1>1, <1>2, RequestRest, AnyResumed, CopiesType DEF Requests, NoMore
<1>4. NoMore(c.rest, suspended')
  BY <1>1, TransitSuspends DEF Requests
<1>5. HeldNoMore
  BY <1>1, TransitHeld DEF Requests
<1> QED BY <1>2, <1>3, <1>4, <1>5, NoMoreTrans DEF Quiet

LEMMA ResumingQuiet ==
    ASSUME WorkerAssumption, TypeOK, UNCHANGED <<queued, slot, cjob, acks>>,
           NEW b, b = suspended \/ \E h \in DOMAIN suspended : b = BagRemove(suspended, h),
           \/ suspended' = b
           \/ \E at \in Points \ {"job.watch", "job.unwatch"}, r \in Results,
                 j \in Jobs \cup {NoJob} : suspended' = BagAdd(b, Handler(at, r, j))
    PROVE  Quiet
<1>1. IsHandlers(suspended)
  BY TypeParts DEF StepTypeOK
<1>2. IsHandlers(b) /\ NoMore(suspended, b)
  BY <1>1, ResumeOne, AnyResumed, CopiesType DEF NoMore
<1>3. HeldNoMore
  BY DEF HeldNoMore, Here, TypeOK
<1>4. CASE suspended' = b
  BY <1>2, <1>3, <1>4 DEF Quiet
<1>5. ASSUME NEW at \in Points \ {"job.watch", "job.unwatch"}, NEW r \in Results,
             NEW j \in Jobs \cup {NoJob}, suspended' = BagAdd(b, Handler(at, r, j))
      PROVE  Quiet
  <2>1. /\ Handler(at, r, j) \in Handlers
        /\ Handler(at, r, j).at \notin {"job.watch", "job.unwatch"}
    BY HandlerType DEF Handler
  <2>2. NoMore(b, suspended') /\ IsHandlers(suspended')
    BY <1>2, <1>5, <2>1, OtherSuspended, SuspendOne
  <2> QED BY <1>1, <1>2, <1>3, <2>2, NoMoreTrans DEF Quiet
<1> QED BY <1>4, <1>5

LEMMA QuietStep ==
    ASSUME WorkerAssumption, TypeOK, TypeOK', [Next]_vars,
           ~ \E j \in Jobs : Deliver(j) \/ JobWatched(j) \/ JobUnwatched(j), ~Poll
    PROVE  Quiet
<1> USE DEF Points, Results, Waiting
<1>1. CASE \/ BootTimeout \/ AlgInitialized \/ AlgDone \/ AlgStopped
           \/ AlgErrorHandled \/ DisconnectHandled
           \/ \E j \in Jobs : ExtractFailed(j) \/ JobUpdated(j)
           \/ CleanedUp \/ StopHandled \/ StopTimeout
           \/ IdleTimeout /\ ~term
  <2>1. UNCHANGED <<queued, slot>>
    BY <1>1 DEF BootTimeout, AlgInitialized, AlgDone, AlgStopped, AlgErrorHandled,
           DisconnectHandled, ExtractFailed, JobUpdated, CleanedUp, StopHandled, StopTimeout,
           IdleTimeout, otherVars
  <2> QED BY <1>1, <2>1, RequestForm, RequestingQuiet
<1>2. CASE InitWorker \/ Connect
  <2>1. UNCHANGED <<queued, slot>>
    BY <1>2 DEF InitWorker, Connect
  <2>2. Still => Quiet
    BY <2>1, ResumingQuiet DEF Still, jobVars
  <2> QED BY <1>2, <2>1, <2>2, BootstrapForm, RequestingQuiet
<1>3. CASE Disconnect \/ AlgError \/ \E j \in Jobs : StopJob(j)
  BY <1>3, ResumingQuiet DEF Disconnect, AlgError, StopJob, jobVars, otherVars
<1>4. CASE ReadyHandled \/ SetInactive \/ \E j \in Jobs : Extracted(j)
  BY <1>4, ResumingQuiet DEF ReadyHandled, SetInactive, Extracted, Resumed, Rest, jobVars, otherVars
<1>5. ASSUME NEW h \in Pending,
             Unwatched(h) \/ ResultStored(h) \/ StoreFailed(h) \/ TaskUpdated(h)
      PROVE  Quiet
  <2>1. h \in DOMAIN suspended /\ h.res \in Results /\ cjob \in Jobs \cup {NoJob}
    BY <1>5 DEF Pending, TypeOK, Handlers
  <2> QED BY <1>5, <2>1, ResumingQuiet DEF Unwatched, ResultStored, StoreFailed, TaskUpdated,
            FinishWith, Rest, jobVars, otherVars
<1>6. CASE (\E b \in BOOLEAN : SetHot(b)) \/ StopProcessing \/ StartProcessing
  BY <1>6, ResumingQuiet DEF SetHot, StopProcessing, StartProcessing, CallQueue, Command, jobVars
<1>7. ASSUME NEW h \in Pending, QueueReturned(h)
      PROVE  Quiet
  BY <1>7, ResumingQuiet DEF QueueReturned, Pending, Rest, jobVars
<1>8. CASE (\E h \in Pending : Rejected(h)) \/ Unhandled
  BY <1>8, ResumingQuiet DEF Rejected, Unhandled, Failing, Rest, jobVars
<1>9. CASE Exit \/ Signal \/ (IdleTimeout /\ term) \/ UNCHANGED vars
  BY <1>9, ResumingQuiet DEF Exit, Signal, IdleTimeout, vars, stepVars, jobVars, otherVars
<1> QED BY <1>1, <1>2, <1>3, <1>4, <1>5, <1>6, <1>7, <1>8, <1>9 DEF Next, Return, Answer, Gone

LEMMA TakingPlaces ==
    ASSUME WorkerAssumption, TypeOK, TypeOK', OnePlace, NEW j \in Jobs,
           Deliver(j) \/ Poll \/ JobWatched(j) \/ JobUnwatched(j)
    PROVE  OnePlace'
<1>1. IsHandlers(suspended) /\ NoJob \notin Jobs
  BY TypeParts DEF StepTypeOK, WorkerAssumption, NoJob
<1> SUFFICES ASSUME NEW k \in Jobs PROVE Places(k)' <= 1
  BY DEF OnePlace
<1>2. /\ Copies(AtWatch(k), suspended) \in Nat /\ Copies(AtUnwatch(k), suspended) \in Nat
      /\ acks[k] \in Nat /\ Places(k) <= 1
  BY <1>1, CopiesType DEF OnePlace, TypeOK
<1>3. /\ \A i \in Jobs : AtWatch(k) = AtWatch(i) <=> k = i
      /\ \A i \in Jobs : AtUnwatch(k) = AtUnwatch(i) <=> k = i
      /\ \A i \in Jobs : AtWatch(k) # AtUnwatch(i)
      /\ \A i \in Jobs : AtWatch(i) \in Handlers /\ AtUnwatch(i) \in Handlers
  BY DEF AtWatch, AtUnwatch, Handler, Handlers, Points, Results
<1>4. CASE Deliver(j)
  <2>1. UNCHANGED <<suspended, cjob, acks>>
    BY <1>4 DEF Deliver, stepVars, jobVars
  <2>2. j \in queued /\ queued' = queued \ {j} /\ slot' = j
    BY <1>4 DEF Deliver
  <2> QED BY <1>2, <2>1, <2>2 DEF Places, Here, AtWatch, AtUnwatch
<1>5. CASE Poll
  <2>1. UNCHANGED <<queued, cjob, acks>> /\ slot' = NoJob /\ slot \in Jobs
    BY <1>5 DEF Poll, jobVars, TypeOK
  <2>2. suspended' = BagAdd(suspended, AtWatch(slot))
    BY <1>5 DEF Poll, AtWatch
  <2>3. \A g : Copies(g, suspended') = Copies(g, suspended) + IF g = AtWatch(slot) THEN 1 ELSE 0
    BY <1>1, <1>3, <2>1, <2>2, SuspendOne
  <2>4. /\ Copies(AtWatch(k), suspended') = Copies(AtWatch(k), suspended) + Here(slot = k)
        /\ Copies(AtUnwatch(k), suspended') = Copies(AtUnwatch(k), suspended)
    <3>1. AtWatch(k) = AtWatch(slot) <=> slot = k
      BY <1>3, <2>1
    <3>2. AtUnwatch(k) # AtWatch(slot)
      BY DEF AtWatch, AtUnwatch, Handler
    <3> QED BY <1>2, <2>3, <3>1, <3>2 DEF Here
  <2> QED BY <1>1, <1>2, <2>1, <2>4 DEF Places, Here, AtWatch, AtUnwatch
<1>6. CASE JobWatched(j)
  <2> DEFINE b == BagRemove(suspended, AtWatch(j))
  <2>1. UNCHANGED <<queued, slot, acks>> /\ AtWatch(j) \in DOMAIN suspended
    BY <1>6 DEF JobWatched, jobVars, otherVars, AtWatch, Resumed
  <2>2. \A g : Copies(g, b) = Copies(g, suspended) - IF g = AtWatch(j) THEN 1 ELSE 0
    BY <1>1, <2>1, ResumeOne
  <2>3. IsHandlers(b)
    BY <1>1, <2>1, ResumeOne
  <2>4. CASE suspended' = BagAdd(b, AtUnwatch(j)) /\ cjob' = cjob
    <3>1. \A g : Copies(g, suspended') = Copies(g, b) + IF g = AtUnwatch(j) THEN 1 ELSE 0
      BY <1>3, <2>3, <2>4, SuspendOne
    <3> QED BY <1>2, <1>3, <2>1, <2>2, <2>4, <3>1 DEF Places, Here, AtWatch, AtUnwatch
  <2>5. CASE suspended' = BagAdd(b, Handler("job.update", "none", j)) /\ cjob' = j
    <3>1. \A i \in Jobs : /\ Handler("job.update", "none", j) # AtWatch(i)
                          /\ Handler("job.update", "none", j) # AtUnwatch(i)
      BY DEF Handler, AtWatch, AtUnwatch
    <3>2. Handler("job.update", "none", j) \in Handlers
      BY DEF Handler, Handlers, Points, Results
    <3>3. /\ Copies(AtWatch(k), suspended') = Copies(AtWatch(k), b)
          /\ Copies(AtUnwatch(k), suspended') = Copies(AtUnwatch(k), b)
      <4>1. \A g : Copies(g, suspended') =
                     Copies(g, b) + IF g = Handler("job.update", "none", j) THEN 1 ELSE 0
        BY <2>3, <2>5, <3>2, SuspendOne
      <4>2. Copies(AtWatch(k), b) \in Nat /\ Copies(AtUnwatch(k), b) \in Nat
        BY <2>3, CopiesType
      <4> QED BY <3>1, <4>1, <4>2
    <3> QED BY <1>2, <1>3, <2>1, <2>2, <2>5, <3>3 DEF Places, Here, AtWatch, AtUnwatch
  <2> QED BY <1>6, <2>4, <2>5 DEF JobWatched, Rest, AtWatch, AtUnwatch
<1>7. CASE JobUnwatched(j)
  <2>1. UNCHANGED <<queued, slot, cjob>> /\ AtUnwatch(j) \in DOMAIN suspended
    BY <1>7 DEF JobUnwatched, jobVars, otherVars, AtUnwatch, Resumed
  <2>2. \A g : Copies(g, suspended') = Copies(g, suspended) - IF g = AtUnwatch(j) THEN 1 ELSE 0
    BY <1>1, <1>7, <2>1, ResumeOne DEF JobUnwatched, Rest, AtUnwatch
  <2>3. acks' = [acks EXCEPT ![j] = @ + 1] /\ acks \in [Jobs -> Nat]
    BY <1>7 DEF JobUnwatched, TypeOK
  <2> QED BY <1>2, <1>3, <2>1, <2>2, <2>3 DEF Places, Here, AtWatch, AtUnwatch
<1> QED BY <1>4, <1>5, <1>6, <1>7

LEMMA InitPlaces == WorkerAssumption /\ Init => OnePlace
<1> SUFFICES ASSUME WorkerAssumption, Init, NEW j \in Jobs PROVE Places(j) <= 1
  BY DEF OnePlace
<1>1. NoJob # j
  BY DEF WorkerAssumption, NoJob
<1>2. \A h : Copies(h, suspended) = 0
  BY DEF Init, EmptyBag, SetToBag, Copies
<1> QED BY <1>1, <1>2 DEF Init, Places, Here

\* A job is at one place: no interleaving of the queue, the provider, the handlers
\* of the consumer, stop requests and transitions takes a job twice.
THEOREM JobAtOnePlace == Spec => []OnePlace
<1>1. Init => OnePlace
  BY InitPlaces, WorkerAssumption
<1>2. TypeOK /\ TypeOK' /\ OnePlace /\ [Next]_vars => OnePlace'
  <2> SUFFICES ASSUME TypeOK, TypeOK', OnePlace, [Next]_vars PROVE OnePlace'
    OBVIOUS
  <2>1. CASE Poll \/ \E j \in Jobs : Deliver(j) \/ JobWatched(j) \/ JobUnwatched(j)
    <3>1. Poll => \E j \in Jobs : TRUE
      BY DEF Poll, TypeOK
    <3> QED BY <2>1, <3>1, TakingPlaces, WorkerAssumption
  <2>2. CASE ~ (Poll \/ \E j \in Jobs : Deliver(j) \/ JobWatched(j) \/ JobUnwatched(j))
    BY <2>2, QuietStep, FewerPlaces, WorkerAssumption DEF Quiet
  <2> QED BY <2>1, <2>2
<1> QED BY <1>1, <1>2, TypeCorrect, PTL DEF Spec

\* No job is acknowledged to the queue twice.
THEOREM AcknowledgedOnce == Spec => []AckedOnce
<1>1. TypeOK /\ OnePlace => AckedOnce
  <2> SUFFICES ASSUME TypeOK, OnePlace, NEW j \in Jobs PROVE acks[j] <= 1
    BY DEF AckedOnce
  <2>1. /\ Copies(AtWatch(j), suspended) \in Nat /\ Copies(AtUnwatch(j), suspended) \in Nat
        /\ acks[j] \in Nat /\ Places(j) <= 1
    BY TypeParts, CopiesType DEF StepTypeOK, OnePlace
  <2> QED BY <2>1 DEF Places, Here
<1> QED BY <1>1, TypeCorrect, JobAtOnePlace, PTL

-----------------------------------------------------------------------------
(***************************************************************************)
(* The job in hand, as long as no stop request came in.  A handler that    *)
(* finishes a job is the only one of its kind and works for the job that   *)
(* the consumer holds, in results or exit; a handler that has a task       *)
(* recorded as active works for that job too, in ready or exit.            *)
(***************************************************************************)
Finishing == {"unwatch", "put", "update"}
Closing == Finishing \cup {"cleanup"}

\* A job has left the queue and is not acknowledged: there is one at most.
OneInHand == \A j, k \in Jobs \ queued : acks[j] = 0 /\ acks[k] = 0 => j = k

\* The provider polls from the first ready on.
ReadySeen ==
    /\ isReady => state # "bootstrap"
    /\ \A h \in Pending : h.at = "job.watch" => isReady
    /\ ~isReady => cjob = NoJob

\* Nothing of a stop is there.
NoStop ==
    /\ state \notin {"stop", "shutdown", "error"}
    /\ \A h \in Pending : h.at \notin {"stop", "job.unwatch"}
    /\ ~stopTimer /\ lostTimers = 0 /\ "stop" \notin asked

Held ==
    /\ state \in {"init", "working", "results"} => cjob # NoJob
    /\ \A h \in Pending : h.at \in Closing =>
          /\ state \in {"results", "exit"} /\ cjob # NoJob /\ suspended[h] = 1
          /\ h.at = "cleanup" \/ h.job = cjob
          /\ \A g \in Pending : g.at \in Closing => g = h
    /\ \A h \in Pending : h.at = "job.update" =>
          state \in {"ready", "exit"} /\ cjob # NoJob /\ h = AtUpdate(cjob) /\ suspended[h] = 1

HandInv == stopped = {} => ReadySeen /\ NoStop /\ Held

\* A handler that is the only one of its kind goes on.
LEMMA LastResumed ==
    ASSUME NEW a, IsHandlers(a), NEW K, NEW h \in DOMAIN a, a[h] = 1,
           \A g \in DOMAIN a : g.at \in K => g = h
    PROVE  /\ IsHandlers(BagRemove(a, h))
           /\ \A g \in DOMAIN BagRemove(a, h) : /\ g.at \notin K
                                               /\ g \in DOMAIN a /\ BagRemove(a, h)[g] = a[g]
BY DEF IsHandlers, BagRemove

\* A handler of a kind is suspended when there is none of it.
LEMMA FirstSuspended ==
    ASSUME NEW b, IsHandlers(b), NEW K, NEW h \in Handlers, h.at \in K,
           \A g \in DOMAIN b : g.at \notin K
    PROVE  /\ DOMAIN BagAdd(b, h) = DOMAIN b \cup {h} /\ h \notin DOMAIN b
           /\ BagAdd(b, h)[h] = 1
           /\ \A g \in DOMAIN b : BagAdd(b, h)[g] = b[g]
           /\ \A g \in DOMAIN BagAdd(b, h) : g.at \in K => g = h
BY DEF IsHandlers, BagAdd

\* Steps that leave the job in hand alone: they may end the worker, and resume or
\* suspend handlers that are not about the job.
JobPoints == {"job.unwatch", "job.update", "stop"} \cup Closing
Waits(j) == j \in queued \/ slot = j \/ AtWatch(j) \in Pending
Aside ==
    /\ state' \in {state, "exit"} /\ UNCHANGED <<cjob, isReady, acks, task, stored>>
    /\ FewerIn(JobPoints, suspended, suspended')
    /\ \A h \in DOMAIN suspended' : h.at = "job.watch" =>
          isReady \/ \E g \in DOMAIN suspended : g.at = "job.watch"
    /\ \A j \in Jobs : Waits(j)' => Waits(j)
    /\ \/ asked' \subseteq asked /\ algInput' = algInput
       \/ asked' = asked \cup {"initialize"} /\ algInput' \in Jobs
    /\ stopTimer' => stopTimer
    /\ lostTimers' <= lostTimers

LEMMA AsideHand ==
    ASSUME TypeOK, TypeOK', ReadySeen, NoStop, Held, state' \in {state, "exit"},
           UNCHANGED <<cjob, isReady>>, FewerIn(JobPoints, suspended, suspended'),
           \A h \in DOMAIN suspended' : h.at = "job.watch" =>
              isReady \/ \E g \in DOMAIN suspended : g.at = "job.watch",
           asked' \subseteq asked \cup {"initialize"}, stopTimer' => stopTimer,
           lostTimers' <= lostTimers
    PROVE  ReadySeen' /\ NoStop' /\ Held'
<1>1. IsHandlers(suspended) /\ IsHandlers(suspended')
  BY TypeParts, TypePartsNext DEF StepTypeOK
<1>2. ReadySeen'
  BY DEF ReadySeen, Pending
<1>3. NoStop'
  BY DEF NoStop, FewerIn, JobPoints, Pending, TypeOK
<1>4. Held'
  <2>1. \A h \in DOMAIN suspended' : h.at \in JobPoints =>
           h \in DOMAIN suspended /\ (suspended[h] = 1 => suspended'[h] = 1)
    BY <1>1 DEF FewerIn, IsHandlers
  <2> QED BY <2>1 DEF Held, JobPoints, Pending, AtUpdate
<1> QED BY <1>2, <1>3, <1>4

\* The consumer takes a job: it held none, and no handler was at work for one.
LEMMA TakingFree ==
    ASSUME WorkerAssumption, TypeOK, OnePlace, OneInHand, NEW j \in Jobs,
           AtWatch(j) \in DOMAIN suspended
    PROVE  cjob = NoJob
<1>1. IsHandlers(suspended)
  BY TypeParts DEF StepTypeOK
<1>2. ASSUME NEW k \in Jobs
      PROVE  /\ Places(k) <= 1 /\ acks[k] \in Nat
             /\ Copies(AtWatch(k), suspended) \in Nat /\ Copies(AtUnwatch(k), suspended) \in Nat
  BY <1>1, CopiesType DEF TypeOK, OnePlace
<1>3. Copies(AtWatch(j), suspended) >= 1
  BY <1>1 DEF Copies, IsHandlers
<1>4. cjob # j /\ acks[j] = 0 /\ j \notin queued
  <2>1. /\ Places(j) <= 1 /\ acks[j] \in Nat /\ Copies(AtWatch(j), suspended) \in Nat
        /\ Copies(AtUnwatch(j), suspended) \in Nat
    BY <1>2
  <2> QED BY <1>3, <2>1 DEF Places, Here, AtWatch, AtUnwatch
<1>5. ASSUME cjob \in Jobs
      PROVE  FALSE
  <2>1. acks[cjob] = 0 /\ cjob \notin queued
    <3>1. /\ Places(cjob) <= 1 /\ acks[cjob] \in Nat /\ Copies(AtWatch(cjob), suspended) \in Nat
          /\ Copies(AtUnwatch(cjob), suspended) \in Nat
      BY <1>2, <1>5
    <3> QED BY <3>1 DEF Places, Here, AtWatch, AtUnwatch
  <2> QED BY <1>4, <1>5, <2>1 DEF OneInHand
<1> QED BY <1>5 DEF TypeOK

LEMMA WatchedHand ==
    ASSUME WorkerAssumption, TypeOK, TypeOK', OnePlace, OneInHand, ReadySeen, NoStop, Held,
           NEW j \in Jobs, JobWatched(j), stopped = {}
    PROVE  ReadySeen' /\ NoStop' /\ Held'
<1> DEFINE h == AtWatch(j)
           b == BagRemove(suspended, h)
<1>1. IsHandlers(suspended) /\ h \in DOMAIN suspended /\ AtUpdate(j) \in Handlers
  BY TypeParts, HandlerType DEF StepTypeOK, JobWatched, Resumed, AtWatch, AtUpdate, Points, Results
<1>2. cjob = NoJob /\ NoJob \notin Jobs
  BY <1>1, TakingFree DEF WorkerAssumption, NoJob
<1>3. /\ suspended' = BagAdd(b, AtUpdate(j)) /\ cjob' = j
      /\ UNCHANGED <<state, isReady, asked, stopTimer, lostTimers>>
  BY DEF JobWatched, Rest, AtUpdate, AtWatch, smVars
<1>4. IsHandlers(b) /\ DOMAIN b \subseteq DOMAIN suspended
  BY <1>1, ResumeOne
<1>5. \A g \in DOMAIN b : g.at \notin Closing \cup {"job.update"}
  BY <1>2, <1>4 DEF Held, Pending
<1>6. AtUpdate(j).at = "job.update" /\ h.at = "job.watch"
  BY DEF AtUpdate, AtWatch, Handler
<1>7. /\ DOMAIN suspended' = DOMAIN b \cup {AtUpdate(j)} /\ suspended'[AtUpdate(j)] = 1
  <2>1. \A g \in DOMAIN b : g.at \notin {"job.update"}
    BY <1>5
  <2>2. AtUpdate(j).at \in {"job.update"}
    BY <1>6
  <2>3. /\ DOMAIN BagAdd(b, AtUpdate(j)) = DOMAIN b \cup {AtUpdate(j)}
        /\ BagAdd(b, AtUpdate(j))[AtUpdate(j)] = 1
    <3> HIDE DEF b
    <3> QED BY <1>1, <1>4, <2>1, <2>2, FirstSuspended
  <2> QED BY <1>3, <2>3
<1>8. state \in {"ready", "exit"} /\ isReady
  <2>1. isReady /\ state # "bootstrap"
    BY <1>1, <1>6 DEF ReadySeen, Pending
  <2> QED BY <1>2, <2>1 DEF Held, NoStop, TypeOK, States
<1>9. ReadySeen'
  BY <1>3, <1>8 DEF ReadySeen
<1>10. NoStop'
  BY <1>3, <1>4, <1>6, <1>7 DEF NoStop, Pending
<1>11. Held'
  BY <1>2, <1>3, <1>5, <1>6, <1>7, <1>8 DEF Held, Pending, AtUpdate, Closing, Finishing
<1> QED BY <1>9, <1>10, <1>11

\* A step of finishJob hands over to the next one, for the same job.
FinishStep(h) == Unwatched(h) \/ ResultStored(h) \/ StoreFailed(h) \/ TaskUpdated(h)

LEMMA FinishForm ==
    ASSUME TypeOK, Held, NEW h \in Pending, FinishStep(h)
    PROVE  /\ h.at \in Finishing /\ h.job = cjob /\ h.res \in Results
           /\ UNCHANGED <<state, cjob, isReady, asked, stopTimer, lostTimers, acks, slot, queued,
                          algInput, stopped>>
           /\ \E g \in Handlers :
                 /\ suspended' = BagAdd(BagRemove(suspended, h), g)
                 /\ \/ Unwatched(h) /\ h.res # "error" /\ g = Handler("put", h.res, cjob)
                    \/ Unwatched(h) /\ h.res = "error" /\ g = Handler("update", h.res, cjob)
                    \/ ResultStored(h) /\ g = Handler("update", h.res, cjob)
                    \/ StoreFailed(h) /\ g = Handler("update", "error", cjob)
                    \/ TaskUpdated(h) /\ g = Waiting("cleanup")
<1>1. h.at \in Finishing
  BY DEF FinishStep, Unwatched, ResultStored, StoreFailed, TaskUpdated, Finishing
<1>2. h.job = cjob /\ cjob # NoJob /\ h.res \in Results /\ cjob \in Jobs
  BY <1>1 DEF Held, Finishing, Closing, TypeOK, Handlers, Pending
<1>3. UNCHANGED <<state, cjob, isReady, asked, stopTimer, lostTimers, acks, slot, queued,
                  algInput, stopped>>
  BY DEF FinishStep, Unwatched, ResultStored, StoreFailed, TaskUpdated, FinishWith, smVars,
     jobVars, otherVars, etcdVars
<1>4. \A at \in {"put", "update", "cleanup"}, r \in Results : Handler(at, r, cjob) \in Handlers
  BY <1>2, HandlerType DEF Points
<1>5. Waiting("cleanup") \in Handlers /\ "error" \in Results
  BY HandlerType DEF Points, Results
<1> DEFINE b == BagRemove(suspended, h)
<1>6. CASE Unwatched(h) /\ h.res # "error"
  <2>1. suspended' = BagAdd(b, Handler("put", h.res, cjob))
    BY <1>2, <1>6 DEF Unwatched, FinishWith, Rest
  <2> QED BY <1>2, <1>3, <1>1, <1>4, <1>6, <2>1
<1>7. CASE Unwatched(h) /\ h.res = "error"
  <2>1. suspended' = BagAdd(b, Handler("update", h.res, cjob))
    BY <1>2, <1>7 DEF Unwatched, FinishWith, Rest
  <2> QED BY <1>2, <1>3, <1>1, <1>4, <1>7, <2>1
<1>8. CASE ResultStored(h)
  <2>1. suspended' = BagAdd(b, Handler("update", h.res, cjob))
    BY <1>2, <1>8 DEF ResultStored, FinishWith, Rest
  <2> QED BY <1>2, <1>3, <1>1, <1>4, <1>8, <2>1
<1>9. CASE StoreFailed(h)
  <2>1. suspended' = BagAdd(b, Handler("update", "error", cjob))
    BY <1>2, <1>9 DEF StoreFailed, FinishWith, Rest
  <2> QED BY <1>2, <1>3, <1>1, <1>4, <1>5, <1>9, <2>1
<1>10. CASE TaskUpdated(h)
  <2>1. suspended' = BagAdd(b, Waiting("cleanup"))
    BY <1>10 DEF TaskUpdated, Rest
  <2> QED BY <1>2, <1>3, <1>1, <1>5, <1>10, <2>1
<1> QED BY <1>6, <1>7, <1>8, <1>9, <1>10 DEF FinishStep

LEMMA FinishHand ==
    ASSUME TypeOK, TypeOK', ReadySeen, NoStop, Held, NEW h \in Pending, FinishStep(h)
    PROVE  ReadySeen' /\ NoStop' /\ Held'
<1> DEFINE b == BagRemove(suspended, h)
<1>1. /\ h.at \in Closing /\ cjob # NoJob /\ h \in DOMAIN suspended
      /\ UNCHANGED <<state, cjob, isReady, asked, stopTimer, lostTimers>>
  BY FinishForm DEF Closing, Held, Pending
<1>2. PICK g \in Handlers :
         suspended' = BagAdd(b, g) /\ g.at \in Closing /\ (g.at = "cleanup" \/ g.job = cjob)
  BY FinishForm DEF Handler, Waiting, Closing, Finishing
<1>3. IsHandlers(suspended) /\ state \in {"results", "exit"} /\ suspended[h] = 1
  BY <1>1, TypeParts DEF StepTypeOK, Held, Pending
<1>4. /\ IsHandlers(b)
      /\ \A f \in DOMAIN b : f.at \notin Closing /\ f \in DOMAIN suspended /\ b[f] = suspended[f]
  BY <1>1, <1>3, LastResumed DEF Held, Pending
<1>5. /\ DOMAIN suspended' = DOMAIN b \cup {g} /\ suspended'[g] = 1
      /\ \A f \in DOMAIN b : suspended'[f] = b[f]
  BY <1>2, <1>4, FirstSuspended
<1>6. g.at \notin {"job.watch", "job.unwatch", "job.update", "stop"}
  BY <1>2 DEF Closing, Finishing
<1>7. ReadySeen'
  BY <1>1, <1>4, <1>5, <1>6 DEF ReadySeen, Pending
<1>8. NoStop'
  BY <1>1, <1>4, <1>5, <1>6 DEF NoStop, Pending
<1>9. Held'
  BY <1>1, <1>2, <1>3, <1>4, <1>5, <1>6 DEF Held, Pending, AtUpdate
<1> QED BY <1>7, <1>8, <1>9

\* What the states that are entered leave waiting.
LEMMA TakenSuspends ==
    ASSUME TypeOK, NEW t \in Transitions, NEW c, Requests(t, c), state \in From[t]
    PROVE  \/ suspended' = c.rest
           \/ t = "done" /\ cjob # NoJob /\ suspended' = BagAdd(c.rest, Handler("unwatch", c.res, cjob))
           \/ t = "done" /\ cjob = NoJob /\ suspended' = BagAdd(c.rest, Waiting("cleanup"))
           \/ t = "prepare" /\ suspended' = BagAdd(c.rest, Handler("extract", "none", c.job))
           \/ t \in {"bootstrap", "cleanup"} /\ suspended' = BagAdd(c.rest, Waiting("ready"))
<1>1. CASE EnteredUnheard(To[t], c)
  BY <1>1 DEF EnteredUnheard
<1>2. CASE Entered(To[t], c)
  <2>1. /\ To[t] = "results" <=> t = "done"
        /\ To[t] = "init" <=> t = "prepare"
        /\ To[t] = "ready" <=> t \in {"bootstrap", "cleanup"}
    BY DEF To, Transitions
  <2>2. CASE t = "done"
    BY <1>2, <2>1, <2>2 DEF Entered
  <2>3. CASE t = "prepare"
    BY <1>2, <2>1, <2>3 DEF Entered
  <2>4. CASE t \in {"bootstrap", "cleanup"}
    BY <1>2, <2>1, <2>4 DEF Entered
  <2>5. CASE t \notin {"done", "prepare", "bootstrap", "cleanup"}
    BY <1>2, <2>1, <2>5 DEF Entered
  <2> QED BY <2>2, <2>3, <2>4, <2>5
<1> QED BY <1>1, <1>2, RequestTaken

\* Without a stop the machine takes these transitions, for these reasons.
LEMMA TakenCause ==
    ASSUME TypeOK, NoStop, NEW t \in Transitions \ {"exit"}, NEW c, Requests(t, c), state \in From[t]
    PROVE  \/ t = "bootstrap" /\ state = "bootstrap" /\ state' = "ready" /\ c.rest = suspended
           \/ /\ t = "prepare" /\ state = "ready" /\ state' = "init" /\ c.job \in Jobs
              /\ AtUpdate(c.job) \in DOMAIN suspended
              /\ c.rest = BagRemove(suspended, AtUpdate(c.job))
           \/ t = "start" /\ state = "init" /\ state' = "working" /\ c.rest = suspended
           \/ t = "done" /\ state \in {"init", "working"} /\ state' = "results"
           \/ /\ t = "cleanup" /\ state = "results" /\ state' = "ready"
              /\ Waiting("cleanup") \in DOMAIN suspended
              /\ c.rest = BagRemove(suspended, Waiting("cleanup"))
<1>1. Cause(t, c) /\ state' = To[t]
  BY RequestTaken DEF Requests
<1>2. t # "stop"
  BY <1>1 DEF Cause, Resumes, NoStop, Pending, Waiting, Handler
<1>3. CASE t = "bootstrap"
  BY <1>1, <1>3 DEF Cause, From, To
<1>4. CASE t = "prepare"
  BY <1>1, <1>4 DEF Cause, Resumes, From, To
<1>5. CASE t = "start"
  BY <1>1, <1>5 DEF Cause, From, To
<1>6. CASE t = "done"
  BY <1>1, <1>6 DEF From, To, NoStop
<1>7. CASE t = "cleanup"
  BY <1>1, <1>7 DEF Cause, Resumes, From, To
<1> QED BY <1>2, <1>3, <1>4, <1>5, <1>6, <1>7 DEF Transitions

LEMMA CauseAsked == ASSUME NEW t, NEW c, Cause(t, c) PROVE c.asked \subseteq asked
BY DEF Cause, Resumes

LEMMA TakenNoStop ==
    ASSUME WorkerAssumption, TypeOK, TypeOK', ReadySeen, NoStop, NEW t \in Transitions \ {"exit"},
           NEW c, Requests(t, c), state \in From[t]
    PROVE  ReadySeen' /\ NoStop'
<1>1. state' \in {"ready", "init", "working", "results"} /\ state' = To[t]
  BY TakenCause, RequestTaken
<1>2. FewerIn(Points \ Entering, suspended, suspended')
  BY RequestMoves
<1>3. cjob' \in {cjob, NoJob}
  BY RequestTaken DEF Finish
<1>4. isReady' = (isReady \/ state' = "ready")
  BY <1>1, RequestTaken DEF Entered, EnteredUnheard
<1>5. asked' \subseteq asked \cup {"start"}
  BY <1>1, RequestTaken, CauseAsked DEF Entered, EnteredUnheard, CommandOf, Requests
<1>6. ~stopTimer' /\ lostTimers' = 0
  <2>1. c.stopTimer = FALSE /\ c.lostTimers = 0
    BY DEF Requests, CallOK, NoStop
  <2>2. CASE Entered(To[t], c)
    <3>1. Timers(To[t], c)
      BY <2>2 DEF Entered
    <3>2. To[t] # "stop"
      BY <1>1
    <3>3. ~stopTimer'
      BY <2>1, <3>1, <3>2, Zenon DEF Timers
    <3>4. lostTimers' = c.lostTimers + 0
      BY <3>1, <3>2 DEF Timers
    <3> QED BY <2>1, <3>3, <3>4
  <2>3. CASE EnteredUnheard(To[t], c)
    BY <2>1, <2>3 DEF EnteredUnheard
  <2> QED BY <2>2, <2>3, RequestTaken
<1>7. ReadySeen'
  BY <1>1, <1>2, <1>3, <1>4 DEF ReadySeen, FewerIn, Pending, Points, Entering
<1>8. NoStop'
  BY <1>1, <1>2, <1>5, <1>6 DEF NoStop, FewerIn, Pending, Points, Entering
<1> QED BY <1>7, <1>8

LEMMA TakenHeld ==
    ASSUME WorkerAssumption, TypeOK, TypeOK', NoStop, Held, NEW t \in Transitions \ {"exit"},
           NEW c, Requests(t, c), state \in From[t]
    PROVE  Held'
<1> DEFINE K == Closing \cup {"job.update"}
<1>a. IsHandlers(suspended) /\ IsHandlers(c.rest) /\ c.res \in Results /\ c.job \in Jobs \cup {NoJob}
  BY TypeParts DEF StepTypeOK, Requests, CallOK
<1>b. /\ Finish(To[t], c) /\ state' = To[t]
  BY RequestTaken
<1>c. /\ Handler("extract", "none", c.job) \in Handlers /\ Waiting("ready") \in Handlers
      /\ Handler("extract", "none", c.job).at \notin K /\ Waiting("ready").at \notin K
  BY <1>a, HandlerType DEF Points, Results, Handler, Waiting, Closing, Finishing
<1>1. CASE t # "done" /\ \A h \in DOMAIN c.rest : h.at \notin K
  <2>1. \A h \in DOMAIN suspended' : h.at \notin K
    <3>1. suspended' = c.rest \/ \E h \in Handlers : h.at \notin K /\ suspended' = BagAdd(c.rest, h)
      BY <1>1, <1>c, TakenSuspends
    <3>2. FewerIn(K, c.rest, suspended')
      BY <1>a, <3>1, Fewer
    <3> QED BY <1>1, <3>2 DEF FewerIn
  <2>2. state' \in {"init", "working", "results"} => cjob' # NoJob
    <3>1. CASE t = "prepare"
      <4>1. cjob # NoJob /\ state' = "init"
        BY <3>1, TakenCause DEF Held, Pending, AtUpdate, Handler
      <4> QED BY <1>b, <4>1 DEF Finish
    <3>2. CASE t = "start"
      <4>1. cjob # NoJob /\ state' = "working"
        BY <3>2, TakenCause DEF Held
      <4> QED BY <1>b, <4>1 DEF Finish
    <3>3. CASE t \notin {"prepare", "start"}
      <4>1. state' = "ready"
        BY <1>1, <3>3, TakenCause
      <4> QED BY <4>1
    <3> QED BY <3>1, <3>2, <3>3
  <2> QED BY <2>1, <2>2 DEF Held, Pending
<1>2. CASE t \in {"bootstrap", "start"}
  <2>1. c.rest = suspended /\ state \in {"bootstrap", "init"}
    BY <1>2, TakenCause
  <2>2. \A h \in DOMAIN suspended : h.at \notin K
    BY <2>1 DEF Held, Pending
  <2> QED BY <1>1, <1>2, <2>1, <2>2
<1>3. CASE t = "prepare"
  <2> DEFINE h == AtUpdate(c.job)
  <2>1. state = "ready" /\ h \in DOMAIN suspended /\ c.rest = BagRemove(suspended, h)
    BY <1>3, TakenCause
  <2>2. h.at = "job.update"
    BY DEF AtUpdate, Handler
  <2>3. suspended[h] = 1 /\ \A g \in DOMAIN suspended : g.at \in K => g = h
    BY <2>1, <2>2 DEF Held, Pending
  <2>4. \A g \in DOMAIN c.rest : g.at \notin K
    <3> HIDE DEF h, K
    <3> QED BY <1>a, <2>1, <2>3, LastResumed
  <2> QED BY <1>1, <1>3, <2>4
<1>4. CASE t = "cleanup"
  <2> DEFINE h == Waiting("cleanup")
  <2>1. state = "results" /\ h \in DOMAIN suspended /\ c.rest = BagRemove(suspended, h)
    BY <1>4, TakenCause
  <2>2. h.at = "cleanup"
    BY DEF Waiting, Handler
  <2>3. suspended[h] = 1 /\ \A g \in DOMAIN suspended : g.at \in K => g = h
    BY <2>1, <2>2 DEF Held, Pending, Closing
  <2>4. \A g \in DOMAIN c.rest : g.at \notin K
    <3> HIDE DEF h, K
    <3> QED BY <1>a, <2>1, <2>3, LastResumed
  <2> QED BY <1>1, <1>4, <2>4
<1>5. CASE t = "done"
  <2>1. state \in {"init", "working"} /\ state' = "results" /\ cjob # NoJob
    BY <1>5, TakenCause DEF Held
  <2>2. cjob' = cjob /\ cjob \in Jobs
    BY <1>b, <2>1 DEF Finish, TypeOK
  <2>3. \A g \in DOMAIN suspended : g.at \notin K
    BY <2>1 DEF Held, Pending
  <2>4. \A g \in DOMAIN c.rest : g.at \notin K
    <3>1. c.rest = suspended \/ \E g \in DOMAIN suspended : c.rest = BagRemove(suspended, g)
      BY RequestRest DEF Requests
    <3>2. FewerIn(K, suspended, c.rest)
      BY <1>a, <3>1, Fewer
    <3> QED BY <2>3, <3>2 DEF FewerIn
  <2> DEFINE h == Handler("unwatch", c.res, cjob)
  <2>5. h \in Handlers /\ h.at = "unwatch" /\ h.job = cjob
    BY <1>a, <2>2, HandlerType DEF Points, Handler
  <2>6. CASE suspended' = c.rest
    BY <2>1, <2>2, <2>4, <2>6 DEF Held, Pending
  <2>7. CASE suspended' = BagAdd(c.rest, h)
    <3>1. h.at \in K
      BY <2>5 DEF Closing, Finishing
    <3>2. /\ \A g \in DOMAIN suspended' : g.at \in K => g = h
          /\ suspended'[h] = 1
      <4> HIDE DEF h, K
      <4> QED BY <1>a, <2>4, <2>5, <2>7, <3>1, FirstSuspended
    <3> QED BY <2>1, <2>2, <2>5, <3>2 DEF Held, Pending
  <2> QED BY <1>5, <2>1, <2>6, <2>7, TakenSuspends
<1> QED BY <1>2, <1>3, <1>4, <1>5, TakenCause

LEMMA ResumingAside ==
    ASSUME TypeOK, UNCHANGED <<state, cjob, isReady, acks, task, stored, stopTimer, lostTimers,
                               slot, queued>>,
           \/ asked' \subseteq asked /\ algInput' = algInput
           \/ asked' = asked \cup {"initialize"} /\ algInput' \in Jobs,
           NEW b, b = suspended \/ \E h \in DOMAIN suspended : b = BagRemove(suspended, h),
           \/ suspended' = b
           \/ \E at \in Points \ (JobPoints \cup {"job.watch"}), r \in Results,
                 j \in Jobs \cup {NoJob} : suspended' = BagAdd(b, Handler(at, r, j))
    PROVE  Aside
<1> DEFINE K == JobPoints \cup {"job.watch"}
<1>1. IsHandlers(suspended)
  BY TypeParts DEF StepTypeOK
<1>2. suspended' = b \/ \E h \in Handlers : h.at \notin K /\ suspended' = BagAdd(b, h)
  <2>1. \A at \in Points, r \in Results, j \in Jobs \cup {NoJob} :
           Handler(at, r, j) \in Handlers /\ Handler(at, r, j).at = at
    BY HandlerType DEF Handler
  <2> QED BY <2>1
<1>3. FewerIn(K, suspended, suspended')
  <2> HIDE DEF K
  <2> QED BY <1>1, <1>2, Fewer
<1>4. \A j \in Jobs : Waits(j)' => Waits(j)
  BY <1>3 DEF FewerIn, Waits, AtWatch, Handler, Pending
<1> QED BY <1>3, <1>4 DEF Aside, FewerIn, TypeOK

\* The queue hands a job to the provider, and the provider to the consumer.
LEMMA MovingAside ==
    ASSUME WorkerAssumption, TypeOK, Poll \/ \E j \in Jobs : Deliver(j)
    PROVE  Aside
<1>1. /\ UNCHANGED <<state, cjob, isReady, acks, task, stored, stopTimer, lostTimers, asked, algInput>>
      /\ IsHandlers(suspended)
  BY TypeParts DEF StepTypeOK, Poll, Deliver, etcdVars, stepVars, smVars, jobVars
<1>2. CASE Poll
  <2>1. /\ suspended' = BagAdd(suspended, AtWatch(slot)) /\ slot \in Jobs /\ isReady
        /\ queued' = queued /\ slot' = NoJob
    BY <1>2 DEF Poll, AtWatch, TypeOK
  <2>2. AtWatch(slot) \in Handlers /\ AtWatch(slot).at = "job.watch"
    BY <2>1, HandlerType DEF AtWatch, Handler, Points, Results
  <2>3. FewerIn(JobPoints, suspended, suspended')
    BY <1>1, <2>1, <2>2, Fewer DEF JobPoints, Closing, Finishing
  <2>4. DOMAIN suspended' = DOMAIN suspended \cup {AtWatch(slot)}
    BY <1>1, <2>1, <2>2, SuspendOne
  <2>5. \A j \in Jobs : Waits(j)' => Waits(j)
    BY <2>1, <2>4 DEF Waits, Pending, AtWatch, Handler, WorkerAssumption, NoJob
  <2> QED BY <1>1, <2>1, <2>3, <2>5 DEF Aside, TypeOK
<1>3. ASSUME NEW j \in Jobs, Deliver(j)
      PROVE  Aside
  <2>1. suspended' = suspended /\ j \in queued /\ queued' = queued \ {j} /\ slot' = j
    BY <1>3 DEF Deliver, stepVars
  <2>2. \A k \in Jobs : Waits(k)' => Waits(k)
    BY <2>1 DEF Waits, Pending, AtWatch, Handler
  <2> QED BY <1>1, <2>1, <2>2 DEF Aside, FewerIn, TypeOK, IsHandlers
<1> QED BY <1>2, <1>3

LEMMA RefusedAside ==
    ASSUME WorkerAssumption, TypeOK, NEW t \in Transitions, NEW c, Requests(t, c),
           state \notin From[t] \/ t = "exit"
    PROVE  (task' = task => Aside) /\ (t # "prepare" => task' = task)
<1>1. /\ state' \in {state, "exit"}
      /\ UNCHANGED <<cjob, isReady, acks, stored, slot, queued, algInput>>
      /\ suspended' = c.rest /\ asked' = c.asked
      /\ stopTimer' = c.stopTimer /\ lostTimers' = c.lostTimers
      /\ t # "prepare" => task' = task
  BY RequestRefused DEF Requests, Leaves
<1>2. IsHandlers(suspended)
  BY TypeParts DEF StepTypeOK
<1>3. FewerIn(JobPoints \cup {"job.watch"}, suspended, suspended')
  BY <1>1, <1>2, RequestRest, Fewer DEF Requests
<1>4. asked' \subseteq asked
  BY <1>1, CauseAsked DEF Requests
<1>5. (stopTimer' => stopTimer) /\ lostTimers' <= lostTimers
  BY <1>1 DEF Requests
<1>6. \A j \in Jobs : Waits(j)' => Waits(j)
  BY <1>1, <1>3 DEF FewerIn, Waits, AtWatch, Handler, Pending
<1> QED BY <1>1, <1>3, <1>4, <1>5, <1>6 DEF Aside, FewerIn

\* The kinds of steps there are, for the job in hand, when no stop request comes.
Taken == \E t \in Transitions \ {"exit"} : \E c : Requests(t, c) /\ state \in From[t]
RefusedPrepare == \E c : Requests("prepare", c) /\ state # "ready"

LEMMA RequestingJob ==
    ASSUME WorkerAssumption, TypeOK, Requesting
    PROVE  Aside \/ Taken \/ RefusedPrepare
<1>0. PICK t \in Transitions : \E c : Requests(t, c)
  BY DEF Requesting
<1>1. PICK c : Requests(t, c)
  BY <1>0
<1>2. CASE state \in From[t] /\ t # "exit"
  BY <1>1, <1>2 DEF Taken
<1>3. CASE (state \notin From[t] \/ t = "exit") /\ t # "prepare"
  BY <1>1, <1>3, RefusedAside
<1>4. CASE state \notin From[t] /\ t = "prepare"
  BY <1>1, <1>4 DEF RefusedPrepare, From
<1> QED BY <1>2, <1>3, <1>4

LEMMA JobStep ==
    ASSUME WorkerAssumption, TypeOK, [Next]_vars, NoStop
    PROVE  \/ Aside /\ stopped' = stopped
           \/ Taken /\ stopped' = stopped
           \/ RefusedPrepare /\ stopped' = stopped
           \/ \E j \in Jobs : JobWatched(j)
           \/ \E h \in Pending : FinishStep(h)
           \/ \E j \in Jobs : StopJob(j)
<1>b. /\ \A at \in Points : Waiting(at) = Handler(at, "none", NoJob)
      /\ "none" \in Results /\ "error" \in Results /\ NoJob \in Jobs \cup {NoJob}
  BY DEF Waiting, Results
<1>1. CASE \/ BootTimeout \/ AlgInitialized \/ AlgDone \/ AlgStopped
           \/ AlgErrorHandled \/ DisconnectHandled
           \/ \E j \in Jobs : ExtractFailed(j) \/ JobUpdated(j)
           \/ CleanedUp \/ StopHandled \/ StopTimeout
           \/ IdleTimeout /\ ~term
  <2>1. stopped' = stopped
    BY <1>1 DEF BootTimeout, AlgInitialized, AlgDone, AlgStopped, AlgErrorHandled,
           DisconnectHandled, ExtractFailed, JobUpdated, CleanedUp, StopHandled, StopTimeout,
           IdleTimeout, etcdVars
  <2> QED BY <1>1, <2>1, RequestForm, RequestingJob
<1>2. CASE InitWorker \/ Connect
  <2>1. UNCHANGED <<stopped, task, stored, slot, queued, algInput>>
    BY <1>2 DEF InitWorker, Connect, etcdVars
  <2>2. Still => Aside
    BY <2>1, ResumingAside DEF Still, smVars, jobVars
  <2> QED BY <1>2, <2>1, <2>2, BootstrapForm, RequestingJob
<1>3. CASE \/ Disconnect \/ AlgError \/ StopProcessing \/ StartProcessing
           \/ \E b \in BOOLEAN : SetHot(b)
  <2>1. /\ UNCHANGED <<state, cjob, isReady, acks, task, stored, stopTimer, lostTimers, stopped,
                       slot, queued, algInput>>
        /\ asked' \subseteq asked
    BY <1>3 DEF Disconnect, AlgError, StopProcessing, StartProcessing, SetHot,
       Command, etcdVars, otherVars, smVars, jobVars
  <2>2. \/ suspended' = suspended
        \/ \E at \in Points \ (JobPoints \cup {"job.watch"}), r \in {"none", "error"} :
              suspended' = BagAdd(suspended, Handler(at, r, NoJob))
    <3>1. {"disconnect", "algError", "pause", "resume", "setInactive"}
            \subseteq Points \ (JobPoints \cup {"job.watch"})
      BY DEF Points, JobPoints, Closing, Finishing
    <3>2. CASE Disconnect \/ AlgError
      BY <3>1, <3>2 DEF Disconnect, AlgError, Waiting
    <3>3. CASE StopProcessing \/ StartProcessing \/ \E b \in BOOLEAN : SetHot(b)
      BY <3>1, <3>3 DEF StopProcessing, StartProcessing, SetHot, CallQueue, Waiting
    <3> QED BY <1>3, <3>2, <3>3
  <2>3. Aside
    BY <1>b, <2>1, <2>2, ResumingAside
  <2> QED BY <2>1, <2>3
<1>3a. CASE Poll \/ \E j \in Jobs : Deliver(j)
  <2>1. stopped' = stopped
    BY <1>3a DEF Poll, Deliver, etcdVars
  <2> QED BY <1>3a, <2>1, MovingAside
<1>4. ASSUME NEW h \in Pending, QueueReturned(h) \/ Rejected(h)
      PROVE  Aside /\ stopped' = stopped
  <2>1. UNCHANGED <<state, cjob, isReady, acks, task, stored, stopTimer, lostTimers, stopped, asked,
                    slot, queued, algInput>>
    BY <1>4 DEF QueueReturned, Rejected, Failing, etcdVars, smVars, jobVars
  <2>2. /\ h \in DOMAIN suspended
        /\ \/ suspended' = BagRemove(suspended, h)
           \/ suspended' = BagAdd(BagRemove(suspended, h), Handler("setInactive", "none", NoJob))
    BY <1>4 DEF QueueReturned, Rejected, Rest, Waiting, Pending
  <2>3. "setInactive" \in Points \ (JobPoints \cup {"job.watch"})
    BY DEF Points, JobPoints, Closing, Finishing
  <2>4. Aside
    BY <1>b, <2>1, <2>2, <2>3, ResumingAside
  <2> QED BY <2>1, <2>4
<1>5. CASE ReadyHandled \/ SetInactive \/ \E j \in Jobs : Extracted(j)
  <2>1. /\ UNCHANGED <<state, cjob, isReady, acks, task, stored, stopTimer, lostTimers, stopped,
                       slot, queued>>
        /\ \/ asked' \subseteq asked /\ algInput' = algInput
           \/ asked' = asked \cup {"initialize"} /\ algInput' \in Jobs
    BY <1>5 DEF ReadyHandled, SetInactive, Extracted, etcdVars, otherVars, smVars, jobVars
  <2>2. \E h \in DOMAIN suspended : suspended' = BagRemove(suspended, h)
    BY <1>5 DEF ReadyHandled, SetInactive, Extracted, Resumed, Rest
  <2> QED BY <2>1, <2>2, ResumingAside
<1>6. CASE Unhandled \/ Exit \/ Signal \/ (IdleTimeout /\ term) \/ UNCHANGED vars
  <2>1. UNCHANGED <<state, cjob, isReady, acks, task, stored, stopTimer, lostTimers, stopped,
                    asked, suspended, slot, queued, algInput>>
    BY <1>6 DEF Unhandled, Failing, Exit, Signal, IdleTimeout, vars, stepVars, etcdVars, smVars,
       jobVars, otherVars
  <2> QED BY <2>1, ResumingAside
<1>7. \A j \in Jobs : ~ JobUnwatched(j)
  BY DEF JobUnwatched, Resumed, NoStop, Pending, Handler
<1> QED
  BY <1>1, <1>2, <1>3, <1>3a, <1>4, <1>5, <1>6, <1>7 DEF Next, Return, Answer, Gone, FinishStep

-----------------------------------------------------------------------------
LEMMA StoppedGrows == [Next]_vars => stopped \subseteq stopped'
BY DEF Next, InitWorker, Connect, Disconnect, BootTimeout, Answer, AlgInitialized, AlgDone,
       AlgStopped, AlgError, Deliver, StopJob, Poll, Return, JobWatched, JobUnwatched, JobUpdated,
       Extracted, ExtractFailed, Unwatched, ResultStored, StoreFailed, FinishWith, TaskUpdated,
       QueueReturned, CleanedUp, ReadyHandled, StopHandled, SetInactive, AlgErrorHandled,
       DisconnectHandled, SetHot, StopProcessing, StartProcessing, Command, StopTimeout,
       IdleTimeout, Rejected, Unhandled, Failing, Exit, Signal, Gone, vars, etcdVars

\* An acknowledgement is never taken back.
LEMMA AcksGrow ==
    ASSUME WorkerAssumption, TypeOK, [Next]_vars, NEW j \in Jobs
    PROVE  acks[j] <= acks'[j]
<1>a. acks \in [Jobs -> Nat]
  BY DEF TypeOK
<1>r. ASSUME Requesting PROVE acks[j] <= acks'[j]
  <2>0. PICK t \in Transitions : \E c : Requests(t, c)
    BY <1>r DEF Requesting
  <2>1. PICK c : Requests(t, c)
    BY <2>0
  <2>2. CASE UNCHANGED acks
    BY <1>a, <2>2
  <2>3. CASE acks' = [acks EXCEPT ![cjob] = @ + 1]
    BY <1>a, <2>3
  <2> QED BY <2>1, <2>2, <2>3, RequestTaken, RequestRefused DEF Finish
<1>1. CASE \/ BootTimeout \/ AlgInitialized \/ AlgDone \/ AlgStopped
           \/ AlgErrorHandled \/ DisconnectHandled
           \/ \E k \in Jobs : ExtractFailed(k) \/ JobUpdated(k)
           \/ CleanedUp \/ StopHandled \/ StopTimeout
           \/ IdleTimeout /\ ~term
  BY <1>1, <1>r, RequestForm
<1>2. CASE InitWorker \/ Connect
  <2>1. Still => acks[j] <= acks'[j]
    BY <1>a DEF Still
  <2> QED BY <1>2, <1>r, <2>1, BootstrapForm
<1>3. CASE \E k \in Jobs : JobUnwatched(k)
  BY <1>a, <1>3 DEF JobUnwatched
<1>4. CASE \/ Disconnect \/ AlgError \/ Poll \/ StopProcessing \/ StartProcessing
           \/ \E k \in Jobs : Deliver(k) \/ StopJob(k) \/ JobWatched(k) \/ Extracted(k)
           \/ \E b \in BOOLEAN : SetHot(b)
           \/ ReadyHandled \/ SetInactive
           \/ \E h \in Pending : FinishStep(h) \/ QueueReturned(h) \/ Rejected(h)
           \/ Unhandled \/ Exit \/ Signal \/ (IdleTimeout /\ term) \/ UNCHANGED vars
  <2>1. UNCHANGED acks
    BY <1>4 DEF Disconnect, AlgError, Poll, Deliver, StopJob, JobWatched, Extracted,
       StopProcessing, StartProcessing, SetHot, Command, ReadyHandled, SetInactive, FinishStep,
       Unwatched, ResultStored, StoreFailed, FinishWith, TaskUpdated, QueueReturned, Rejected,
       Unhandled, Failing, Exit, Signal, IdleTimeout, vars, stepVars
  <2> QED BY <1>a, <2>1
<1> QED BY <1>1, <1>2, <1>3, <1>4 DEF Next, Return, Answer, Gone, FinishStep

LEMMA QueuedKept ==
    ASSUME [Next]_vars
    PROVE  queued' = queued \/ \E j \in Jobs : Deliver(j)
BY DEF Next, InitWorker, Connect, Disconnect, BootTimeout, Answer, AlgInitialized, AlgDone,
       AlgStopped, AlgError, StopJob, Poll, Return, JobWatched, JobUnwatched, JobUpdated,
       Extracted, ExtractFailed, Unwatched, ResultStored, StoreFailed, FinishWith, TaskUpdated,
       QueueReturned, CleanedUp, ReadyHandled, StopHandled, SetInactive, AlgErrorHandled,
       DisconnectHandled, SetHot, StopProcessing, StartProcessing, Command, StopTimeout,
       IdleTimeout, Rejected, Unhandled, Failing, Exit, Signal, Gone, vars, otherVars

LEMMA OneInHandStep == TypeOK /\ TypeOK' /\ OneInHand /\ [Next]_vars => OneInHand'
<1> SUFFICES ASSUME TypeOK, TypeOK', OneInHand, [Next]_vars,
                    NEW j \in Jobs \ queued', NEW k \in Jobs \ queued', acks'[j] = 0, acks'[k] = 0
             PROVE  j = k
  BY DEF OneInHand
<1>1. acks[j] = 0 /\ acks[k] = 0
  BY AcksGrow, WorkerAssumption DEF TypeOK
<1>2. CASE queued' = queued
  BY <1>1, <1>2 DEF OneInHand
<1>3. ASSUME NEW i \in Jobs, Deliver(i)
      PROVE  j = k
  <2>1. queued' = queued \ {i} /\ \A n \in Jobs \ queued : acks[n] > 0
    BY <1>3 DEF Deliver
  <2>2. j = i /\ k = i
    BY <1>1, <2>1
  <2> QED BY <2>2
<1> QED BY <1>2, <1>3, QueuedKept

\* There is one job in hand at most.
LEMMA OneJobInHand == Spec => []OneInHand
<1>1. Init => OneInHand
  BY DEF Init, OneInHand
<1> QED BY <1>1, OneInHandStep, TypeCorrect, PTL DEF Spec

LEMMA HandStep ==
    ASSUME TypeOK, TypeOK', OnePlace, OneInHand, HandInv, [Next]_vars
    PROVE  HandInv'
<1> SUFFICES ASSUME stopped' = {} PROVE ReadySeen' /\ NoStop' /\ Held'
  BY DEF HandInv
<1> USE WorkerAssumption
<1>0. stopped = {} /\ ReadySeen /\ NoStop /\ Held
  BY StoppedGrows DEF HandInv
<1>1. CASE Aside
  BY <1>0, <1>1, AsideHand DEF Aside
<1>2. CASE Taken
  BY <1>0, <1>2, TakenNoStop, TakenHeld DEF Taken
<1>3. CASE RefusedPrepare
  <2>1. PICK c : Requests("prepare", c) /\ state # "ready"
    BY <1>3 DEF RefusedPrepare
  <2>2. "prepare" \in Transitions /\ state \notin From["prepare"]
    BY <2>1 DEF Transitions, From
  <2>3. /\ state' \in {state, "exit"} /\ UNCHANGED <<cjob, isReady>>
        /\ suspended' = c.rest /\ asked' = c.asked
        /\ stopTimer' = c.stopTimer /\ lostTimers' = c.lostTimers
    BY <2>1, <2>2, RequestRefused
  <2>4. IsHandlers(suspended)
    BY TypeParts DEF StepTypeOK
  <2>5. FewerIn(JobPoints \cup {"job.watch"}, suspended, suspended')
    BY <2>1, <2>3, <2>4, RequestRest, Fewer DEF Requests
  <2>6. FewerIn(JobPoints, suspended, suspended')
    BY <2>5 DEF FewerIn
  <2>7. \A h \in DOMAIN suspended' : h.at = "job.watch" =>
              isReady \/ \E g \in DOMAIN suspended : g.at = "job.watch"
    BY <2>5 DEF FewerIn
  <2>8. asked' \subseteq asked /\ (stopTimer' => stopTimer) /\ lostTimers' <= lostTimers
    BY <2>1, <2>3, CauseAsked DEF Requests
  <2> QED BY <1>0, <2>3, <2>6, <2>7, <2>8, AsideHand
<1>4. CASE \E j \in Jobs : JobWatched(j)
  BY <1>0, <1>4, WatchedHand
<1>5. CASE \E h \in Pending : FinishStep(h)
  BY <1>0, <1>5, FinishHand
<1>6. CASE \E j \in Jobs : StopJob(j)
  BY <1>6 DEF StopJob
<1> QED BY <1>0, <1>1, <1>2, <1>3, <1>4, <1>5, <1>6, JobStep

LEMMA InitHand == Init => HandInv
BY DEF Init, HandInv, ReadySeen, NoStop, Held, Pending, EmptyBag, SetToBag

LEMMA HandInvariant == Spec => []HandInv
BY InitHand, HandStep, TypeCorrect, JobAtOnePlace, OneJobInHand, PTL DEF Spec

\* Without a stop request every step of finishJob works for the job that the
\* consumer holds, through all awaits, reconnections and failures.
THEOREM FinishesTheJobInHand == Spec => []FinishesJobInHand
<1>1. HandInv => FinishesJobInHand
  BY DEF HandInv, Held, FinishesJobInHand, Closing, Finishing
<1> QED BY <1>1, HandInvariant, PTL

-----------------------------------------------------------------------------
(***************************************************************************)
(* What is recorded of a task.  While a job runs, and until its record is  *)
(* written, the task is active; a success is written for what the storage  *)
(* holds by then.                                                          *)
(***************************************************************************)
Recorded ==
    /\ state \in {"init", "working"} => task[cjob] = "active"
    /\ \A h \in Pending : h.at \in Finishing => task[h.job] = "active"
    /\ \A h \in Pending : h.at = "update" /\ h.res # "error" => stored[h.job] = h.res
    /\ \A j \in Jobs : task[j] \notin {"none", "active", "error"} => stored[j] = task[j]

RecordInv == stopped = {} => Recorded

LEMMA AsideRecorded ==
    ASSUME Recorded, Aside
    PROVE  Recorded'
BY DEF Recorded, Aside, FewerIn, JobPoints, Closing, Finishing, Pending

LEMMA TakenRecorded ==
    ASSUME WorkerAssumption, TypeOK, TypeOK', NoStop, Held, Held', Recorded,
           NEW t \in Transitions \ {"exit"}, NEW c, Requests(t, c), state \in From[t]
    PROVE  Recorded'
<1>1. /\ Finish(To[t], c) /\ state' = To[t] /\ stored' = stored
      /\ task' = IF t = "prepare" THEN [task EXCEPT ![c.job] = "active"] ELSE task
  BY RequestTaken DEF Requests, Leaves
<1>2. task \in [Jobs -> Results \cup {"active"}] /\ (cjob # NoJob => cjob \in Jobs)
  BY DEF TypeOK
<1>3. CASE t = "prepare"
  <2>1. c.job = cjob /\ cjob \in Jobs /\ state' = "init"
    BY <1>2, <1>3, TakenCause DEF Held, Pending, AtUpdate, Handler
  <2>2. cjob' = cjob /\ task' = [task EXCEPT ![cjob] = "active"]
    BY <1>1, <1>3, <2>1 DEF Finish
  <2>3. \A h \in DOMAIN suspended' : h.at \notin Closing
    BY <2>1 DEF Held, Pending
  <2> QED BY <1>1, <1>2, <2>1, <2>2, <2>3 DEF Recorded, Pending, Closing, Finishing
<1>4. CASE t = "start"
  <2>1. state = "init" /\ state' = "working" /\ task' = task
    BY <1>1, <1>4, TakenCause
  <2>2. cjob' = cjob
    BY <1>1, <2>1 DEF Finish
  <2>3. \A h \in DOMAIN suspended' : h.at \notin Closing
    BY <2>1 DEF Held, Pending
  <2> QED BY <1>1, <2>1, <2>2, <2>3 DEF Recorded, Pending, Closing, Finishing
<1>5. CASE t = "done"
  <2>1. state \in {"init", "working"} /\ state' = "results" /\ task' = task
    BY <1>1, <1>5, TakenCause
  <2>2. cjob' = cjob
    BY <1>1, <2>1 DEF Finish
  <2>3. \A h \in DOMAIN suspended' : h.at \in Finishing => task'[h.job] = "active"
    BY <2>1, <2>2 DEF Held, Recorded, Pending, Closing, Finishing
  <2>4. \A h \in DOMAIN suspended' : h.at # "update"
    <3>1. \A h \in DOMAIN suspended : h.at # "update"
      BY <2>1 DEF Held, Pending, Closing, Finishing
    <3> QED BY <3>1, RequestMoves DEF FewerIn, Points, Entering
  <2> QED BY <1>1, <2>1, <2>3, <2>4 DEF Recorded, Pending
<1>6. CASE t \in {"bootstrap", "cleanup"}
  <2>1. state' = "ready" /\ task' = task
    BY <1>1, <1>6, TakenCause
  <2>2. \A h \in DOMAIN suspended' : h.at \notin Closing
    BY <2>1 DEF Held, Pending
  <2> QED BY <1>1, <2>1, <2>2 DEF Recorded, Pending, Closing, Finishing
<1> QED BY <1>3, <1>4, <1>5, <1>6, TakenCause

\* An exiting worker still records the task of the job it has taken.
LEMMA RefusedForm ==
    ASSUME WorkerAssumption, TypeOK, NoStop, Held, RefusedPrepare
    PROVE  /\ state = "exit" /\ state' = "exit" /\ cjob \in Jobs /\ AtUpdate(cjob) \in Pending
           /\ suspended' = BagRemove(suspended, AtUpdate(cjob))
           /\ task' = [task EXCEPT ![cjob] = "active"]
           /\ UNCHANGED <<cjob, isReady, acks, stored, slot, queued, asked, algInput>>
           /\ FewerIn(Points, suspended, suspended')
<1>1. PICK c : Requests("prepare", c) /\ state # "ready"
  BY DEF RefusedPrepare
<1>2. "prepare" \in Transitions /\ state \notin From["prepare"]
  BY <1>1 DEF Transitions, From
<1>3. /\ state' \in {state, "exit"} /\ UNCHANGED <<cjob, isReady, acks>>
      /\ suspended' = c.rest /\ asked' = c.asked
  BY <1>1, <1>2, RequestRefused
<1>4. PICK j \in Jobs : c.job = j /\ Resumes(AtUpdate(j), c)
  BY <1>1 DEF Requests, Cause
<1>5. state = "exit" /\ j = cjob
  BY <1>1, <1>4 DEF Held, Pending, Resumes, AtUpdate, Handler
<1>6. IsHandlers(suspended)
  BY TypeParts DEF StepTypeOK
<1>7. FewerIn(Points, suspended, suspended')
  BY <1>3, <1>4, <1>6, Fewer DEF Resumes
<1> QED BY <1>1, <1>3, <1>4, <1>5, <1>7 DEF Requests, Leaves, Resumes, Pending

LEMMA RefusedRecorded ==
    ASSUME WorkerAssumption, TypeOK, NoStop, Held, Recorded, RefusedPrepare
    PROVE  Recorded'
<1>1. /\ state' = "exit" /\ cjob \in Jobs /\ cjob' = cjob /\ stored' = stored
      /\ task' = [task EXCEPT ![cjob] = "active"] /\ task \in [Jobs -> Results \cup {"active"}]
      /\ FewerIn(Points, suspended, suspended')
  BY RefusedForm DEF TypeOK
<1>2. \A h \in DOMAIN suspended' : h.at \in Finishing => h \in Pending /\ h.job = cjob
  BY <1>1 DEF FewerIn, Held, Pending, Closing, Finishing, Points
<1> QED BY <1>1, <1>2 DEF Recorded, Pending, Finishing

LEMMA FinishRecorded ==
    ASSUME WorkerAssumption, TypeOK, TypeOK', Held, Held', Recorded, NEW h \in Pending, FinishStep(h)
    PROVE  Recorded'
<1>1. /\ h.at \in Finishing /\ h.job = cjob /\ h.res \in Results
      /\ UNCHANGED <<state, cjob>> /\ task[cjob] = "active" /\ cjob \in Jobs
      /\ state \in {"results", "exit"}
  BY FinishForm DEF Recorded, Held, Closing, TypeOK
<1>2. PICK g \in Handlers :
         /\ suspended' = BagAdd(BagRemove(suspended, h), g)
         /\ \/ Unwatched(h) /\ h.res # "error" /\ g = Handler("put", h.res, cjob)
            \/ Unwatched(h) /\ h.res = "error" /\ g = Handler("update", h.res, cjob)
            \/ ResultStored(h) /\ g = Handler("update", h.res, cjob)
            \/ StoreFailed(h) /\ g = Handler("update", "error", cjob)
            \/ TaskUpdated(h) /\ g = Waiting("cleanup")
  BY FinishForm
<1>3. g \in DOMAIN suspended' /\ g.at \in Closing
  BY <1>2 DEF BagAdd, Handler, Waiting, Closing, Finishing
<1>4. \A f \in DOMAIN suspended' : f.at \in Closing => f = g
  BY <1>3 DEF Held, Pending
<1>5. stored \in [Jobs -> Results] /\ task \in [Jobs -> Results \cup {"active"}]
  BY DEF TypeOK
<1>6. CASE UNCHANGED <<task, stored>> /\ (g.at = "update" => g.res = "error") /\ g.job = cjob
  BY <1>1, <1>4, <1>6 DEF Recorded, Pending, Closing, Finishing
<1>7. CASE \/ Unwatched(h) /\ h.res # "error" /\ g = Handler("put", h.res, cjob)
           \/ Unwatched(h) /\ h.res = "error" /\ g = Handler("update", h.res, cjob)
           \/ StoreFailed(h) /\ g = Handler("update", "error", cjob)
  <2>1. UNCHANGED <<task, stored>>
    BY <1>7 DEF Unwatched, StoreFailed, etcdVars
  <2>2. (g.at = "update" => g.res = "error") /\ g.job = cjob
    BY <1>7 DEF Handler
  <2> QED BY <1>6, <2>1, <2>2
<1>8. CASE ResultStored(h) /\ g = Handler("update", h.res, cjob)
  <2>1. stored' = [stored EXCEPT ![cjob] = h.res] /\ task' = task
    BY <1>1, <1>8 DEF ResultStored
  <2> QED BY <1>1, <1>4, <1>5, <1>8, <2>1 DEF Recorded, Pending, Closing, Finishing, Handler
<1>9. CASE TaskUpdated(h) /\ g = Waiting("cleanup")
  <2>1. task' = [task EXCEPT ![cjob] = h.res] /\ stored' = stored /\ h.at = "update"
    BY <1>1, <1>9 DEF TaskUpdated
  <2>3. h.res # "error" => stored[cjob] = h.res
    BY <1>1, <2>1 DEF Recorded
  <2>4. \A f \in DOMAIN suspended' : f.at \notin Finishing
    BY <1>4, <1>9 DEF Closing, Finishing, Waiting, Handler
  <2> QED BY <1>1, <1>5, <2>1, <2>3, <2>4 DEF Recorded, Pending, Finishing
<1> QED BY <1>2, <1>7, <1>8, <1>9

LEMMA RecordStep ==
    ASSUME TypeOK, TypeOK', OnePlace, OneInHand, HandInv, HandInv', RecordInv, [Next]_vars
    PROVE  RecordInv'
<1> SUFFICES ASSUME stopped' = {} PROVE Recorded'
  BY DEF RecordInv
<1> USE WorkerAssumption
<1>0. stopped = {} /\ NoStop /\ Held /\ Held' /\ Recorded
  BY StoppedGrows DEF HandInv, RecordInv
<1>1. CASE Aside
  BY <1>0, <1>1, AsideRecorded
<1>2. CASE Taken
  BY <1>0, <1>2, TakenRecorded DEF Taken
<1>3. CASE RefusedPrepare
  BY <1>0, <1>3, RefusedRecorded
<1>4. ASSUME NEW j \in Jobs, JobWatched(j)
      PROVE  Recorded'
  <2>1. IsHandlers(suspended) /\ AtWatch(j) \in DOMAIN suspended /\ AtUpdate(j) \in Handlers
    BY <1>4, TypeParts, HandlerType DEF StepTypeOK, JobWatched, Resumed, AtWatch, AtUpdate, Points,
       Results
  <2>2. /\ suspended' = BagAdd(BagRemove(suspended, AtWatch(j)), AtUpdate(j))
        /\ UNCHANGED <<state, task, stored>>
    BY <1>0, <1>4 DEF JobWatched, Rest, AtUpdate, AtWatch, smVars
  <2>3. AtUpdate(j).at = "job.update"
    BY DEF AtUpdate, Handler
  <2>4. FewerIn(Finishing, suspended, suspended')
    BY <2>1, <2>2, <2>3, Fewer DEF Finishing
  <2>5. state \notin {"init", "working"}
    BY <1>0, <2>1, TakingFree DEF Held
  <2> QED BY <1>0, <2>2, <2>4, <2>5 DEF Recorded, FewerIn, Pending, Finishing
<1>5. CASE \E h \in Pending : FinishStep(h)
  BY <1>0, <1>5, FinishRecorded
<1>6. CASE \E j \in Jobs : StopJob(j)
  BY <1>6 DEF StopJob
<1> QED BY <1>0, <1>1, <1>2, <1>3, <1>4, <1>5, <1>6, JobStep

LEMMA RecordInvariant == Spec => []RecordInv
<1>1. Init => RecordInv
  BY DEF Init, RecordInv, Recorded, Pending, EmptyBag, SetToBag
<1> QED
  BY <1>1, RecordStep, HandInvariant, TypeCorrect, JobAtOnePlace, OneJobInHand, PTL DEF Spec

\* Without a stop request a task is recorded as succeeded only with the output that
\* the storage holds, whatever fails on the way.
THEOREM RecordsWhatIsStored == Spec => []RecordedIsStored
<1>1. RecordInv => RecordedIsStored
  BY DEF RecordInv, Recorded, RecordedIsStored
<1> QED BY <1>1, RecordInvariant, PTL

-----------------------------------------------------------------------------
(***************************************************************************)
(* The promise of JobLifecycle.  A task is untouched until its job is      *)
(* taken over by the state machine, and has an outcome when the worker     *)
(* cleans up.                                                              *)
(***************************************************************************)
Settled ==
    /\ \A j \in Jobs : Waits(j) \/ AtUpdate(j) \in Pending => task[j] = "none"
    /\ Waiting("cleanup") \in Pending => task[cjob] \notin {"none", "active"}
    /\ \A h \in Pending : h.at \in Finishing => h.res # "none"
    /\ asked \cap {"initialize", "start"} # {} => algInput \in Jobs

LifeInv == stopped = {} => Settled

LEMMA AsideSettled ==
    ASSUME TypeOK, Settled, Aside
    PROVE  Settled'
<1>1. \A j \in Jobs : Waits(j)' => Waits(j)
  BY DEF Aside
<1>2. \A h \in DOMAIN suspended' : h.at \in JobPoints => h \in DOMAIN suspended
  BY DEF Aside, FewerIn
<1>3. UNCHANGED <<task, cjob>>
  BY DEF Aside
<1>4. \A j \in Jobs : (Waits(j) \/ AtUpdate(j) \in Pending)' => task'[j] = "none"
  BY <1>1, <1>2, <1>3 DEF Settled, Pending, AtUpdate, Handler, JobPoints
<1>5. Waiting("cleanup") \in DOMAIN suspended' => task'[cjob'] \notin {"none", "active"}
  BY <1>2, <1>3 DEF Settled, Pending, Waiting, Handler, JobPoints, Closing
<1>6. \A h \in DOMAIN suspended' : h.at \in Finishing => h.res # "none"
  BY <1>2 DEF Settled, Pending, JobPoints, Closing
<1>7. asked' \cap {"initialize", "start"} # {} => algInput' \in Jobs
  BY DEF Aside, Settled
<1> QED BY <1>4, <1>5, <1>6, <1>7 DEF Settled, Pending, AtUpdate, Waiting, Handler

\* The job that the consumer holds waits nowhere else, and is not acknowledged.
LEMMA HeldOnly ==
    ASSUME TypeOK, OnePlace, cjob \in Jobs
    PROVE  cjob \notin queued /\ slot # cjob /\ AtWatch(cjob) \notin DOMAIN suspended /\ acks[cjob] = 0
<1>1. IsHandlers(suspended)
  BY TypeParts DEF StepTypeOK
<1>2. /\ Copies(AtWatch(cjob), suspended) \in Nat /\ Copies(AtUnwatch(cjob), suspended) \in Nat
      /\ acks[cjob] \in Nat /\ Places(cjob) <= 1
  BY <1>1, CopiesType DEF TypeOK, OnePlace
<1>3. AtWatch(cjob) \in DOMAIN suspended => Copies(AtWatch(cjob), suspended) >= 1
  BY <1>1 DEF Copies, IsHandlers
<1>4. Here(cjob = cjob) = 1
  BY DEF Here
<1>5. /\ Here(cjob \in queued) \in {0, 1} /\ Here(slot = cjob) \in {0, 1}
      /\ cjob \in queued => Here(cjob \in queued) = 1
      /\ slot = cjob => Here(slot = cjob) = 1
  BY DEF Here
<1> QED BY <1>2, <1>3, <1>4, <1>5 DEF Places

LEMMA TakenSettled ==
    ASSUME WorkerAssumption, TypeOK, TypeOK', OnePlace, NoStop, Held, Held', Settled,
           NEW t \in Transitions \ {"exit"}, NEW c, Requests(t, c), state \in From[t]
    PROVE  Settled'
<1>1. /\ Finish(To[t], c) /\ state' = To[t] /\ UNCHANGED <<slot, queued, algInput>>
      /\ task' = IF t = "prepare" THEN [task EXCEPT ![c.job] = "active"] ELSE task
      /\ c.res \in Results /\ IsHandlers(c.rest) /\ Cause(t, c)
  BY RequestTaken DEF Requests, Leaves, CallOK
<1>2. /\ task \in [Jobs -> Results \cup {"active"}] /\ (cjob # NoJob => cjob \in Jobs)
      /\ IsHandlers(suspended)
  BY TypeParts DEF TypeOK, StepTypeOK
<1>3. FewerIn(Points \ Entering, suspended, suspended')
  BY RequestMoves
<1>4. \A j \in Jobs : Waits(j)' => Waits(j)
  BY <1>1, <1>3 DEF FewerIn, Waits, AtWatch, Handler, Pending, Points, Entering
<1>5. \A j \in Jobs : AtUpdate(j) \in DOMAIN suspended' => AtUpdate(j) \in DOMAIN suspended
  BY <1>3 DEF FewerIn, AtUpdate, Handler, Points, Entering
<1>6. \A j \in Jobs : (Waits(j) \/ AtUpdate(j) \in Pending)' => task'[j] = "none"
  <2>1. CASE t # "prepare"
    BY <1>1, <1>4, <1>5, <2>1 DEF Settled, Pending, AtUpdate, Handler
  <2>2. CASE t = "prepare"
    <3>1. c.job = cjob /\ cjob \in Jobs /\ state' = "init"
      BY <1>2, <2>2, TakenCause DEF Held, Pending, AtUpdate, Handler
    <3>2. \A j \in Jobs : AtUpdate(j) \notin DOMAIN suspended'
      BY <3>1 DEF Held, Pending, AtUpdate, Handler
    <3>3. ~ Waits(cjob)
      BY <3>1, HeldOnly DEF Waits, Pending
    <3>4. \A j \in Jobs : Waits(j)' => Waits(j) /\ j # cjob
      BY <1>4, <3>1, <3>3
    <3>5. \A j \in Jobs : j # cjob => task'[j] = task[j]
      BY <1>1, <1>2, <2>2, <3>1
    <3> QED BY <3>2, <3>4, <3>5 DEF Settled, Pending, AtUpdate, Handler
  <2> QED BY <2>1, <2>2
<1>7. /\ Waiting("cleanup") \notin DOMAIN suspended'
      /\ \A g \in DOMAIN suspended' : g.at \in Finishing => g.res # "none"
  <2>1. CASE t = "done"
    <3>1. state \in {"init", "working"} /\ state' = "results" /\ cjob \in Jobs
      BY <1>2, <2>1, TakenCause DEF Held
    <3>2. c.rest = suspended \/ \E h \in DOMAIN suspended : c.rest = BagRemove(suspended, h)
      BY <1>1, RequestRest
    <3>3. c.res # "none"
      BY <1>1, <2>1 DEF Cause, Settled, WorkerAssumption
    <3> DEFINE h == Handler("unwatch", c.res, cjob)
    <3>4. h \in Handlers /\ h.at = "unwatch" /\ h.res = c.res
      BY <1>1, <3>1, HandlerType DEF Points, Handler
    <3>5. \A g \in DOMAIN suspended : g.at \notin Closing
      BY <3>1 DEF Held, Pending
    <3>6. FewerIn(Closing, suspended, c.rest)
      BY <1>2, <3>2, Fewer
    <3>7. \A g \in DOMAIN suspended' : g.at \in Closing => g = h
      <4>1. cjob # NoJob
        BY <3>1 DEF WorkerAssumption, NoJob
      <4>2. suspended' = c.rest \/ suspended' = BagAdd(c.rest, h)
        BY <2>1, <4>1, TakenSuspends
      <4>3. \A g \in DOMAIN c.rest : g.at \notin Closing
        BY <3>5, <3>6 DEF FewerIn
      <4>4. suspended' = BagAdd(c.rest, h) => DOMAIN suspended' = DOMAIN c.rest \cup {h}
        BY <1>1, <3>4, SuspendOne
      <4> QED BY <4>2, <4>3, <4>4
    <3>8. Waiting("cleanup") \notin DOMAIN suspended'
      BY <3>4, <3>7 DEF Waiting, Handler, Closing
    <3>9. \A g \in DOMAIN suspended' : g.at \in Finishing => g.res # "none"
      BY <3>3, <3>4, <3>7 DEF Closing
    <3> QED BY <3>8, <3>9
  <2>2. CASE t # "done"
    <3>1. state' \in {"ready", "init", "working"}
      BY <2>2, TakenCause
    <3>2. \A g \in DOMAIN suspended' : g.at \notin Closing
      BY <3>1 DEF Held, Pending
    <3> QED BY <3>2 DEF Waiting, Handler, Closing
  <2> QED BY <2>1, <2>2
<1>8. asked' \cap {"initialize", "start"} # {} => algInput' \in Jobs
  <2>1. asked' \subseteq c.asked \cup CommandOf(To[t]) /\ c.asked \subseteq asked
    BY <1>1, RequestTaken, CauseAsked DEF Entered, EnteredUnheard
  <2>2. CASE t = "start"
    BY <1>1, <2>2 DEF Cause, Settled
  <2>3. CASE t # "start"
    <3>1. CommandOf(To[t]) \subseteq {"stop"}
      BY <2>3 DEF CommandOf, To, Transitions
    <3> QED BY <1>1, <2>1, <3>1 DEF Settled
  <2> QED BY <2>2, <2>3
<1> QED BY <1>6, <1>7, <1>8 DEF Settled, Pending, AtUpdate, Waiting, Handler

LEMMA RefusedSettled ==
    ASSUME WorkerAssumption, TypeOK, OnePlace, NoStop, Held, Settled, RefusedPrepare
    PROVE  Settled'
<1>1. /\ cjob \in Jobs /\ AtUpdate(cjob) \in DOMAIN suspended
      /\ suspended' = BagRemove(suspended, AtUpdate(cjob))
      /\ task' = [task EXCEPT ![cjob] = "active"] /\ task \in [Jobs -> Results \cup {"active"}]
      /\ UNCHANGED <<cjob, slot, queued, asked, algInput>>
      /\ FewerIn(Points, suspended, suspended')
  BY RefusedForm DEF TypeOK, Pending
<1>2. IsHandlers(suspended) /\ AtUpdate(cjob).at = "job.update"
  BY TypeParts DEF StepTypeOK, AtUpdate, Handler
<1>3. \A j \in Jobs : Waits(j)' => Waits(j) /\ j # cjob
  <2>1. ~ Waits(cjob)
    BY <1>1, HeldOnly DEF Waits, Pending
  <2>2. \A j \in Jobs : Waits(j)' => Waits(j)
    BY <1>1 DEF FewerIn, Waits, AtWatch, Handler, Pending, Points
  <2> QED BY <2>1, <2>2
<1>4. \A j \in Jobs : AtUpdate(j) \notin DOMAIN suspended'
  <2>1. suspended[AtUpdate(cjob)] = 1 /\ \A g \in DOMAIN suspended : g.at \in {"job.update"} => g = AtUpdate(cjob)
    BY <1>1, <1>2 DEF Held, Pending
  <2>2. \A g \in DOMAIN suspended' : g.at \notin {"job.update"}
    BY <1>1, <1>2, <2>1, LastResumed
  <2> QED BY <2>2 DEF AtUpdate, Handler
<1>5. \A j \in Jobs : (Waits(j) \/ AtUpdate(j) \in Pending)' => task'[j] = "none"
  BY <1>1, <1>3, <1>4 DEF Settled, Pending, AtUpdate, Handler
<1>6. Waiting("cleanup") \notin DOMAIN suspended'
  <2>1. task[cjob] = "none"
    BY <1>1 DEF Settled, Pending
  <2>2. Waiting("cleanup") \notin DOMAIN suspended
    BY <2>1 DEF Settled, Pending
  <2> QED BY <1>1, <2>2 DEF FewerIn, Waiting, Handler, Points
<1>7. \A g \in DOMAIN suspended' : g.at \in Finishing => g.res # "none"
  BY <1>1 DEF FewerIn, Points, Settled, Finishing, Pending
<1> QED BY <1>1, <1>5, <1>6, <1>7 DEF Settled, Pending, AtUpdate, Waiting, Handler

LEMMA WatchedSettled ==
    ASSUME WorkerAssumption, TypeOK, OnePlace, OneInHand, NoStop, Held, Settled,
           NEW j \in Jobs, JobWatched(j), stopped = {}
    PROVE  Settled'
<1> DEFINE b == BagRemove(suspended, AtWatch(j))
<1>1. IsHandlers(suspended) /\ AtWatch(j) \in DOMAIN suspended /\ AtUpdate(j) \in Handlers
  BY TypeParts, HandlerType DEF StepTypeOK, JobWatched, Resumed, AtWatch, AtUpdate, Points, Results
<1>2. cjob = NoJob
  BY <1>1, TakingFree
<1>3. /\ suspended' = BagAdd(b, AtUpdate(j))
      /\ UNCHANGED <<task, slot, queued, asked, algInput>>
  BY DEF JobWatched, Rest, AtUpdate, AtWatch, otherVars
<1>4. IsHandlers(b) /\ DOMAIN b \subseteq DOMAIN suspended
  BY <1>1, ResumeOne
<1>5. DOMAIN suspended' = DOMAIN b \cup {AtUpdate(j)}
  BY <1>1, <1>3, <1>4, SuspendOne
<1>6. \A g \in DOMAIN suspended' : g.at \notin Closing
  BY <1>2, <1>4, <1>5 DEF Held, Pending, AtUpdate, Handler, Closing, Finishing
<1>7. \A k \in Jobs : Waits(k)' => Waits(k)
  BY <1>3, <1>4, <1>5 DEF Waits, AtWatch, AtUpdate, Handler, Pending
<1>8. \A k \in Jobs : AtUpdate(k) \in DOMAIN suspended' => k = j \/ AtUpdate(k) \in DOMAIN suspended
  BY <1>4, <1>5 DEF AtUpdate, Handler
<1>9. task[j] = "none"
  BY <1>1 DEF Settled, Waits, Pending
<1>10. \A k \in Jobs : (Waits(k) \/ AtUpdate(k) \in Pending)' => task'[k] = "none"
  BY <1>3, <1>7, <1>8, <1>9 DEF Settled, Pending, AtUpdate, Handler
<1>11. Waiting("cleanup") \notin DOMAIN suspended'
  BY <1>6 DEF Waiting, Handler, Closing
<1>12. \A g \in DOMAIN suspended' : g.at \notin Finishing
  BY <1>6 DEF Closing
<1> QED BY <1>3, <1>10, <1>11, <1>12 DEF Settled, Pending, AtUpdate, Waiting, Handler

LEMMA FinishSettled ==
    ASSUME WorkerAssumption, TypeOK, TypeOK', OnePlace, Held, Held', Recorded, Settled,
           NEW h \in Pending, FinishStep(h)
    PROVE  Settled'
<1>1. /\ h.at \in Finishing /\ h.job = cjob /\ h.res \in Results
      /\ UNCHANGED <<state, cjob, slot, queued, asked, algInput>> /\ task[cjob] = "active" /\ cjob \in Jobs
  BY FinishForm DEF Recorded, Held, Closing, TypeOK
<1>2. PICK g \in Handlers :
         /\ suspended' = BagAdd(BagRemove(suspended, h), g)
         /\ \/ Unwatched(h) /\ h.res # "error" /\ g = Handler("put", h.res, cjob)
            \/ Unwatched(h) /\ h.res = "error" /\ g = Handler("update", h.res, cjob)
            \/ ResultStored(h) /\ g = Handler("update", h.res, cjob)
            \/ StoreFailed(h) /\ g = Handler("update", "error", cjob)
            \/ TaskUpdated(h) /\ g = Waiting("cleanup")
  BY FinishForm
<1>3. g \in DOMAIN suspended' /\ g.at \in Closing
  BY <1>2 DEF BagAdd, Handler, Waiting, Closing, Finishing
<1>4. \A f \in DOMAIN suspended' : f.at \in Closing => f = g
  BY <1>3 DEF Held, Pending
<1>5. /\ IsHandlers(suspended) /\ h \in DOMAIN suspended
      /\ task \in [Jobs -> Results \cup {"active"}] /\ h.res # "none"
  BY <1>1, TypeParts DEF StepTypeOK, TypeOK, Settled, Pending
<1>6. DOMAIN suspended' \subseteq DOMAIN suspended \cup {g}
  <2>1. IsHandlers(BagRemove(suspended, h)) /\ DOMAIN BagRemove(suspended, h) \subseteq DOMAIN suspended
    BY <1>5, ResumeOne
  <2> QED BY <1>2, <2>1, SuspendOne
<1>7. \A j \in Jobs : (Waits(j) \/ AtUpdate(j) \in Pending)' => (Waits(j) \/ AtUpdate(j) \in Pending) /\ j # cjob
  <2>1. \A j \in Jobs : AtWatch(j) # g /\ AtUpdate(j) # g
    BY <1>3 DEF AtWatch, AtUpdate, Handler, Closing, Finishing
  <2>2. \A j \in Jobs : (Waits(j) \/ AtUpdate(j) \in Pending)' => Waits(j) \/ AtUpdate(j) \in Pending
    BY <1>1, <1>6, <2>1 DEF Waits, Pending, AtWatch, AtUpdate, Handler
  <2>3. ~ Waits(cjob) /\ AtUpdate(cjob) \notin Pending
    BY <1>1 DEF Settled
  <2> QED BY <2>2, <2>3
<1>8. \A j \in Jobs : j # cjob => task'[j] = task[j]
  BY <1>1, <1>5 DEF FinishStep, Unwatched, ResultStored, StoreFailed, TaskUpdated, etcdVars
<1>9. \A j \in Jobs : (Waits(j) \/ AtUpdate(j) \in Pending)' => task'[j] = "none"
  BY <1>7, <1>8 DEF Settled
<1>10. Waiting("cleanup") \in DOMAIN suspended' => task'[cjob'] \notin {"none", "active"}
  <2> SUFFICES ASSUME Waiting("cleanup") \in DOMAIN suspended' PROVE task'[cjob] \notin {"none", "active"}
    BY <1>1
  <2>1. g = Waiting("cleanup")
    BY <1>4 DEF Waiting, Handler, Closing
  <2>2. TaskUpdated(h)
    BY <1>2, <2>1 DEF Waiting, Handler
  <2>3. task' = [task EXCEPT ![cjob] = h.res]
    BY <1>1, <2>2 DEF TaskUpdated
  <2>4. h.res # "active"
    BY <1>1 DEF Results, WorkerAssumption
  <2> QED BY <1>1, <1>5, <2>3, <2>4
<1>11. \A f \in DOMAIN suspended' : f.at \in Finishing => f.res # "none"
  <2>1. g.at \in Finishing => g.res \in {h.res, "error"}
    BY <1>2 DEF Handler, Waiting, Finishing
  <2> QED BY <1>4, <1>5, <2>1 DEF Closing
<1> QED BY <1>1, <1>9, <1>10, <1>11 DEF Settled, Pending, AtUpdate, Waiting, Handler

LEMMA LifeStep ==
    ASSUME TypeOK, TypeOK', OnePlace, OneInHand, HandInv, HandInv', RecordInv, LifeInv, [Next]_vars
    PROVE  LifeInv'
<1> SUFFICES ASSUME stopped' = {} PROVE Settled'
  BY DEF LifeInv
<1> USE WorkerAssumption
<1>0. stopped = {} /\ NoStop /\ Held /\ Held' /\ Recorded /\ Settled
  BY StoppedGrows DEF HandInv, RecordInv, LifeInv
<1>1. CASE Aside
  BY <1>0, <1>1, AsideSettled
<1>2. CASE Taken
  BY <1>0, <1>2, TakenSettled DEF Taken
<1>3. CASE RefusedPrepare
  BY <1>0, <1>3, RefusedSettled
<1>4. CASE \E j \in Jobs : JobWatched(j)
  BY <1>0, <1>4, WatchedSettled
<1>5. CASE \E h \in Pending : FinishStep(h)
  BY <1>0, <1>5, FinishSettled
<1>6. CASE \E j \in Jobs : StopJob(j)
  BY <1>6 DEF StopJob
<1> QED BY <1>0, <1>1, <1>2, <1>3, <1>4, <1>5, <1>6, JobStep

LEMMA LifeInvariant == Spec => []LifeInv
<1>1. Init => LifeInv
  BY DEF Init, LifeInv, Settled, Waits, Pending, EmptyBag, SetToBag, AtUpdate, Handler, Waiting
<1> QED
  BY <1>1, LifeStep, RecordInvariant, HandInvariant, TypeCorrect, JobAtOnePlace, OneJobInHand, PTL
     DEF Spec
-----------------------------------------------------------------------------
\* The job in hand and the outcomes, of a queue, its acknowledgements and the tasks.
HandOf(q, a) == CHOOSE j \in Jobs \cup {NoJob} :
    IF \E k \in Jobs \ q : a[k] = 0 THEN j \in Jobs \ q /\ a[j] = 0 ELSE j = NoJob
OutcomeOf(t) == [j \in Jobs |-> IF t[j] = "active" THEN "none" ELSE t[j]]
AckedOf(a) == {j \in Jobs : a[j] > 0}

LEMMA HandOfOne ==
    ASSUME NEW q, NEW a
    PROVE  /\ (\A k \in Jobs \ q : a[k] # 0) => HandOf(q, a) = NoJob
           /\ \A j \in Jobs \ q :
                 a[j] = 0 /\ (\A k \in Jobs \ q : a[k] = 0 => k = j) => HandOf(q, a) = j
<1> DEFINE P(j) == IF \E k \in Jobs \ q : a[k] = 0 THEN j \in Jobs \ q /\ a[j] = 0 ELSE j = NoJob
<1>1. (\E j \in Jobs \cup {NoJob} : P(j)) => P(HandOf(q, a))
  BY DEF HandOf
<1>2. ASSUME \A k \in Jobs \ q : a[k] # 0
      PROVE  HandOf(q, a) = NoJob
  <2>1. P(NoJob)
    BY <1>2
  <2> QED BY <1>1, <1>2, <2>1
<1>3. ASSUME NEW j \in Jobs \ q, a[j] = 0, \A k \in Jobs \ q : a[k] = 0 => k = j
      PROVE  HandOf(q, a) = j
  <2>1. P(j)
    BY <1>3
  <2> QED BY <1>1, <1>3, <2>1
<1> QED BY <1>2, <1>3

LEMMA LifecycleVars ==
    /\ Lifecycle!vars = <<queued, HandOf(queued, acks), OutcomeOf(task), AckedOf(acks), stopped>>
    /\ InHand = HandOf(queued, acks)
    /\ Lifecycle!vars' = <<queued', HandOf(queued', acks'), OutcomeOf(task'), AckedOf(acks'), stopped'>>
    /\ InHand' = HandOf(queued', acks')
BY DEF Lifecycle!vars, InHand, HandOf, OutcomeOf, AckedOf

\* While the consumer holds a job, it is the job in hand.
LEMMA HeldInHand ==
    ASSUME TypeOK, OnePlace, OneInHand, cjob \in Jobs
    PROVE  InHand = cjob /\ cjob \notin queued /\ acks[cjob] = 0
BY HeldOnly, HandOfOne, LifecycleVars DEF OneInHand

\* The queue delivers a job when none is in hand.
LEMMA DeliverTakes ==
    ASSUME WorkerAssumption, TypeOK, OnePlace, NEW j \in Jobs, Deliver(j),
           UNCHANGED <<acks, task, stopped>>
    PROVE  Lifecycle!Take(j)
<1>1. j \in queued /\ queued' = queued \ {j} /\ \A k \in Jobs \ queued : acks[k] > 0
  BY DEF Deliver
<1>2. acks[j] = 0
  <2>1. IsHandlers(suspended) /\ acks[j] \in Nat /\ Places(j) <= 1
    BY TypeParts DEF StepTypeOK, TypeOK, OnePlace
  <2>2. Copies(AtWatch(j), suspended) \in Nat /\ Copies(AtUnwatch(j), suspended) \in Nat
    BY <2>1, CopiesType
  <2>3. Here(j \in queued) = 1 /\ Here(slot = j) \in {0, 1} /\ Here(cjob = j) \in {0, 1}
    BY <1>1 DEF Here
  <2> QED BY <2>1, <2>2, <2>3 DEF Places
<1>3. InHand = NoJob
  <2>1. \A k \in Jobs \ queued : acks[k] # 0
    BY <1>1 DEF TypeOK
  <2> QED BY <2>1, HandOfOne, LifecycleVars
<1>4. InHand' = j
  <2>1. j \in Jobs \ queued' /\ acks'[j] = 0
    BY <1>1, <1>2
  <2>2. \A k \in Jobs \ queued' : acks'[k] = 0 => k = j
    BY <1>1 DEF TypeOK
  <2> QED BY <2>1, <2>2, HandOfOne, LifecycleVars
<1> QED BY <1>1, <1>3, <1>4 DEF Lifecycle!Take

\* Nothing that the promise speaks of changes.
LEMMA Unseen ==
    ASSUME UNCHANGED <<queued, acks, stopped>>, OutcomeOf(task') = OutcomeOf(task)
    PROVE  UNCHANGED Lifecycle!vars
BY LifecycleVars

LEMMA PreparesUnseen ==
    ASSUME TypeOK, NEW j \in Jobs, task[j] = "none", task' = [task EXCEPT ![j] = "active"]
    PROVE  OutcomeOf(task') = OutcomeOf(task)
BY DEF OutcomeOf, TypeOK

LEMMA TakenKeepsPromise ==
    ASSUME WorkerAssumption, TypeOK, TypeOK', OnePlace, OneInHand, ReadySeen, NoStop, Held, Settled,
           NEW t \in Transitions \ {"exit"}, NEW c, Requests(t, c), state \in From[t],
           stopped' = stopped
    PROVE  Lifecycle!Acknowledge \/ UNCHANGED Lifecycle!vars
<1>1. /\ Finish(To[t], c) /\ state' = To[t] /\ queued' = queued
      /\ task' = IF t = "prepare" THEN [task EXCEPT ![c.job] = "active"] ELSE task
  BY RequestTaken DEF Requests, Leaves
<1>2. cjob # NoJob => cjob \in Jobs
  BY DEF TypeOK
<1>3. CASE t = "prepare"
  <2>1. /\ c.job \in Jobs /\ AtUpdate(c.job) \in Pending /\ state' = "init"
    BY <1>3, TakenCause DEF Pending
  <2>2. task[c.job] = "none"
    BY <2>1 DEF Settled
  <2>3. acks' = acks
    BY <1>1, <2>1 DEF Finish
  <2> QED BY <1>1, <1>3, <2>1, <2>2, <2>3, PreparesUnseen, Unseen
<1>4. CASE t \in {"start", "done"}
  <2>1. state' \in {"working", "results"}
    BY <1>4, TakenCause
  <2>2. acks' = acks /\ task' = task
    BY <1>1, <1>4, <2>1 DEF Finish
  <2> QED BY <1>1, <2>2, Unseen
<1>5. CASE t = "bootstrap"
  <2>1. cjob = NoJob
    BY <1>5, TakenCause DEF ReadySeen
  <2>2. acks' = acks /\ task' = task
    BY <1>1, <1>5, <2>1 DEF Finish
  <2> QED BY <1>1, <2>2, Unseen
<1>6. CASE t = "cleanup"
  <2>1. Waiting("cleanup") \in Pending /\ cjob \in Jobs /\ task' = task
    BY <1>1, <1>2, <1>6, TakenCause DEF Held, Pending, Waiting, Handler, Closing
  <2>2. CASE acks' = acks
    BY <1>1, <2>1, <2>2, Unseen
  <2>3. CASE acks' = [acks EXCEPT ![cjob] = @ + 1]
    <3>1. InHand = cjob /\ cjob \notin queued /\ acks[cjob] = 0 /\ acks \in [Jobs -> Nat]
      BY <2>1, HeldInHand DEF TypeOK
    <3>2. InHand' = NoJob
      <4>1. \A k \in Jobs \ queued' : acks'[k] # 0
        BY <1>1, <2>1, <2>3, <3>1 DEF OneInHand
      <4> QED BY <4>1, HandOfOne, LifecycleVars
    <3>3. AckedOf(acks') = AckedOf(acks) \cup {cjob}
      BY <2>1, <2>3, <3>1 DEF AckedOf
    <3>4. OutcomeOf(task)[cjob] # "none"
      BY <2>1 DEF Settled, OutcomeOf
    <3>5. cjob # NoJob
      BY <2>1 DEF WorkerAssumption, NoJob
    <3> QED BY <1>1, <2>1, <3>1, <3>2, <3>3, <3>4, <3>5 DEF Lifecycle!Acknowledge, AckedOf, OutcomeOf
  <2> QED BY <1>1, <2>2, <2>3 DEF Finish
<1> QED BY <1>3, <1>4, <1>5, <1>6, TakenCause

LEMMA FinishKeepsPromise ==
    ASSUME WorkerAssumption, TypeOK, TypeOK', OnePlace, OneInHand, Held, Recorded, Settled,
           NEW h \in Pending, FinishStep(h)
    PROVE  (\E r \in Results : Lifecycle!Settle(r)) \/ UNCHANGED Lifecycle!vars
<1>1. /\ h.at \in Finishing /\ h.job = cjob /\ h.res \in Results
      /\ UNCHANGED <<queued, acks, stopped>> /\ task[cjob] = "active" /\ cjob \in Jobs
  BY FinishForm DEF Recorded, Held, Closing, TypeOK
<1>2. CASE task' = task
  BY <1>1, <1>2, Unseen
<1>3. CASE TaskUpdated(h)
  <2>1. task' = [task EXCEPT ![cjob] = h.res] /\ task \in [Jobs -> Results \cup {"active"}]
    BY <1>1, <1>3 DEF TaskUpdated, TypeOK
  <2>2. h.res # "active" /\ cjob # NoJob
    BY <1>1 DEF Results, WorkerAssumption, NoJob
  <2>3. OutcomeOf(task)[cjob] = "none"
    BY <1>1 DEF OutcomeOf
  <2>4. OutcomeOf(task') = [OutcomeOf(task) EXCEPT ![cjob] = h.res]
    BY <1>1, <2>1, <2>2 DEF OutcomeOf
  <2>5. InHand = cjob /\ InHand' = cjob
    BY <1>1, HeldInHand, LifecycleVars
  <2>6. Lifecycle!Settle(h.res)
    BY <1>1, <2>2, <2>3, <2>4, <2>5 DEF Lifecycle!Settle, OutcomeOf
  <2> QED BY <1>1, <2>6
<1> QED BY <1>2, <1>3 DEF FinishStep, Unwatched, ResultStored, StoreFailed, etcdVars

LEMMA PromiseStep ==
    ASSUME TypeOK, TypeOK', OnePlace, OneInHand, HandInv, RecordInv, LifeInv, [Next]_vars,
           stopped = {}, stopped' = {}
    PROVE  [Lifecycle!Next]_(Lifecycle!vars)
<1> USE WorkerAssumption
<1>0. ReadySeen /\ NoStop /\ Held /\ Recorded /\ Settled
  BY DEF HandInv, RecordInv, LifeInv
<1>1. CASE Aside
  <2>1. CASE queued' = queued
    BY <1>1, <2>1, Unseen DEF Aside
  <2>2. CASE \E j \in Jobs : Deliver(j)
    BY <1>1, <2>2, DeliverTakes DEF Aside, Lifecycle!Next
  <2> QED BY <2>1, <2>2, QueuedKept
<1>2. CASE Taken
  BY <1>0, <1>2, TakenKeepsPromise DEF Taken, Lifecycle!Next
<1>3. CASE RefusedPrepare
  <2>1. /\ cjob \in Jobs /\ AtUpdate(cjob) \in Pending /\ UNCHANGED <<queued, acks>>
        /\ task' = [task EXCEPT ![cjob] = "active"]
    BY <1>0, <1>3, RefusedForm
  <2> QED BY <1>0, <2>1, PreparesUnseen, Unseen DEF Settled
<1>4. CASE \E j \in Jobs : JobWatched(j)
  <2>1. UNCHANGED <<queued, acks, task>>
    BY <1>4 DEF JobWatched, otherVars
  <2> QED BY <2>1, Unseen
<1>5. CASE \E h \in Pending : FinishStep(h)
  BY <1>0, <1>5, FinishKeepsPromise DEF Lifecycle!Next
<1>6. CASE \E j \in Jobs : StopJob(j)
  BY <1>6 DEF StopJob
<1> QED BY <1>0, <1>1, <1>2, <1>3, <1>4, <1>5, <1>6, JobStep

LEMMA PromiseInit == Init => Lifecycle!Init
<1> SUFFICES ASSUME Init PROVE Lifecycle!Init
  OBVIOUS
<1>1. InHand = NoJob
  <2>1. \A k \in Jobs \ queued : acks[k] # 0
    BY DEF Init
  <2> QED BY <2>1, HandOfOne, LifecycleVars
<1>2. /\ queued = Jobs /\ stopped = {} /\ {j \in Jobs : acks[j] > 0} = {}
      /\ [j \in Jobs |-> IF task[j] = "active" THEN "none" ELSE task[j]] = [j \in Jobs |-> "none"]
  BY DEF Init
<1> QED BY <1>1, <1>2 DEF Lifecycle!Init

\* As long as no pipeline is stopped, the worker keeps the promise of JobLifecycle
\* (JobConsumer.js:62-103, 270-288): one job in hand, its outcome written once, and
\* its acknowledgement after that, through disconnects, failures and commands.
THEOREM KeepsPromise == Spec /\ [](stopped = {}) => JobLifecycleSpec
<1>1. TypeOK /\ TypeOK' /\ OnePlace /\ OneInHand /\ HandInv /\ RecordInv /\ LifeInv /\ [Next]_vars
        /\ stopped = {} /\ (stopped = {})' => [Lifecycle!Next]_(Lifecycle!vars)
  BY PromiseStep
<1> QED
  BY <1>1, PromiseInit, LifeInvariant, RecordInvariant, HandInvariant, TypeCorrect,
     JobAtOnePlace, OneJobInHand, PTL DEF Spec, JobLifecycleSpec, Lifecycle!Spec
-----------------------------------------------------------------------------
(***************************************************************************)
(* What the algorithm answers, over its first connection, is for the job   *)
(* in hand.  It owes the answer to one command at a time: the command is   *)
(* sent when nothing else is under way for the job, and whatever takes the *)
(* worker out of init or working has taken that answer, or the connection  *)
(* is gone with it.                                                        *)
(***************************************************************************)
Loose == {"extract", "algError"}
OutPoints == Loose \cup {"disconnect", "unwatch", "put"}
NoLoose == \A h \in Pending : h.at \notin Loose

Output ==
    /\ nConnections = 0 => /\ state \in {"bootstrap", "exit"} /\ ~algUp /\ ~isConnected /\ asked = {}
                           /\ NoLoose /\ \A h \in Pending : h.at # "disconnect"
    /\ halfOpen = 0 /\ socket = algUp
    /\ algUp => \A h \in Pending : h.at # "disconnect"
    /\ algUp /\ state \in {"bootstrap", "ready", "results"} => asked = {} /\ NoLoose
    /\ algUp /\ state = "init" => asked \subseteq {"initialize"}
    /\ algUp /\ state = "working" => asked \subseteq {"start"} /\ \A h \in Pending : h.at # "extract"
    /\ algUp /\ state \in {"init", "working"} =>
          /\ asked # {} => algInput = cjob /\ NoLoose
          /\ \A h \in Pending : h.at \in Loose =>
                /\ suspended[h] = 1 /\ (h.at = "extract" => h.job = cjob)
                /\ \A g \in Pending : g.at \in Loose => g = h
    /\ \A h \in Pending : /\ h.at = "unwatch" => h.res \in {"error", h.job}
                          /\ h.at = "put" => h.res = h.job
    /\ \A j \in Jobs : stored[j] \in {"none", "empty", j}

OutputInv == stopped = {} /\ nConnections <= 1 => Output

LEMMA OutputKept ==
    ASSUME TypeOK, TypeOK', Output, state' \in {state, "exit"},
           state \in {"init", "working"} => cjob' = cjob,
           asked' \subseteq asked, FewerIn(OutPoints, suspended, suspended'),
           UNCHANGED <<algInput, stored, sockVars, nConnections, isConnected>>
    PROVE  Output'
<1>1. IsHandlers(suspended) /\ IsHandlers(suspended')
  BY TypeParts, TypePartsNext DEF StepTypeOK
<1>2. \A h \in DOMAIN suspended' : h.at \in OutPoints =>
         h \in DOMAIN suspended /\ (suspended[h] = 1 => suspended'[h] = 1)
  BY <1>1 DEF FewerIn, IsHandlers
<1>3. NoLoose => NoLoose'
  BY <1>2 DEF NoLoose, Pending, OutPoints
<1> QED BY <1>2, <1>3 DEF Output, OutPoints, Loose, Pending, sockVars

LEMMA RefusedOutput ==
    ASSUME WorkerAssumption, TypeOK, TypeOK', Output, NEW t \in Transitions, NEW c, Requests(t, c),
           state \notin From[t] \/ t = "exit", UNCHANGED <<sockVars, nConnections, isConnected>>
    PROVE  Output'
<1>1. /\ state' \in {state, "exit"} /\ suspended' = c.rest /\ asked' = c.asked
      /\ UNCHANGED <<cjob, stored, algInput>>
  BY RequestRefused DEF Requests, Leaves
<1>2. IsHandlers(suspended)
  BY TypeParts DEF StepTypeOK
<1>3. FewerIn(OutPoints, suspended, suspended')
  BY <1>1, <1>2, RequestRest, Fewer DEF Requests
<1>4. asked' \subseteq asked
  BY <1>1, CauseAsked DEF Requests
<1> QED BY <1>1, <1>3, <1>4, OutputKept

\* Starting up: with its first connection the algorithm owes nothing.
LEMMA BootOutput ==
    ASSUME WorkerAssumption, TypeOK, TypeOK', NoStop, Output, InitWorker \/ Connect, nConnections' <= 1
    PROVE  Output'
<1>1. IsHandlers(suspended) /\ nConnections \in Nat
  BY TypeParts DEF StepTypeOK, TypeOK
<1>2. UNCHANGED <<stored, algInput>>
  BY DEF InitWorker, Connect, etcdVars
<1>3. ASSUME NEW c, Requests("bootstrap", c), state = "bootstrap"
      PROVE  /\ state' = "ready" /\ asked' \subseteq asked
             /\ FewerIn(OutPoints, suspended, suspended')
  <2>1. "bootstrap" \in Transitions /\ state \in From["bootstrap"] /\ To["bootstrap"] = "ready"
    BY <1>3 DEF Transitions, From, To
  <2>2. c.rest = suspended /\ c.asked \subseteq asked
    BY <1>3 DEF Requests, Cause, Resumes
  <2>3. state' = "ready" /\ asked' \subseteq c.asked \cup CommandOf("ready")
    BY <1>3, <2>1, RequestTaken DEF Entered, EnteredUnheard
  <2>4. suspended' = suspended \/ suspended' = BagAdd(suspended, Waiting("ready"))
    BY <1>3, <2>1, <2>2, TakenSuspends
  <2>5. Waiting("ready") \in Handlers /\ Waiting("ready").at = "ready"
    BY HandlerType DEF Waiting, Handler, Points, Results
  <2>6. FewerIn(OutPoints, suspended, suspended')
    BY <1>1, <2>4, <2>5, Fewer DEF OutPoints, Loose
  <2> QED BY <2>2, <2>3, <2>6 DEF CommandOf
<1>4. ASSUME NEW c, Requests("bootstrap", c), state # "bootstrap"
      PROVE  /\ state' \in {state, "exit"} /\ asked' \subseteq asked /\ cjob' = cjob
             /\ FewerIn(OutPoints, suspended, suspended')
  <2>1. "bootstrap" \in Transitions /\ state \notin From["bootstrap"]
    BY <1>4 DEF Transitions, From
  <2>2. c.rest = suspended /\ c.asked \subseteq asked
    BY <1>4 DEF Requests, Cause, Resumes
  <2>3. state' \in {state, "exit"} /\ suspended' = suspended /\ asked' = c.asked /\ cjob' = cjob
    BY <1>4, <2>1, <2>2, RequestRefused
  <2> QED BY <1>1, <2>2, <2>3, Fewer
<1>5. ASSUME Still
      PROVE  /\ state' = state /\ asked' \subseteq asked /\ cjob' = cjob
             /\ FewerIn(OutPoints, suspended, suspended')
  BY <1>1, <1>5, Fewer DEF Still, smVars, jobVars
<1>6. /\ asked' \subseteq asked /\ FewerIn(OutPoints, suspended, suspended')
      /\ \/ state' \in {state, "exit"} /\ cjob' = cjob
         \/ state = "bootstrap" /\ state' = "ready" /\ isConnected'
  BY <1>3, <1>4, <1>5, Booting
<1>7. \A h \in DOMAIN suspended' : h.at \in OutPoints => h \in DOMAIN suspended
  BY <1>6 DEF FewerIn
<1>8. CASE InitWorker
  <2>1. UNCHANGED <<sockVars, nConnections, isConnected>>
    BY <1>8 DEF InitWorker, counters
  <2>2. CASE state' \in {state, "exit"} /\ cjob' = cjob
    BY <1>2, <1>6, <2>1, <2>2, OutputKept
  <2>3. CASE state = "bootstrap" /\ state' = "ready" /\ isConnected'
    <3>1. nConnections # 0 /\ UNCHANGED <<algUp, socket, halfOpen, nConnections>>
      BY <2>1, <2>3 DEF Output, sockVars
    <3> QED BY <1>2, <1>6, <1>7, <2>3, <3>1 DEF Output, NoLoose, OutPoints, Loose, Pending
  <2> QED BY <1>6, <2>2, <2>3
<1>9. CASE Connect
  <2>1. nConnections = 0 /\ nConnections' = 1 /\ ~algUp /\ algUp' = TRUE /\ socket' = TRUE
        /\ halfOpen' = 0
    <3>1. nConnections' = nConnections + 1
      BY <1>9 DEF Connect
    <3>2. nConnections = 0
      BY <1>1, <3>1
    <3> QED BY <1>9, <3>1, <3>2 DEF Connect, Output
  <2>2. /\ state \in {"bootstrap", "exit"} /\ asked = {}
        /\ NoLoose /\ \A h \in Pending : h.at # "disconnect"
    BY <2>1 DEF Output
  <2>3. asked' = {} /\ state' \in {"bootstrap", "ready", "exit"}
    BY <1>6, <2>2
  <2>4. NoLoose' /\ \A h \in DOMAIN suspended' : h.at # "disconnect"
    BY <1>7, <2>2 DEF NoLoose, Pending, OutPoints
  <2> QED BY <1>2, <1>7, <2>1, <2>3, <2>4 DEF Output, Pending, OutPoints
<1> QED BY <1>8, <1>9

LEMMA TakenOutput ==
    ASSUME WorkerAssumption, TypeOK, TypeOK', NoStop, Held, Held', Output,
           NEW t \in Transitions \ {"exit", "bootstrap"}, NEW c, Requests(t, c), state \in From[t]
    PROVE  Output'
<1>1. /\ Finish(To[t], c) /\ state' = To[t] /\ Cause(t, c)
      /\ UNCHANGED <<stored, algInput, algUp, halfOpen, socket, nConnections, isConnected>>
      /\ IsHandlers(suspended) /\ IsHandlers(c.rest) /\ c.job \in Jobs \cup {NoJob}
      /\ c.res \in Results
  BY RequestTaken, TypeParts DEF Requests, Leaves, sockVars, CallOK, StepTypeOK
<1>2. asked' \subseteq c.asked \cup CommandOf(To[t]) /\ c.asked \subseteq asked
  BY <1>1, RequestTaken, CauseAsked DEF Entered, EnteredUnheard
<1>3. FewerIn(Points \ Entering, suspended, suspended')
  BY RequestMoves
<1>4. /\ \A h \in DOMAIN suspended' : h.at \in {"algError", "disconnect", "put"} => h \in DOMAIN suspended
      /\ \A h \in DOMAIN suspended' : h.at \in {"algError"} => suspended'[h] <= suspended[h]
  BY <1>3 DEF FewerIn, Points, Entering
<1>5. c.rest = suspended \/ \E h \in DOMAIN suspended : c.rest = BagRemove(suspended, h)
  BY <1>1, RequestRest
<1>6. FewerIn(OutPoints, suspended, c.rest)
  BY <1>1, <1>5, Fewer
<1>7. cjob # NoJob => cjob \in Jobs
  BY DEF TypeOK
<1>8. state # "bootstrap" /\ state \in {"ready", "init", "working", "results"} /\ nConnections # 0
  BY TakenCause DEF Output
<1>9. CASE t = "prepare"
  <2> DEFINE h == Handler("extract", "none", c.job)
  <2>1. /\ state = "ready" /\ state' = "init" /\ c.job \in Jobs /\ c.job = cjob
    <3>1. /\ state = "ready" /\ state' = "init" /\ c.job \in Jobs
          /\ AtUpdate(c.job) \in DOMAIN suspended
      BY <1>9, TakenCause
    <3>2. AtUpdate(c.job) = AtUpdate(cjob)
      BY <3>1 DEF Held, Pending, AtUpdate, Handler
    <3> QED BY <3>1, <3>2 DEF AtUpdate, Handler
  <2>2. cjob' = cjob /\ asked' \subseteq asked
    BY <1>1, <1>2, <1>9, <2>1 DEF Finish, CommandOf
  <2>3. h \in Handlers /\ h.at = "extract" /\ h.job = cjob
    BY <2>1, HandlerType DEF Points, Results, Handler
  <2>4. suspended' = c.rest \/ suspended' = BagAdd(c.rest, h)
    BY <1>9, TakenSuspends
  <2>5. algUp => /\ asked = {}
                 /\ \A g \in DOMAIN c.rest : g.at \notin Loose
    BY <1>6, <2>1 DEF Output, NoLoose, Pending, FewerIn, OutPoints
  <2>6. algUp => /\ \A g \in DOMAIN suspended' : g.at \in Loose => g = h
                 /\ h \in DOMAIN suspended' => suspended'[h] = 1
    <3>1. h.at \in Loose
      BY <2>3 DEF Loose
    <3>2. CASE suspended' = c.rest
      BY <2>5, <3>1, <3>2
    <3>3. CASE suspended' = BagAdd(c.rest, h)
      <4> HIDE DEF h
      <4> QED BY <1>1, <2>3, <2>5, <3>1, <3>3, FirstSuspended
    <3> QED BY <2>4, <3>2, <3>3
  <2>7. \A g \in DOMAIN suspended' : g.at = "unwatch" => g \in DOMAIN suspended
    <3>1. DOMAIN suspended' \subseteq DOMAIN c.rest \cup {h}
      <4> HIDE DEF h
      <4> QED BY <1>1, <2>3, <2>4, SuspendOne
    <3> QED BY <1>6, <2>3, <3>1 DEF FewerIn, OutPoints
  <2> HIDE DEF h
  <2> QED BY <1>1, <1>4, <1>8, <2>1, <2>2, <2>3, <2>5, <2>6, <2>7 DEF Output, Pending
<1>10. CASE t = "start"
  <2>1. state = "init" /\ state' = "working" /\ suspended' = suspended
        /\ algUp /\ "initialize" \in asked /\ c.asked = asked \ {"initialize"}
    BY <1>1, <1>10, TakenCause, TakenSuspends DEF Cause, Reachable, Output
  <2>2. asked = {"initialize"} /\ algInput = cjob /\ NoLoose
    BY <2>1 DEF Output
  <2>3. asked' \subseteq {"start"} /\ cjob' = cjob
    BY <1>1, <1>2, <2>1, <2>2 DEF Finish, CommandOf
  <2>4. \A h \in DOMAIN suspended' : h.at \notin Loose
    BY <2>1, <2>2 DEF NoLoose, Pending
  <2> QED BY <1>1, <1>8, <2>1, <2>2, <2>3, <2>4 DEF Output, NoLoose, Pending, Loose
<1>11. CASE t = "cleanup"
  <2>1. state = "results" /\ state' = "ready" /\ asked' \subseteq asked
    BY <1>1, <1>2, <1>11, TakenCause DEF CommandOf
  <2>2. suspended' = c.rest \/ suspended' = BagAdd(c.rest, Waiting("ready"))
    BY <1>11, TakenSuspends
  <2>3. Waiting("ready") \in Handlers /\ Waiting("ready").at = "ready"
    BY HandlerType DEF Waiting, Handler, Points, Results
  <2>4. FewerIn(OutPoints, suspended, suspended')
    BY <1>1, <1>5, <2>2, <2>3, Fewer DEF OutPoints, Loose
  <2>5. \A h \in DOMAIN suspended' : h.at \in OutPoints => h \in DOMAIN suspended
    BY <2>4 DEF FewerIn
  <2> QED BY <1>1, <1>8, <2>1, <2>5 DEF Output, NoLoose, Pending, OutPoints, Loose
<1>12. CASE t = "done"
  <2> DEFINE h == Handler("unwatch", c.res, cjob)
  <2>1. state \in {"init", "working"} /\ state' = "results" /\ cjob \in Jobs /\ cjob # NoJob
    BY <1>7, <1>12, TakenCause DEF Held
  <2>2. cjob' = cjob /\ asked' \subseteq c.asked
    BY <1>1, <1>2, <2>1 DEF Finish, CommandOf
  <2>3. /\ c.res \in {"error", cjob}
        /\ algUp => c.asked = {} /\ \A g \in DOMAIN c.rest : g.at \notin Loose
    <3>1. CASE c.res = algInput /\ algUp /\ "start" \in asked /\ c.rest = suspended
               /\ c.asked = asked \ {"start"}
      <4>1. algInput = cjob /\ NoLoose /\ asked = {"start"}
        BY <2>1, <3>1 DEF Output
      <4> QED BY <3>1, <4>1 DEF NoLoose, Pending
    <3>2. CASE c.res = "error" /\ \E g \in DOMAIN suspended :
                  g.at \in {"algError", "disconnect", "extract"} /\ Resumes(g, c)
      <4>1. PICK g \in DOMAIN suspended : /\ g.at \in {"algError", "disconnect", "extract"}
                                          /\ c.rest = BagRemove(suspended, g) /\ c.asked = asked
        BY <3>2 DEF Resumes
      <4>2. CASE algUp
        <5>1. g.at \in Loose
          BY <4>1, <4>2 DEF Output, Loose, Pending
        <5>2. suspended[g] = 1 /\ \A f \in DOMAIN suspended : f.at \in Loose => f = g
          BY <2>1, <4>2, <5>1 DEF Output, Pending
        <5>3. \A f \in DOMAIN c.rest : f.at \notin Loose
          BY <1>1, <4>1, <5>2, LastResumed
        <5>4. asked = {}
          BY <2>1, <4>2, <5>1 DEF Output, NoLoose, Pending
        <5> QED BY <3>2, <4>1, <5>3, <5>4
      <4> QED BY <3>2, <4>2
    <3> QED BY <1>1, <1>12, <3>1, <3>2 DEF Cause, NoStop, Reachable, Output
  <2>4. h \in Handlers /\ h.at = "unwatch" /\ h.job = cjob /\ h.res = c.res
    BY <1>1, <2>1, HandlerType DEF Points, Handler
  <2>5. DOMAIN suspended' \subseteq DOMAIN c.rest \cup {h}
    <3>1. suspended' = c.rest \/ suspended' = BagAdd(c.rest, h)
      BY <1>12, <2>1, TakenSuspends
    <3> HIDE DEF h
    <3> QED BY <1>1, <2>4, <3>1, SuspendOne
  <2>6. \A g \in DOMAIN suspended' : g.at \in OutPoints => g = h \/ g \in DOMAIN suspended
    BY <1>6, <2>5 DEF FewerIn
  <2>7. algUp => \A g \in DOMAIN suspended' : g.at \notin Loose
    BY <2>3, <2>4, <2>5 DEF Loose
  <2>8. algUp => asked' = {}
    BY <2>2, <2>3
  <2> HIDE DEF h
  <2> QED
    BY <1>1, <1>8, <2>1, <2>2, <2>3, <2>4, <2>6, <2>7, <2>8
    DEF Output, NoLoose, Pending, OutPoints
<1> QED BY <1>9, <1>10, <1>11, <1>12, TakenCause

LEMMA ResumingOutput ==
    ASSUME TypeOK, TypeOK', Output,
           UNCHANGED <<state, asked, algInput, stored, sockVars, nConnections, isConnected>>,
           state \in {"init", "working"} => cjob' = cjob,
           NEW b, b = suspended \/ \E h \in DOMAIN suspended : b = BagRemove(suspended, h),
           \/ suspended' = b
           \/ \E at \in Points \ OutPoints, r \in Results, j \in Jobs \cup {NoJob} :
                 suspended' = BagAdd(b, Handler(at, r, j))
    PROVE  Output'
<1>1. IsHandlers(suspended)
  BY TypeParts DEF StepTypeOK
<1>2. suspended' = b \/ \E h \in Handlers : h.at \notin OutPoints /\ suspended' = BagAdd(b, h)
  <2>1. \A at \in Points, r \in Results, j \in Jobs \cup {NoJob} :
           Handler(at, r, j) \in Handlers /\ Handler(at, r, j).at = at
    BY HandlerType DEF Handler
  <2> QED BY <2>1
<1>3. FewerIn(OutPoints, suspended, suspended')
  <2> HIDE DEF OutPoints
  <2> QED BY <1>1, <1>2, Fewer
<1> QED BY <1>3, OutputKept

\* The input is read, and the algorithm told to initialize, for the job in hand.
LEMMA ExtractedOutput ==
    ASSUME TypeOK, TypeOK', NoStop, Output, NEW j \in Jobs, Extracted(j)
    PROVE  Output'
<1> DEFINE h == Handler("extract", "none", j)
<1>1. /\ IsHandlers(suspended) /\ h \in DOMAIN suspended /\ suspended' = BagRemove(suspended, h)
      /\ UNCHANGED <<state, cjob, stored, sockVars, algUp, socket, halfOpen, nConnections, isConnected>>
      /\ h.at = "extract" /\ h.job = j
  BY TypeParts DEF Extracted, Resumed, Rest, StepTypeOK, smVars, jobVars, otherVars, etcdVars,
     sockVars, bootVars, counters, Handler
<1>2. CASE ~socket
  <2>1. UNCHANGED <<asked, algInput>>
    BY <1>2 DEF Extracted
  <2> HIDE DEF h
  <2> QED BY <1>1, <2>1, ResumingOutput
<1>3. CASE socket
  <2>1. algUp /\ asked' = asked \cup {"initialize"} /\ algInput' = j
    BY <1>3 DEF Extracted, Output
  <2>2. FewerIn(OutPoints, suspended, suspended')
    <3> HIDE DEF h
    <3> QED BY <1>1, Fewer
  <2>3. \A g \in DOMAIN suspended' : g.at \in OutPoints => g \in DOMAIN suspended
    BY <2>2 DEF FewerIn
  <2>4. h.at \in Loose /\ h \in Pending /\ ~NoLoose
    BY <1>1 DEF Loose, NoLoose, Pending
  <2>5. nConnections # 0 /\ state \in {"init", "exit"}
    BY <1>1, <2>1, <2>4 DEF Output, NoStop, TypeOK, States, Pending
  <2>6. CASE state = "init"
    <3>1. /\ suspended[h] = 1 /\ j = cjob /\ asked = {}
          /\ \A g \in DOMAIN suspended : g.at \in Loose => g = h
      BY <1>1, <2>1, <2>4, <2>6 DEF Output, Pending
    <3>2. \A g \in DOMAIN suspended' : g.at \notin Loose
      <4> HIDE DEF h
      <4> QED BY <1>1, <3>1, LastResumed
    <3> HIDE DEF h
    <3> QED BY <1>1, <2>1, <2>3, <2>5, <2>6, <3>1, <3>2 DEF Output, NoLoose, Pending, OutPoints
  <2>7. CASE state = "exit"
    BY <1>1, <2>1, <2>3, <2>5, <2>7 DEF Output, Pending, OutPoints
  <2> QED BY <2>5, <2>6, <2>7
<1> QED BY <1>2, <1>3

\* The algorithm reports an error in the place of the answer it owes.
LEMMA AlgErrorOutput ==
    ASSUME TypeOK, TypeOK', NoStop, Output, AlgError
    PROVE  Output'
<1> DEFINE h == Waiting("algError")
<1>1. PICK m \in asked \cap {"initialize", "start"} : asked' = asked \ {m}
  BY DEF AlgError
<1>2. /\ algUp /\ suspended' = BagAdd(suspended, h)
      /\ UNCHANGED <<state, cjob, stored, algInput, algUp, socket, halfOpen, nConnections, isConnected>>
  BY DEF AlgError, Reachable, Output, smVars, jobVars, otherVars, etcdVars, sockVars, bootVars,
     counters
<1>3. IsHandlers(suspended) /\ h \in Handlers /\ h.at = "algError"
  BY TypeParts, HandlerType DEF StepTypeOK, Waiting, Handler, Points, Results
<1>4. nConnections # 0 /\ state \in {"init", "working", "exit"}
  BY <1>1, <1>2 DEF Output, NoStop, TypeOK, States
<1>5. DOMAIN suspended' = DOMAIN suspended \cup {h}
  <2> HIDE DEF h
  <2> QED BY <1>2, <1>3, SuspendOne
<1>6. CASE state \in {"init", "working"}
  <2>1. asked' = {} /\ \A g \in DOMAIN suspended : g.at \notin Loose
    BY <1>1, <1>2, <1>6 DEF Output, NoLoose, Pending
  <2>2. /\ suspended'[h] = 1
        /\ \A g \in DOMAIN suspended' : g.at \in Loose => g = h
    <3>1. h.at \in Loose
      BY <1>3 DEF Loose
    <3> HIDE DEF h
    <3> QED BY <1>2, <1>3, <2>1, <3>1, FirstSuspended
  <2> HIDE DEF h
  <2> QED BY <1>2, <1>3, <1>4, <1>5, <1>6, <2>1, <2>2 DEF Output, Pending
<1>7. CASE state = "exit"
  <2> HIDE DEF h
  <2> QED BY <1>2, <1>3, <1>4, <1>5, <1>7 DEF Output, Pending
<1> QED BY <1>4, <1>6, <1>7

LEMMA DisconnectOutput ==
    ASSUME TypeOK, TypeOK', Output, Disconnect
    PROVE  Output'
<1> DEFINE h == Waiting("disconnect")
<1>1. /\ UNCHANGED <<state, cjob, stored, algInput, nConnections, isConnected>>
      /\ suspended' = suspended \/ suspended' = BagAdd(suspended, h)
  BY DEF Disconnect, smVars, jobVars, etcdVars, bootVars, counters
<1>2. algUp /\ algUp' = FALSE /\ socket' = FALSE /\ halfOpen' = 0 /\ asked' = asked /\ nConnections # 0
  BY DEF Disconnect, Output
<1>3. IsHandlers(suspended) /\ h \in Handlers /\ h.at = "disconnect"
  BY TypeParts, HandlerType DEF StepTypeOK, Waiting, Handler, Points, Results
<1>4. DOMAIN suspended' \subseteq DOMAIN suspended \cup {h}
  <2> HIDE DEF h
  <2> QED BY <1>1, <1>3, SuspendOne
<1> HIDE DEF h
<1> QED BY <1>1, <1>2, <1>3, <1>4 DEF Output, Pending

LEMMA FinishOutput ==
    ASSUME TypeOK, TypeOK', Held, Output, NEW h \in Pending, FinishStep(h)
    PROVE  Output'
<1>1. /\ h.at \in Finishing /\ h.job = cjob /\ h.res \in Results /\ cjob \in Jobs
      /\ UNCHANGED <<state, cjob, asked, algInput>>
  BY FinishForm DEF Held, Closing, TypeOK
<1>2. PICK g \in Handlers :
         /\ suspended' = BagAdd(BagRemove(suspended, h), g)
         /\ \/ Unwatched(h) /\ h.res # "error" /\ g = Handler("put", h.res, cjob)
            \/ Unwatched(h) /\ h.res = "error" /\ g = Handler("update", h.res, cjob)
            \/ ResultStored(h) /\ g = Handler("update", h.res, cjob)
            \/ StoreFailed(h) /\ g = Handler("update", "error", cjob)
            \/ TaskUpdated(h) /\ g = Waiting("cleanup")
  BY FinishForm
<1>3. UNCHANGED <<sockVars, algUp, socket, halfOpen, nConnections, isConnected>>
  BY DEF FinishStep, Unwatched, ResultStored, StoreFailed, TaskUpdated, FinishWith, otherVars,
     sockVars, bootVars, counters
<1>4. IsHandlers(suspended) /\ h \in DOMAIN suspended
  BY TypeParts DEF StepTypeOK, Pending
<1> DEFINE b == BagRemove(suspended, h)
<1>5. IsHandlers(b) /\ FewerIn(OutPoints, suspended, b)
  BY <1>4, ResumeOne, Fewer
<1>6. CASE g.at \notin OutPoints /\ stored' = stored
  <2>1. FewerIn(OutPoints, suspended, suspended')
    BY <1>2, <1>4, <1>6, Fewer
  <2> QED BY <1>1, <1>3, <1>6, <2>1, OutputKept
<1>7. CASE Unwatched(h) /\ h.res # "error" /\ g = Handler("put", h.res, cjob)
  <2>1. h.res = cjob /\ stored' = stored
    BY <1>1, <1>7 DEF Output, Unwatched
  <2>2. g.at = "put" /\ g.res = cjob /\ g.job = cjob
    BY <1>7, <2>1 DEF Handler
  <2>3. DOMAIN suspended' = DOMAIN b \cup {g}
    BY <1>2, <1>5, SuspendOne
  <2>4. FewerIn(Loose \cup {"disconnect"}, suspended, suspended')
    BY <1>2, <1>4, <2>2, Fewer DEF Loose
  <2>5. IsHandlers(suspended')
    BY TypePartsNext DEF StepTypeOK
  <2>6. \A f \in DOMAIN suspended' : f.at \in Loose \cup {"disconnect"} =>
           f \in DOMAIN suspended /\ (suspended[f] = 1 => suspended'[f] = 1)
    BY <1>4, <2>4, <2>5 DEF FewerIn, IsHandlers
  <2>7. \A f \in DOMAIN suspended' : f.at \in OutPoints => f = g \/ f \in DOMAIN suspended
    BY <1>5, <2>3 DEF FewerIn
  <2>8. NoLoose => NoLoose'
    BY <2>6 DEF NoLoose, Pending
  <2> HIDE DEF b
  <2> QED BY <1>1, <1>3, <2>1, <2>2, <2>6, <2>7, <2>8 DEF Output, Pending, OutPoints, Loose
<1>8. CASE ResultStored(h) /\ g = Handler("update", h.res, cjob)
  <2>1. stored' = [stored EXCEPT ![cjob] = h.res] /\ h.res = cjob /\ stored \in [Jobs -> Results]
    BY <1>1, <1>8 DEF ResultStored, Output, TypeOK
  <2>2. g.at = "update"
    BY <1>8 DEF Handler
  <2>3. FewerIn(OutPoints, suspended, suspended')
    BY <1>2, <1>4, <2>2, Fewer DEF OutPoints, Loose
  <2>5. IsHandlers(suspended')
    BY TypePartsNext DEF StepTypeOK
  <2>6. \A f \in DOMAIN suspended' : f.at \in OutPoints =>
           f \in DOMAIN suspended /\ (suspended[f] = 1 => suspended'[f] = 1)
    BY <1>4, <2>3, <2>5 DEF FewerIn, IsHandlers
  <2>8. NoLoose => NoLoose'
    BY <2>6 DEF NoLoose, Pending, OutPoints
  <2>9. \A j \in Jobs : stored'[j] \in {"none", "empty", j}
    BY <1>1, <2>1 DEF Output
  <2> QED BY <1>1, <1>3, <2>6, <2>8, <2>9 DEF Output, Pending, OutPoints, Loose
<1>9. CASE \/ Unwatched(h) /\ g = Handler("update", h.res, cjob)
           \/ StoreFailed(h) /\ g = Handler("update", "error", cjob)
           \/ TaskUpdated(h) /\ g = Waiting("cleanup")
  <2>1. stored' = stored
    BY <1>9 DEF Unwatched, StoreFailed, TaskUpdated, etcdVars
  <2>2. g.at \notin OutPoints
    BY <1>9 DEF Waiting, Handler, OutPoints, Loose
  <2> QED BY <1>6, <2>1, <2>2
<1> QED BY <1>2, <1>7, <1>8, <1>9

LEMMA ConnectionsCounted ==
    ASSUME [Next]_vars
    PROVE  nConnections' = nConnections \/ Connect
BY DEF Next, InitWorker, Disconnect, BootTimeout, Answer, AlgInitialized, AlgDone, AlgStopped,
       AlgError, Deliver, StopJob, Poll, Return, JobWatched, JobUnwatched, JobUpdated, Extracted,
       ExtractFailed, Unwatched, ResultStored, StoreFailed, FinishWith, TaskUpdated,
       QueueReturned, CleanedUp, ReadyHandled, StopHandled, SetInactive, AlgErrorHandled,
       DisconnectHandled, SetHot, StopProcessing, StartProcessing, Command, StopTimeout,
       IdleTimeout, Rejected, Unhandled, Failing, Exit, Signal, Gone, vars, otherVars, counters

LEMMA OutputStep ==
    ASSUME TypeOK, TypeOK', OnePlace, OneInHand, HandInv, HandInv', OutputInv, [Next]_vars
    PROVE  OutputInv'
<1> USE WorkerAssumption
<1> SUFFICES ASSUME stopped' = {}, nConnections' <= 1 PROVE Output'
  BY DEF OutputInv
<1>0. /\ stopped = {} /\ NoStop /\ Held /\ Held'
  BY StoppedGrows DEF HandInv
<1>a. CASE nConnections' = nConnections \/ Connect
  <2>0. Output
    <3>1. nConnections <= 1
      BY <1>a DEF Connect, TypeOK
    <3> QED BY <1>0, <3>1 DEF OutputInv
  <2>b. /\ \A at \in Points : Waiting(at) = Handler(at, "none", NoJob)
        /\ "none" \in Results /\ "error" \in Results /\ NoJob \in Jobs \cup {NoJob}
    BY DEF Waiting, Results
  <2>1. CASE InitWorker \/ Connect
    BY <1>0, <2>0, <2>1, BootOutput
  <2>2. CASE \/ BootTimeout \/ AlgInitialized \/ AlgDone \/ AlgStopped
             \/ AlgErrorHandled \/ DisconnectHandled
             \/ \E j \in Jobs : ExtractFailed(j) \/ JobUpdated(j)
             \/ CleanedUp \/ StopHandled \/ StopTimeout
             \/ IdleTimeout /\ ~term
    <3>1. UNCHANGED <<sockVars, nConnections, isConnected>>
      BY <2>2 DEF BootTimeout, AlgInitialized, AlgDone, AlgStopped, AlgErrorHandled,
         DisconnectHandled, ExtractFailed, JobUpdated, CleanedUp, StopHandled, StopTimeout,
         IdleTimeout, otherVars, bootVars, counters
    <3>2. PICK t \in Transitions \ {"bootstrap"} : \E c : Requests(t, c)
      BY <2>2, RequestMade DEF Requested
    <3>3. PICK c : Requests(t, c)
      BY <3>2
    <3>4. CASE state \notin From[t] \/ t = "exit"
      BY <2>0, <3>1, <3>3, <3>4, RefusedOutput
    <3>5. CASE state \in From[t] /\ t # "exit"
      BY <1>0, <2>0, <3>3, <3>5, TakenOutput
    <3> QED BY <3>4, <3>5
  <2>3. CASE \E j \in Jobs : Extracted(j)
    BY <1>0, <2>0, <2>3, ExtractedOutput
  <2>4. CASE AlgError
    BY <1>0, <2>0, <2>4, AlgErrorOutput
  <2>5. CASE Disconnect
    BY <2>0, <2>5, DisconnectOutput
  <2>6. CASE \E h \in Pending : FinishStep(h)
    BY <1>0, <2>0, <2>6, FinishOutput
  <2>7. CASE Poll \/ \E j \in Jobs : Deliver(j) \/ JobWatched(j)
    <3>1. UNCHANGED <<state, asked, algInput, stored, sockVars, nConnections, isConnected>>
      BY <2>7 DEF Poll, Deliver, JobWatched, stepVars, smVars, otherVars, bootVars, etcdVars, counters
    <3>2. IsHandlers(suspended)
      BY TypeParts DEF StepTypeOK
    <3>3. CASE \E j \in Jobs : Deliver(j)
      <4>1. suspended' = suspended /\ cjob' = cjob
        BY <3>3 DEF Deliver, stepVars, jobVars
      <4> QED BY <2>0, <3>1, <4>1, ResumingOutput
    <3>4. CASE Poll
      <4>1. /\ suspended' = BagAdd(suspended, Handler("job.watch", "none", slot)) /\ cjob' = cjob
            /\ slot \in Jobs
        BY <3>4 DEF Poll, jobVars, TypeOK
      <4>2. "job.watch" \in Points \ OutPoints
        BY DEF Points, OutPoints, Loose
      <4> QED BY <2>0, <2>b, <3>1, <4>1, <4>2, ResumingOutput
    <3>5. ASSUME NEW j \in Jobs, JobWatched(j)
          PROVE  Output'
      <4>1. AtWatch(j) \in DOMAIN suspended
        BY <3>5 DEF JobWatched, Resumed, AtWatch
      <4>2. suspended' = BagAdd(BagRemove(suspended, AtWatch(j)), Handler("job.update", "none", j))
        BY <1>0, <3>5 DEF JobWatched, Rest, AtWatch
      <4>3. state \notin {"init", "working"}
        BY <1>0, <4>1, TakingFree DEF Held
      <4>4. "job.update" \in Points \ OutPoints
        BY DEF Points, OutPoints, Loose
      <4> QED BY <2>0, <2>b, <3>1, <4>1, <4>2, <4>3, <4>4, ResumingOutput
    <3> QED BY <2>7, <3>3, <3>4, <3>5
  <2>8. CASE \/ StopProcessing \/ StartProcessing \/ \E b \in BOOLEAN : SetHot(b)
    <3>1. UNCHANGED <<state, cjob, asked, algInput, stored, sockVars, nConnections, isConnected>>
      BY <2>8 DEF StopProcessing, StartProcessing, SetHot, Command, smVars, jobVars, bootVars, etcdVars
    <3>2. {"pause", "resume", "setInactive"} \subseteq Points \ OutPoints
      BY DEF Points, OutPoints, Loose
    <3>3. \E at \in Points \ OutPoints, r \in {"none", "error"} :
             suspended' = BagAdd(suspended, Handler(at, r, NoJob))
      BY <2>8, <3>2 DEF StopProcessing, StartProcessing, SetHot, CallQueue, Waiting
    <3> QED BY <2>0, <2>b, <3>1, <3>3, ResumingOutput
  <2>9. ASSUME NEW h \in Pending, QueueReturned(h) \/ Rejected(h)
        PROVE  Output'
    <3>1. UNCHANGED <<state, cjob, asked, algInput, stored, sockVars, nConnections, isConnected>>
      BY <2>9 DEF QueueReturned, Rejected, Failing, smVars, jobVars, bootVars, etcdVars, counters
    <3>2. /\ h \in DOMAIN suspended
          /\ \/ suspended' = BagRemove(suspended, h)
             \/ suspended' = BagAdd(BagRemove(suspended, h), Handler("setInactive", "none", NoJob))
      BY <2>9 DEF QueueReturned, Rejected, Rest, Waiting, Pending
    <3>3. "setInactive" \in Points \ OutPoints
      BY DEF Points, OutPoints, Loose
    <3> QED BY <2>0, <2>b, <3>1, <3>2, <3>3, ResumingOutput
  <2>10. CASE ReadyHandled \/ SetInactive
    <3>1. UNCHANGED <<state, cjob, asked, algInput, stored, sockVars, nConnections, isConnected>>
      BY <2>10 DEF ReadyHandled, SetInactive, smVars, jobVars, otherVars, bootVars, etcdVars, counters
    <3>2. \E h \in DOMAIN suspended : suspended' = BagRemove(suspended, h)
      BY <2>10 DEF ReadyHandled, SetInactive, Resumed, Rest
    <3> QED BY <2>0, <3>1, <3>2, ResumingOutput
  <2>11. CASE Unhandled \/ Exit \/ Signal \/ (IdleTimeout /\ term) \/ UNCHANGED vars
    <3>1. UNCHANGED <<state, cjob, asked, algInput, stored, sockVars, nConnections, isConnected,
                      suspended>>
      BY <2>11 DEF Unhandled, Failing, Exit, Signal, IdleTimeout, vars, stepVars, smVars, jobVars,
         otherVars, bootVars, etcdVars, counters
    <3> QED BY <2>0, <3>1, ResumingOutput
  <2>12. ~ (\E j \in Jobs : JobUnwatched(j) \/ StopJob(j))
    BY <1>0 DEF JobUnwatched, StopJob, Resumed, NoStop, Pending, Handler
  <2> QED
    BY <2>1, <2>2, <2>3, <2>4, <2>5, <2>6, <2>7, <2>8, <2>9, <2>10, <2>11, <2>12
    DEF Next, Return, Answer, Gone, FinishStep
<1> QED BY <1>a, ConnectionsCounted

LEMMA OutputInvariant == Spec => []OutputInv
<1>1. Init => OutputInv
  BY DEF Init, OutputInv, Output, NoLoose, Pending, EmptyBag, SetToBag
<1> QED
  BY <1>1, OutputStep, HandInvariant, TypeCorrect, JobAtOnePlace, OneJobInHand, PTL DEF Spec

\* Over its first connection, and without a stop request, an algorithm's answer is
\* stored for the job it was given, although answers carry no job id.
THEOREM StoresOwnOutput == Spec => []OwnOutput
<1>1. OutputInv => OwnOutput
  BY DEF OutputInv, Output, OwnOutput
<1> QED BY <1>1, OutputInvariant, PTL
=============================================================================
