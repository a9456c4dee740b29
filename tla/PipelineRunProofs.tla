-------------------------- MODULE PipelineRunProofs --------------------------
(***************************************************************************)
(* Theorems about PipelineRun, for every set of runs, every limit and all  *)
(* bounds: the state has its type, the listed runs exceed the limit by at  *)
(* most the requests served at once less one, what is queued is recorded   *)
(* first, the handlers of events always find the execution they need, and  *)
(* a listed run leaves the list.                                           *)
(***************************************************************************)
EXTENDS PipelineRun, FiniteSetTheorems, TLAPS

(***************************************************************************)
(* The type of the state.  A driver that still writes the end of its run   *)
(* knows what the run has come to: without it a result could be "none".    *)
(***************************************************************************)
EndKnown == \A r \in Runs : ending[r] # {} => outcome[r] # "none"

Typed == TypeOK /\ EndKnown

\* Ending the process keeps the types of what it forgets.
LEMMA DownTyped ==
    ASSUME Typed, Down
    PROVE  /\ up' \in BOOLEAN
           /\ at' \in [Runs -> Calls \cup {"new", "refused", "failed", "ok"}]
           /\ stopAt' \in [Runs -> {"no", "status", "told"}]
           /\ cleaning' \in [Runs -> SUBSET Cleaning]
           /\ resultSeen' \subseteq Runs \X Outcomes /\ freeing' \subseteq Runs
           /\ announcing' \subseteq Runs \X Outcomes \X {"read", "post"}
           /\ died' \subseteq Runs /\ failing' \in [Runs -> SUBSET EndRecords]
BY DEF Typed, TypeOK, Down

\* Writing a record of an end keeps the types of what it writes.
LEMMA WriteRecordTyped ==
    ASSUME Typed, NEW r \in Runs, NEW c \in EndRecords, NEW o \in Outcomes, WriteRecord(r, c, o)
    PROVE  /\ status' \in [Runs -> Statuses \cup {"none"}]
           /\ result' \in [Runs -> Outcomes \cup {"none"}]
           /\ resultSeen' \subseteq Runs \X Outcomes
BY DEF Typed, TypeOK, WriteRecord, SetResult, Statuses

\* Each step keeps the types.
LEMMA TypedStep == Typed /\ [Next]_vars => Typed'
<1> SUFFICES ASSUME Typed, [Next]_vars PROVE Typed'
    OBVIOUS
<1> USE DEF Typed, TypeOK, EndKnown, records, drivers, handlers, counters
<1>1. CASE UNCHANGED vars
    BY <1>1 DEF vars
<1>2. ASSUME NEW r \in Runs, RunRequest(r) PROVE Typed'
    BY <1>2 DEF RunRequest, Calls
<1>3. ASSUME NEW r \in Runs, Counted(r) PROVE Typed'
    BY <1>3 DEF Counted, Calls
<1>4. ASSUME NEW r \in Runs, RunStep(r) PROVE Typed'
    BY <1>4 DEF RunStep, Written, After, Calls, Statuses
<1>5. ASSUME NEW r \in Runs, RunFails(r) PROVE Typed'
    BY <1>5 DEF RunFails, Written, Failure, Statuses
<1>6. ASSUME NEW r \in Runs, StopRequest(r) PROVE Typed'
    BY <1>6 DEF StopRequest
<1>7. ASSUME NEW r \in Runs, StopStep(r) PROVE Typed'
    BY <1>7 DEF StopStep, StopWritten, Statuses
<1>8. ASSUME NEW r \in Runs, StopFails(r) PROVE Typed'
    BY <1>8 DEF StopFails, StopWritten, Failure, Statuses
<1>9. ASSUME NEW r \in Runs, CleanRequest(r) PROVE Typed'
    BY <1>9 DEF CleanRequest
<1>10. ASSUME NEW r \in Runs, NEW c \in Cleaning, CleanStep(r, c) PROVE Typed'
    BY <1>10 DEF CleanStep
<1>11. ASSUME NEW r \in Runs, NEW c \in Cleaning, CleanFails(r, c) PROVE Typed'
    BY <1>11 DEF CleanFails, Failure
<1>12. ASSUME NEW r \in Runs, DriverTakes(r) PROVE Typed'
    BY <1>12 DEF DriverTakes, Statuses
<1>13. ASSUME NEW r \in Runs, NEW o \in Outcomes, DriverEnds(r, o) PROVE Typed'
    BY <1>13 DEF DriverEnds, Outcomes
<1>14. ASSUME NEW r \in Runs, NEW c \in EndRecords, DriverWrites(r, c) PROVE Typed'
    <2>1. outcome[r] \in Outcomes
        BY <1>14 DEF DriverWrites
    <2>2. QED
        BY <1>14, <2>1, WriteRecordTyped DEF DriverWrites
<1>15. ASSUME NEW r \in Runs, DriverOver(r) PROVE Typed'
    BY <1>15 DEF DriverOver
<1>16. ASSUME NEW r \in Runs, DriverDies(r) PROVE Typed'
    BY <1>16 DEF DriverDies
<1>17. ASSUME NEW r \in Runs, NEW o \in Outcomes, ResultEvent(r, o) PROVE Typed'
    BY <1>17 DEF ResultEvent
<1>18. ASSUME NEW r \in Runs, Freed(r) PROVE Typed'
    BY <1>18 DEF Freed
<1>19. ASSUME NEW r \in Runs, NEW o \in Outcomes, AnnounceRead(r, o) PROVE Typed'
    <2>1. CASE r \in execution
        <3>1. announcing' \subseteq Runs \X Outcomes \X {"read", "post"}
            <4>1. <<r, o, "post">> \in Runs \X Outcomes \X {"read", "post"}
                OBVIOUS
            <4>2. announcing' \subseteq announcing \cup {<<r, o, "post">>}
                BY <1>19, <2>1 DEF AnnounceRead
            <4>3. QED
                BY <4>1, <4>2
        <3>2. QED
            BY <1>19, <2>1, <3>1 DEF AnnounceRead
    <2>2. CASE r \notin execution
        BY <1>19, <2>2, DownTyped DEF AnnounceRead
    <2>3. QED
        BY <2>1, <2>2
<1>20. ASSUME NEW r \in Runs, NEW o \in Outcomes, Announced(r, o) PROVE Typed'
    BY <1>20 DEF Announced
<1>21. ASSUME NEW r \in Runs, CrashEvent(r) PROVE Typed'
    <2>1. CASE r \in execution
        <3>1. failing' = [failing EXCEPT ![r] = EndRecords] /\ died' = died \ {r}
            BY <1>21, <2>1 DEF CrashEvent
        <3>2. QED
            BY <1>21, <2>1, <3>1 DEF CrashEvent
    <2>2. CASE r \notin execution
        BY <1>21, <2>2, DownTyped DEF CrashEvent
    <2>3. QED
        BY <2>1, <2>2
<1>22. ASSUME NEW r \in Runs, NEW c \in EndRecords, CrashWritten(r, c) PROVE Typed'
    <2>1. "failed" \in Outcomes
        BY DEF Outcomes
    <2>2. QED
        BY <1>22, <2>1, WriteRecordTyped DEF CrashWritten
<1>23. CASE Exit
    BY <1>23, DownTyped DEF Exit
<1>24. CASE EventFails
    BY <1>24, DownTyped DEF EventFails, Failure
<1>25. CASE Restart
    BY <1>25 DEF Restart
<1>26. QED
    BY <1>1, <1>2, <1>3, <1>4, <1>5, <1>6, <1>7, <1>8, <1>9, <1>10, <1>11, <1>12, <1>13, <1>14, <1>15,
       <1>16, <1>17, <1>18, <1>19, <1>20, <1>21, <1>22, <1>23, <1>24, <1>25
       DEF Next, RunHandler, CleanHandler, Driver, EventHandler

LEMMA InitTyped == Init => Typed
BY DEF Init, Typed, TypeOK, EndKnown, Calls

LEMMA TypedAlways == Spec => []Typed
BY InitTyped, TypedStep, PTL DEF Spec

\* Every variable keeps its type, in every behaviour of _run, stopJob, cleanJob and
\* the handlers of events.
THEOREM TypeCorrect == Spec => []TypeOK
<1>1. Typed => TypeOK
    BY DEF Typed
<1>2. QED
    BY <1>1, TypedAlways, PTL
-----------------------------------------------------------------------------
(***************************************************************************)
(* The limit.  A run request passes the check of the limit some calls      *)
(* before its run is listed.  The runs that are listed, or have passed the *)
(* check and are still to be listed, were at most Limit - 1 and the open   *)
(* requests when the last of them passed it; only another pass of the      *)
(* check adds to them.                                                     *)
(***************************************************************************)
Passed == {r \in Runs : at[r] \in {"files", "execution", "running"}}

Committed == running \cup Passed

Bounded == /\ Cardinality(Open) <= MaxOpen
           /\ Cardinality(Committed) <= Limit + MaxOpen - 1

\* The steps of no run request leave the requests alone, or end them with the
\* process, and list no run.
LEMMA OtherSteps ==
    ASSUME Typed, [Next]_vars
    PROVE  \/ \E r \in Runs : RunRequest(r)
           \/ \E r \in Runs : RunHandler(r) \/ RunFails(r)
           \/ running' \subseteq running /\ (UNCHANGED at \/ Down)
<1> DEFINE Quiet == running' \subseteq running /\ (UNCHANGED at \/ Down)
<1> USE DEF records, drivers
<1>1. CASE UNCHANGED vars
    BY <1>1 DEF vars
<1>2. ASSUME NEW r \in Runs, StopRequest(r) \/ StopStep(r) \/ StopFails(r) PROVE Quiet
    BY <1>2 DEF StopRequest, StopStep, StopFails
<1>3. ASSUME NEW r \in Runs, CleanRequest(r) \/ CleanHandler(r)
                                  \/ (\E c \in Cleaning : CleanFails(r, c))
      PROVE  Quiet
    BY <1>3 DEF CleanRequest, CleanHandler, CleanStep, CleanFails
<1>4. ASSUME NEW r \in Runs, Driver(r) \/ DriverDies(r) PROVE Quiet
    BY <1>4 DEF Driver, DriverTakes, DriverEnds, DriverWrites, DriverOver, DriverDies
<1>5. ASSUME NEW r \in Runs, EventHandler(r) PROVE Quiet
    BY <1>5 DEF EventHandler, ResultEvent, AnnounceRead, Announced, Freed, CrashEvent, CrashWritten
<1>6. CASE Exit \/ EventFails \/ Restart
    BY <1>6 DEF Exit, EventFails, Restart
<1>7. QED
    BY <1>1, <1>2, <1>3, <1>4, <1>5, <1>6 DEF Next

\* Only a new request opens one; the other steps end requests or move them on.
LEMMA OpenStep ==
    ASSUME Typed, [Next]_vars
    PROVE  \/ Open' \subseteq Open
           \/ /\ Cardinality(Open) < MaxOpen
              /\ \E r \in Runs : Open' \subseteq Open \cup {r}
<1> USE DEF Typed, TypeOK, records, drivers, handlers, counters
<1>1. CASE \E r \in Runs : RunRequest(r)
    BY <1>1 DEF RunRequest, Open
<1>2. CASE \E r \in Runs : RunHandler(r) \/ RunFails(r)
    BY <1>2 DEF RunHandler, Counted, RunStep, RunFails, Open, Calls
<1>3. CASE UNCHANGED at
    BY <1>3 DEF Open
<1>4. CASE Down
    BY <1>4 DEF Open, Down, Calls
<1>5. QED
    BY <1>1, <1>2, <1>3, <1>4, OtherSteps

\* Only a run that passes the check joins those that are, or will be, listed.
LEMMA CommittedStep ==
    ASSUME Typed, [Next]_vars
    PROVE  \/ Committed' \subseteq Committed
           \/ Cardinality(running) < Limit /\ Committed' \subseteq running \cup Open
<1> USE DEF Typed, TypeOK, records, drivers, handlers, counters
<1>1. CASE \E r \in Runs : RunRequest(r)
    BY <1>1 DEF RunRequest, Committed, Passed
<1>2. CASE \E r \in Runs : Counted(r)
    <2>1. PICK r \in Runs : Counted(r)
        BY <1>2
    <2>2. CASE Cardinality(running) >= Limit
        BY <2>1, <2>2 DEF Counted, Committed, Passed
    <2>3. CASE ~(Cardinality(running) >= Limit)
        <3>1. Cardinality(running) < Limit
            BY <2>3, PipelineRunAssumption, FS_Subset, FS_CardinalityType
        <3>2. Committed' \subseteq running \cup Open
            BY <2>1 DEF Counted, Committed, Passed, Open, Calls
        <3>3. QED
            BY <3>1, <3>2
    <2>4. QED
        BY <2>2, <2>3
<1>3. CASE \E r \in Runs : RunStep(r) \/ RunFails(r)
    BY <1>3 DEF RunStep, RunFails, Written, After, Calls, Committed, Passed
<1>4. CASE running' \subseteq running /\ UNCHANGED at
    BY <1>4 DEF Committed, Passed
<1>5. CASE running' \subseteq running /\ Down
    BY <1>5 DEF Committed, Passed, Down, Calls
<1>6. QED
    BY <1>1, <1>2, <1>3, <1>4, <1>5, OtherSteps DEF RunHandler

\* The two sets, and all that is smaller, are finite.
LEMMA RunsFinite ==
    ASSUME NEW S, S \subseteq Runs
    PROVE  IsFiniteSet(S) /\ Cardinality(S) \in Nat
BY PipelineRunAssumption, FS_Subset, FS_CardinalityType

LEMMA InitBounded == Init => Bounded
<1> SUFFICES ASSUME Init PROVE Bounded
    OBVIOUS
<1>1. Open = {} /\ Committed = {}
    BY DEF Init, Open, Committed, Passed, Calls
<1>2. Cardinality({}) = 0
    BY FS_EmptySet
<1>3. QED
    BY <1>1, <1>2, PipelineRunAssumption DEF Bounded

LEMMA BoundedStep == Typed /\ Bounded /\ [Next]_vars => Bounded'
<1> SUFFICES ASSUME Typed, Bounded, [Next]_vars PROVE Bounded'
    OBVIOUS
<1>1. Open \subseteq Runs /\ Open' \subseteq Runs
    BY DEF Open
<1>2. running \subseteq Runs /\ Committed \subseteq Runs
    BY DEF Typed, TypeOK, Committed, Passed
<1>3. Cardinality(Open') <= MaxOpen
    <2>1. CASE Open' \subseteq Open
        BY <2>1, <1>1, RunsFinite, FS_Subset, PipelineRunAssumption DEF Bounded
    <2>2. CASE Cardinality(Open) < MaxOpen /\ \E r \in Runs : Open' \subseteq Open \cup {r}
        <3>1. PICK r \in Runs : Open' \subseteq Open \cup {r}
            BY <2>2
        <3>2. IsFiniteSet(Open \cup {r}) /\ Cardinality(Open \cup {r}) <= Cardinality(Open) + 1
            BY <1>1, RunsFinite, FS_AddElement
        <3>3. Cardinality(Open') <= Cardinality(Open \cup {r})
            BY <3>1, <3>2, FS_Subset
        <3>4. Cardinality(Open \cup {r}) \in Nat
            BY <3>2, FS_CardinalityType
        <3>5. QED
            BY <2>2, <3>2, <3>3, <3>4, <1>1, RunsFinite, PipelineRunAssumption
    <2>3. QED
        BY <2>1, <2>2, OpenStep
<1>4. Cardinality(Committed') <= Limit + MaxOpen - 1
    <2>1. CASE Committed' \subseteq Committed
        <3>1. Cardinality(Committed') <= Cardinality(Committed)
            BY <2>1, <1>2, RunsFinite, FS_Subset
        <3>2. Committed' \subseteq Runs
            BY <2>1, <1>2
        <3>3. QED
            BY <3>1, <3>2, <1>2, RunsFinite, PipelineRunAssumption DEF Bounded
    <2>2. CASE Cardinality(running) < Limit /\ Committed' \subseteq running \cup Open
        <3>1. running \cup Open \subseteq Runs /\ Committed' \subseteq Runs
            BY <1>1, <1>2, <2>2
        <3>2. Cardinality(Committed') <= Cardinality(running \cup Open)
            BY <2>2, <3>1, RunsFinite, FS_Subset
        <3>3. Cardinality(running \cup Open) <= Cardinality(running) + Cardinality(Open)
            <4>1. running \cap Open \subseteq Runs
                BY <1>1
            <4>2. Cardinality(running \cup Open)
                    = Cardinality(running) + Cardinality(Open) - Cardinality(running \cap Open)
                BY <1>1, <1>2, RunsFinite, FS_Union
            <4>3. QED
                BY <4>1, <4>2, <1>1, <1>2, RunsFinite
        <3>4. Cardinality(Open) <= MaxOpen
            BY DEF Bounded
        <3>5. /\ Cardinality(running) \in Nat /\ Cardinality(Open) \in Nat
              /\ Cardinality(running \cup Open) \in Nat /\ Cardinality(Committed') \in Nat
            BY <1>1, <1>2, <3>1, RunsFinite
        <3>6. QED
            BY <2>2, <3>2, <3>3, <3>4, <3>5, PipelineRunAssumption
    <2>3. QED
        BY <2>1, <2>2, CommittedStep
<1>5. QED
    BY <1>3, <1>4 DEF Bounded

\* The listed runs exceed the limit by at most the requests served at once less
\* one, whatever the limit, the runs, and the failures, cleanings and exits
\* (validateConcurrentPipelines and _run).
THEOREM LimitExceededByOpenRequests == Spec => []LimitBound
<1>1. Init => Typed /\ Bounded
    BY InitTyped, InitBounded
<1>2. Typed /\ Bounded /\ [Next]_vars => (Typed /\ Bounded)'
    BY TypedStep, BoundedStep
<1>3. Typed /\ Bounded => LimitBound
    <2> SUFFICES ASSUME Typed, Bounded PROVE LimitBound
        OBVIOUS
    <2>1. running \subseteq Committed /\ Committed \subseteq Runs /\ running \subseteq Runs
        BY DEF Typed, TypeOK, Committed, Passed
    <2>2. Cardinality(running) <= Cardinality(Committed)
        BY <2>1, RunsFinite, FS_Subset
    <2>3. QED
        BY <2>1, <2>2, RunsFinite, PipelineRunAssumption DEF Bounded, LimitBound
<1>4. QED
    BY <1>1, <1>2, <1>3, PTL DEF Spec

-----------------------------------------------------------------------------
(***************************************************************************)
(* What is recorded.  The calls of _run leave behind, in their order, what *)
(* the queue, the driver and the handlers of the end rely on; only a       *)
(* cleaning takes it away.                                                 *)
(***************************************************************************)
Listed(r) == result[r] = "none" => r \in running

\* A request has made its calls up to the one it awaits.
Calling(r) ==
    /\ at[r] \in {"running", "status", "queue", "ok"} => r \in execution
    /\ at[r] \in {"status", "queue", "ok"} => Listed(r)
    /\ at[r] \in {"queue", "ok"} => status[r] # "none"

QueuedRecorded(r) ==
    r \in queue \/ driver[r] = "runs" => r \in execution /\ status[r] # "none" /\ Listed(r)

\* The events of the end of a run come after a driver that had it.
EndRecorded(r) ==
    /\ r \in died \/ failing[r] # {} => r \in execution
    /\ \A o \in Outcomes : <<r, o>> \in resultSeen => r \in execution /\ result[r] # "none"
    /\ r \in freeing => result[r] # "none"
    /\ \A o \in Outcomes : <<r, o, "read">> \in announcing => r \in execution

RecordedRun(r) ==
    /\ cleaning[r] = {}
    /\ Calling(r) /\ QueuedRecorded(r) /\ EndRecorded(r)

Recorded == nCleans = 0 => \A r \in Runs : RecordedRun(r)

\* A step counts at most one more cleaning, failure or exit; the process goes down
\* with one of the last two, or with a handler that finds no execution.
Next1(n, m) == m = n \/ m = n + 1

LEMMA Counts ==
    ASSUME [Next]_vars
    PROVE  /\ Next1(nCleans, nCleans') /\ Next1(nFailures, nFailures') /\ Next1(nExits, nExits')
           /\ up /\ ~up' => \/ nFailures' = nFailures + 1 \/ nExits' = nExits + 1
                            \/ \E r \in Runs : CrashEvent(r) \/ \E o \in Outcomes : AnnounceRead(r, o)
<1> DEFINE OneMore ==
        /\ Next1(nCleans, nCleans') /\ Next1(nFailures, nFailures') /\ Next1(nExits, nExits')
        /\ up /\ ~up' => nFailures' = nFailures + 1 \/ nExits' = nExits + 1
<1> USE DEF Next1, counters
<1>1. CASE UNCHANGED vars
    BY <1>1 DEF vars
<1>2. ASSUME NEW r \in Runs, RunRequest(r) \/ RunHandler(r) \/ RunFails(r) PROVE OneMore
    <2>1. CASE RunRequest(r) \/ Counted(r)
        BY <2>1 DEF RunRequest, Counted
    <2>2. CASE RunStep(r)
        BY <2>2 DEF RunStep
    <2>3. CASE RunFails(r)
        BY <2>3 DEF RunFails, Failure
    <2>4. QED
        BY <1>2, <2>1, <2>2, <2>3 DEF RunHandler
<1>3. ASSUME NEW r \in Runs, StopRequest(r) \/ StopStep(r) \/ StopFails(r) PROVE OneMore
    BY <1>3 DEF StopRequest, StopStep, StopWritten, StopFails, Failure
<1>4. ASSUME NEW r \in Runs, CleanRequest(r) \/ CleanHandler(r)
                                  \/ (\E c \in Cleaning : CleanFails(r, c))
      PROVE  OneMore
    BY <1>4 DEF CleanRequest, CleanHandler, CleanStep, CleanFails, Failure
<1>5. ASSUME NEW r \in Runs, Driver(r) \/ DriverDies(r) PROVE OneMore
    BY <1>5 DEF Driver, DriverTakes, DriverEnds, DriverWrites, DriverOver, DriverDies
<1>6. ASSUME NEW r \in Runs,
             Freed(r) \/ (\E o \in Outcomes : ResultEvent(r, o) \/ Announced(r, o))
                \/ \E c \in EndRecords : CrashWritten(r, c)
      PROVE  OneMore
    <2>1. CASE Freed(r)
        BY <2>1 DEF Freed
    <2>2. CASE \E o \in Outcomes : ResultEvent(r, o)
        BY <2>2 DEF ResultEvent
    <2>3. CASE \E o \in Outcomes : Announced(r, o)
        BY <2>3 DEF Announced
    <2>4. CASE \E c \in EndRecords : CrashWritten(r, c)
        BY <2>4 DEF CrashWritten
    <2>5. QED
        BY <1>6, <2>1, <2>2, <2>3, <2>4
<1>7. ASSUME NEW r \in Runs, CrashEvent(r) \/ \E o \in Outcomes : AnnounceRead(r, o)
      PROVE  UNCHANGED counters
    BY <1>7 DEF CrashEvent, AnnounceRead
<1>8. CASE Exit \/ EventFails \/ Restart
    BY <1>8 DEF Exit, EventFails, Failure, Restart
<1>9. QED
    BY <1>1, <1>2, <1>3, <1>4, <1>5, <1>6, <1>7, <1>8 DEF Next, EventHandler

LEMMA InitRecorded == Init => Recorded
BY DEF Init, Recorded, RecordedRun, Calling, QueuedRecorded, EndRecorded, Listed

LEMMA RecordedStep == Typed /\ Recorded /\ [Next]_vars => Recorded'
<1> SUFFICES ASSUME Typed, Recorded, [Next]_vars, nCleans' = 0, NEW q \in Runs
             PROVE  RecordedRun(q)'
    BY DEF Recorded
<1> USE DEF records, drivers, handlers, counters
<1>1. nCleans = 0
    <2>1. nCleans \in Nat
        BY DEF Typed, TypeOK
    <2>2. nCleans' = nCleans \/ nCleans' = nCleans + 1
        BY Counts DEF Next1
    <2>3. QED
        BY <2>1, <2>2
<1>2. \A r \in Runs : RecordedRun(r)
    BY <1>1 DEF Recorded
<1> USE DEF RecordedRun, Calling, QueuedRecorded, EndRecorded, Listed
<1>3. CASE UNCHANGED vars
    BY <1>2, <1>3 DEF vars
<1>4. ASSUME NEW r \in Runs, RunRequest(r) PROVE RecordedRun(q)'
    BY <1>2, <1>4 DEF RunRequest, Typed, TypeOK
<1>5. ASSUME NEW r \in Runs, Counted(r) PROVE RecordedRun(q)'
    BY <1>2, <1>5 DEF Counted, Typed, TypeOK
<1>6. ASSUME NEW r \in Runs, RunStep(r) PROVE RecordedRun(q)'
    BY <1>2, <1>6 DEF RunStep, Written, After, Calls, Typed, TypeOK
<1>7. ASSUME NEW r \in Runs, RunFails(r) PROVE RecordedRun(q)'
    BY <1>2, <1>7 DEF RunFails, Written, Calls, Typed, TypeOK
<1>8. ASSUME NEW r \in Runs, StopRequest(r) \/ StopStep(r) \/ StopFails(r)
      PROVE  RecordedRun(q)'
    BY <1>2, <1>8 DEF StopRequest, StopStep, StopWritten, StopFails, Typed, TypeOK
<1>9. ASSUME NEW r \in Runs, CleanRequest(r) PROVE RecordedRun(q)'
    BY <1>1, <1>9 DEF CleanRequest
<1>10. ASSUME NEW r \in Runs, CleanHandler(r) \/ \E c \in Cleaning : CleanFails(r, c)
       PROVE  RecordedRun(q)'
    BY <1>2, <1>10 DEF CleanHandler, CleanStep, CleanFails
<1>11. ASSUME NEW r \in Runs, Driver(r) \/ DriverDies(r) PROVE RecordedRun(q)'
    <2>1. CASE DriverTakes(r)
        BY <1>2, <2>1 DEF DriverTakes, Typed, TypeOK
    <2>2. CASE \E o \in Outcomes : DriverEnds(r, o)
        BY <1>2, <2>2 DEF DriverEnds, Typed, TypeOK
    <2>3. ASSUME NEW c \in EndRecords, DriverWrites(r, c) PROVE RecordedRun(q)'
        <3>1. outcome[r] \in Outcomes /\ outcome[r] # "none"
            BY <2>3 DEF DriverWrites, Typed, TypeOK, EndKnown
        <3>2. driver[r] = "runs"
            BY <2>3 DEF DriverWrites
        <3>3. QED
            BY <1>2, <2>3, <3>1, <3>2 DEF DriverWrites, WriteRecord, SetResult, Typed, TypeOK
    <2>4. CASE DriverOver(r) \/ DriverDies(r)
        BY <1>2, <2>4 DEF DriverOver, DriverDies, Typed, TypeOK
    <2>5. QED
        BY <1>11, <2>1, <2>2, <2>3, <2>4 DEF Driver
<1>12. ASSUME NEW r \in Runs, EventHandler(r) PROVE RecordedRun(q)'
    <2>1. ASSUME NEW o \in Outcomes, ResultEvent(r, o) PROVE RecordedRun(q)'
        <3>1. r \in execution /\ result[r] # "none"
            BY <1>2, <2>1 DEF ResultEvent
        <3>2. QED
            BY <1>2, <2>1, <3>1 DEF ResultEvent, Typed, TypeOK
    <2>6. ASSUME NEW o \in Outcomes, Announced(r, o) PROVE RecordedRun(q)'
        BY <1>2, <2>6 DEF Announced, Typed, TypeOK
    <2>2. CASE Freed(r)
        BY <1>2, <2>2 DEF Freed, Typed, TypeOK
    <2>3. CASE \E o \in Outcomes : AnnounceRead(r, o)
        BY <1>2, <2>3 DEF AnnounceRead, Typed, TypeOK
    <2>4. CASE CrashEvent(r)
        <3>1. r \in execution
            BY <1>2, <2>4 DEF CrashEvent
        <3>2. died' \subseteq died /\ (q # r => failing'[q] = failing[q])
            BY <2>4, <3>1 DEF CrashEvent, Typed, TypeOK
        <3>3. UNCHANGED <<up, at, stopAt, cleaning, resultSeen, freeing, announcing>>
            BY <2>4, <3>1 DEF CrashEvent
        <3>4. UNCHANGED <<execution, running, status, result, queue, driver>>
            BY <2>4 DEF CrashEvent
        <3>5. QED
            BY <1>2, <3>1, <3>2, <3>3, <3>4
    <2>5. ASSUME NEW c \in EndRecords, CrashWritten(r, c) PROVE RecordedRun(q)'
        <3>1. "failed" \in Outcomes
            BY DEF Outcomes
        <3>2. QED
            BY <1>2, <2>5, <3>1 DEF CrashWritten, WriteRecord, SetResult, Typed, TypeOK
    <2>7. QED
        BY <1>12, <2>1, <2>2, <2>3, <2>4, <2>5, <2>6 DEF EventHandler
<1>13. CASE Exit \/ EventFails \/ Restart
    BY <1>2, <1>13 DEF Exit, EventFails, Restart, Down, Calls, Typed, TypeOK
<1>14. QED
    BY <1>3, <1>4, <1>5, <1>6, <1>7, <1>8, <1>9, <1>10, <1>11, <1>12, <1>13 DEF Next, RunHandler

LEMMA RecordedAlways == Spec => [](Typed /\ Recorded)
<1>1. Typed /\ Recorded /\ [Next]_vars => (Typed /\ Recorded)'
    BY TypedStep, RecordedStep
<1>2. QED
    BY <1>1, InitTyped, InitRecorded, PTL DEF Spec

\* A run is queued after all that its driver and the handlers of its end read has
\* been written, and this stays until something is cleaned (_run).
THEOREM QueuedAfterRecorded == Spec => []QueuedIsRecorded
<1>1. Recorded => QueuedIsRecorded
    BY DEF Recorded, RecordedRun, QueuedRecorded, Listed, QueuedIsRecorded
<1>2. QED
    BY <1>1, RecordedAlways, PTL

-----------------------------------------------------------------------------
(***************************************************************************)
(* A handler that does not find an execution ends the process.  It always  *)
(* finds one, so that only a failed call or an exit from outside does.     *)
(***************************************************************************)
LEMMA UpStep == Typed /\ Recorded /\ StaysUp /\ [Next]_vars => StaysUp'
<1> SUFFICES ASSUME Typed, Recorded, StaysUp, [Next]_vars, Undisturbed' PROVE up'
    BY DEF StaysUp
<1> USE DEF counters
<1>1. {nCleans, nFailures, nExits} \subseteq Nat
    BY DEF Typed, TypeOK
<1>2. Undisturbed /\ UNCHANGED <<nCleans, nFailures, nExits>>
    BY <1>1, Counts DEF Undisturbed, Next1
<1>3. up
    BY <1>2 DEF StaysUp
<1>4. SUFFICES ASSUME ~up' PROVE FALSE
    OBVIOUS
<1>5. PICK r \in Runs : CrashEvent(r) \/ \E o \in Outcomes : AnnounceRead(r, o)
    BY <1>1, <1>2, <1>3, <1>4, Counts
<1>6. r \in execution
    BY <1>2, <1>5 DEF Undisturbed, Recorded, RecordedRun, EndRecorded, CrashEvent, AnnounceRead
<1>7. QED
    BY <1>3, <1>4, <1>5, <1>6 DEF CrashEvent, AnnounceRead

\* As long as nothing is cleaned, no call fails and nobody ends it, the api-server
\* stays up: its handlers of results and of crashes find the execution they read
\* unchecked (_requestResults, the CRASHED handler).
THEOREM ApiServerStaysUp == Spec => []StaysUp
<1>1. Init => StaysUp
    BY DEF Init, StaysUp
<1>2. Typed /\ Recorded /\ StaysUp /\ [Next]_vars => StaysUp'
    BY UpStep
<1>3. QED
    BY <1>1, <1>2, RecordedAlways, PTL DEF Spec

-----------------------------------------------------------------------------
(***************************************************************************)
(* The list of running pipelines.  A run gets on it before it is queued,   *)
(* and each step that takes from a run the one who would take it off hands *)
(* it to the next one: the queue, the driver, the event of its result or   *)
(* of the driver's death, the handler of that event.                       *)
(***************************************************************************)
\* The result was seen, and the handler of its event is still to come or at work.
Seen(r) == r \in freeing \/ \E o \in Outcomes : <<r, o>> \in resultSeen

LeavingRun(r) ==
    /\ at[r] \in Calls \cup {"new"} => r \notin queue /\ driver[r] = "no"
    /\ at[r] \in {"new", "count"} => r \notin running
    /\ driver[r] = "no" => outcome[r] = "none"
    /\ driver[r] = "runs" /\ outcome[r] # "none" /\ "result" \notin ending[r] =>
          r \notin running \/ Seen(r)
    /\ r \in running => Leaving(r)

Listing == Undisturbed => \A r \in Runs : LeavingRun(r)

LEMMA ListingStep == Typed /\ Recorded /\ StaysUp /\ StaysUp' /\ Listing /\ [Next]_vars => Listing'
<1> SUFFICES ASSUME Typed, Recorded, StaysUp, StaysUp', Listing, [Next]_vars, Undisturbed',
                    NEW q \in Runs
             PROVE  LeavingRun(q)'
    BY DEF Listing
<1> USE DEF records, drivers, handlers, counters
<1>1. {nCleans, nFailures, nExits} \subseteq Nat
    BY DEF Typed, TypeOK
<1>2. Undisturbed /\ UNCHANGED <<nCleans, nFailures, nExits>>
    BY <1>1, Counts DEF Undisturbed, Next1
<1>3. /\ up /\ up' /\ \A r \in Runs : LeavingRun(r)
      /\ \A r \in Runs : cleaning[r] = {} /\ EndRecorded(r)
    BY <1>2 DEF StaysUp, Listing, Undisturbed, Recorded, RecordedRun
<1>4. ~ Failure
    BY <1>1, <1>2 DEF Failure
<1> USE DEF LeavingRun, Leaving, Seen
<1>5. CASE UNCHANGED vars
    BY <1>3, <1>5 DEF vars
<1>6. ASSUME NEW r \in Runs, RunRequest(r) \/ Counted(r) PROVE LeavingRun(q)'
    <2>1. UNCHANGED <<up, running, queue, driver, outcome, ending, resultSeen, freeing, died, failing>>
        BY <1>6 DEF RunRequest, Counted
    <2>2. \/ at'[q] = at[q]
          \/ at[q] \in {"new", "count"} /\ at'[q] \in {"count", "files", "refused"}
        BY <1>6 DEF RunRequest, Counted, Typed, TypeOK
    <2>3. QED
        BY <1>3, <2>1, <2>2 DEF Calls
<1>7. ASSUME NEW r \in Runs, RunStep(r) PROVE LeavingRun(q)'
    <2>1. UNCHANGED <<up, driver, outcome, ending, resultSeen, freeing, died, failing>>
        BY <1>7 DEF RunStep
    <2>2. CASE q # r
        <3>1. /\ at'[q] = at[q] /\ (q \in queue' <=> q \in queue)
              /\ (q \in running' <=> q \in running)
            BY <1>7, <2>2 DEF RunStep, Written, Typed, TypeOK
        <3>2. QED
            BY <1>3, <2>1, <3>1
    <2>3. CASE q = r
        <3>1. /\ at[q] \in Calls \ {"count"} /\ at'[q] = After(at[q])
              /\ q \in queue' <=> q \in queue \/ at[q] = "queue"
              /\ q \in running' <=> q \in running \/ at[q] = "running"
            BY <1>7, <2>3 DEF RunStep, Written, Typed, TypeOK
        <3>2. QED
            BY <1>3, <2>1, <3>1 DEF After, Calls
    <2>4. QED
        BY <2>2, <2>3
<1>8. ASSUME NEW r \in Runs PROVE ~ (RunFails(r) \/ StopFails(r) \/ \E c \in Cleaning : CleanFails(r, c))
    BY <1>4 DEF RunFails, StopFails, CleanFails
<1>9. ASSUME NEW r \in Runs, StopRequest(r) \/ StopStep(r) PROVE LeavingRun(q)'
    BY <1>3, <1>9 DEF StopRequest, StopStep
<1>10. ASSUME NEW r \in Runs PROVE ~ (CleanRequest(r) \/ CleanHandler(r))
    BY <1>1, <1>2, <1>3 DEF CleanRequest, CleanHandler, CleanStep
<1>11. ASSUME NEW r \in Runs, DriverTakes(r) PROVE LeavingRun(q)'
    BY <1>3, <1>11 DEF DriverTakes, Typed, TypeOK
<1>12. ASSUME NEW r \in Runs, NEW o \in Outcomes, DriverEnds(r, o) PROVE LeavingRun(q)'
    BY <1>3, <1>12 DEF DriverEnds, EndRecords, Typed, TypeOK
<1>13. ASSUME NEW r \in Runs, NEW c \in EndRecords, DriverWrites(r, c) PROVE LeavingRun(q)'
    <2>1. outcome[r] \in Outcomes
        BY <1>13 DEF DriverWrites, Typed, TypeOK, EndKnown
    <2>2. QED
        BY <1>3, <1>13, <2>1 DEF DriverWrites, WriteRecord, SetResult, Typed, TypeOK
<1>14. ASSUME NEW r \in Runs, DriverOver(r) PROVE LeavingRun(q)'
    BY <1>3, <1>14 DEF DriverOver, Typed, TypeOK
<1>15. ASSUME NEW r \in Runs, DriverDies(r) PROVE LeavingRun(q)'
    BY <1>3, <1>15 DEF DriverDies, Typed, TypeOK
<1>16. ASSUME NEW r \in Runs, NEW o \in Outcomes, ResultEvent(r, o) PROVE LeavingRun(q)'
    BY <1>3, <1>16 DEF ResultEvent
<1>17. ASSUME NEW r \in Runs, Freed(r) PROVE LeavingRun(q)'
    BY <1>3, <1>17 DEF Freed
<1>18. ASSUME NEW r \in Runs, NEW o \in Outcomes, AnnounceRead(r, o) PROVE LeavingRun(q)'
    BY <1>3, <1>18 DEF AnnounceRead, Down
<1>19. ASSUME NEW r \in Runs, NEW o \in Outcomes, Announced(r, o) PROVE LeavingRun(q)'
    BY <1>3, <1>19 DEF Announced
<1>20. ASSUME NEW r \in Runs, CrashEvent(r) PROVE LeavingRun(q)'
    <2>1. died' = died \ {r} /\ failing' = [failing EXCEPT ![r] = EndRecords]
        BY <1>3, <1>20 DEF CrashEvent, Down
    <2>2. UNCHANGED <<at, resultSeen, freeing, running, queue, driver, outcome, ending>>
        BY <1>3, <1>20 DEF CrashEvent, Down
    <2>3. QED
        BY <1>3, <2>1, <2>2 DEF EndRecords, Typed, TypeOK
<1>21. ASSUME NEW r \in Runs, NEW c \in EndRecords, CrashWritten(r, c) PROVE LeavingRun(q)'
    <2>1. "failed" \in Outcomes
        BY DEF Outcomes
    <2>2. /\ UNCHANGED <<at, running, queue, driver, outcome, ending, freeing, died>>
          /\ failing' = [failing EXCEPT ![r] = @ \ {c}]
        BY <1>21 DEF CrashWritten
    <2>3. \/ c # "result" /\ UNCHANGED resultSeen
          \/ resultSeen' = resultSeen \cup {<<r, "failed">>}
        BY <1>3, <1>21 DEF CrashWritten, WriteRecord, SetResult
    <2>4. "result" \in failing[q] => "result" \in failing'[q] \/ Seen(q)'
        BY <2>1, <2>2, <2>3 DEF Typed, TypeOK
    <2>5. Seen(q) => Seen(q)'
        BY <2>2, <2>3
    <2>6. QED
        BY <1>3, <2>2, <2>4, <2>5
<1>22. ~ (Exit \/ EventFails \/ Restart)
    BY <1>3 DEF Exit, EventFails, Down, Restart
<1>23. QED
    BY <1>5, <1>6, <1>7, <1>8, <1>9, <1>10, <1>11, <1>12, <1>13, <1>14, <1>15, <1>16, <1>17, <1>18,
       <1>19, <1>20, <1>21, <1>22 DEF Next, RunHandler, Driver, EventHandler

\* Undisturbed, no run stays on the list of running pipelines, where it counts for
\* the limit, with nobody left to take it off (_run, _deleteRunningPipeline).
THEOREM ListedRunsLeave == Spec => []ListedRunUndisturbed
<1>1. Init => Listing
    BY DEF Init, Listing, LeavingRun
<1>2. Typed /\ Listing => ListedRunUndisturbed
    BY DEF Typed, TypeOK, Listing, LeavingRun, ListedRunUndisturbed, ListedRun
<1>3. QED
    BY <1>1, <1>2, ListingStep, RecordedAlways, ApiServerStaysUp, PTL DEF Spec
=============================================================================
