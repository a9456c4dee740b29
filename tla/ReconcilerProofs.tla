-------------------------- MODULE ReconcilerProofs --------------------------
(***************************************************************************)
(* Theorems about Reconciler, for any algorithms, numbers of jobs, hot     *)
(* workers, room and bounds.                                               *)
(***************************************************************************)
EXTENDS Reconciler, FiniteSetTheorems, TLAPS

-----------------------------------------------------------------------------
(***************************************************************************)
(* Lemmas about the operators.                                             *)
(***************************************************************************)
LEMMA MissingType ==
    ASSUME NEW m \in Nat, NEW n \in Nat
    PROVE  /\ Missing(m, n) \in Nat
           /\ Missing(m, n) > 0 => Missing(m, n) + n = m
BY DEF Missing

\* First(n, S) has at most n elements: no two have the same number of elements of S
\* below them, and that number is below n.
LEMMA FirstBound ==
    ASSUME NEW n \in Nat, NEW S \in SUBSET Nat, IsFiniteSet(S)
    PROVE  /\ First(n, S) \subseteq S
           /\ IsFiniteSet(First(n, S)) /\ Cardinality(First(n, S)) <= n
<1> DEFINE F == First(n, S)
           Below(j) == {x \in S : x < j}
           f == [i \in F |-> Cardinality(Below(i))]
<1>1. F \subseteq S
  BY DEF First
<1>2. IsFiniteSet(F)
  BY <1>1, FS_Subset
<1>3. \A i \in S : IsFiniteSet(Below(i)) /\ Cardinality(Below(i)) \in Nat
  <2> TAKE i \in S
  <2>1. Below(i) \subseteq S
    OBVIOUS
  <2> QED BY <2>1, FS_Subset, FS_CardinalityType
<1>4. IsFiniteSet(0..(n - 1)) /\ Cardinality(0..(n - 1)) = n
  BY FS_Interval
<1>5. f \in [F -> 0..(n - 1)]
  <2> SUFFICES ASSUME NEW i \in F PROVE Cardinality(Below(i)) \in 0..(n - 1)
    OBVIOUS
  <2>1. Cardinality(Below(i)) < n
    BY DEF First
  <2>2. Cardinality(Below(i)) \in Nat
    BY <1>1, <1>3
  <2> HIDE DEF Below
  <2> QED BY <2>1, <2>2
<1>6. \A i, k \in F : i < k => f[i] # f[k]
  <2> SUFFICES ASSUME NEW i \in F, NEW k \in F, i < k
               PROVE  Cardinality(Below(i)) # Cardinality(Below(k))
    OBVIOUS
  <2>1. i \in Nat /\ k \in Nat /\ i \in S /\ k \in S
    BY <1>1
  <2>2. i \in Below(k) /\ i \notin Below(i)
    BY <2>1
  <2>3. Below(i) \subseteq Below(k)
    <3> SUFFICES ASSUME NEW x \in S, x < i PROVE x < k
      OBVIOUS
    <3> QED BY <2>1
  <2>4. IsFiniteSet(Below(k))
    BY <1>3, <2>1
  <2> HIDE DEF Below
  <2>5. Cardinality(Below(i)) = Cardinality(Below(k)) => Below(i) = Below(k)
    BY <2>3, <2>4, FS_Subset
  <2> QED BY <2>2, <2>5
<1>7. ~ (n < Cardinality(F))
  <2> SUFFICES ASSUME n < Cardinality(F) PROVE FALSE
    OBVIOUS
  <2> DEFINE T == 0..(n - 1)
  <2>1. IsFiniteSet(T) /\ Cardinality(T) < Cardinality(F) /\ f \in [F -> T]
    BY <1>4, <1>5
  <2> HIDE DEF f, F, T
  <2>2. \E i, k \in F : i # k /\ f[i] = f[k]
    BY <1>2, <2>1, FS_PigeonHole
  <2>3. PICK i, k \in F : i # k /\ f[i] = f[k]
    BY <2>2
  <2>4. i \in Nat /\ k \in Nat
    BY <1>1, <2>3
  <2>5. i < k \/ k < i
    BY <2>3, <2>4
  <2> QED BY <1>6, <2>3, <2>5
<1> QED BY <1>1, <1>2, <1>7, FS_CardinalityType

LEMMA OfFinite ==
    ASSUME NEW a \in Algorithms, NEW S \in SUBSET Ids
    PROVE  /\ Of(a, S) \subseteq S /\ Of(a, S) \subseteq Nat /\ IsFiniteSet(Of(a, S))
           /\ Count(a, S) = Cardinality(Of(a, S)) /\ Count(a, S) \in Nat
<1>1. Of(a, S) \subseteq S /\ Of(a, S) \subseteq Ids
  BY DEF Of
<1> QED BY <1>1, ReconcilerAssumption, FS_Subset, FS_CardinalityType DEF Count

\* The numbers that go into Wanted are natural.
LEMMA ServingType ==
    ASSUME TypeOK, NEW a \in Algorithms
    PROVE  TotalRequests(a) \in Nat /\ Serving(a) \in Nat /\ Wanted(a) \in Nat
<1>1. requests[a] \in Nat /\ MinHot[a] \in Nat
  BY ReconcilerAssumption DEF TypeOK, Requests
<1>2. TotalRequests(a) \in Nat
  BY <1>1 DEF TotalRequests
<1>3. IdleWorkers \subseteq Ids /\ PausedWorkers \subseteq Ids /\ ExtraJobs \subseteq Ids
      /\ created \subseteq Ids
  BY DEF TypeOK, IdleWorkers, PausedWorkers, ExtraJobs, Workers
<1>4. Serving(a) \in Nat
  BY <1>3, OfFinite DEF Serving
<1> QED BY <1>2, <1>4, MissingType DEF Wanted

LEMMA WantsFinite == TypeOK => IsFiniteSet(Wants) /\ Cardinality(Wants) \in Nat
<1> SUFFICES ASSUME TypeOK PROVE IsFiniteSet(Wants)
  BY FS_CardinalityType
<1> DEFINE g == [a \in Algorithms |-> {a} \X (1..Wanted(a))]
           T == {{a} \X (1..Wanted(a)) : a \in Algorithms}
<1>1. g \in Surjection(Algorithms, T)
  BY DEF Surjection
<1>2. IsFiniteSet(T)
  BY <1>1, FS_Surjection, ReconcilerAssumption
<1>3. \A t \in T : IsFiniteSet(t)
  <2> SUFFICES ASSUME NEW a \in Algorithms PROVE IsFiniteSet({a} \X (1..Wanted(a)))
    OBVIOUS
  <2>1. IsFiniteSet(1..Wanted(a))
    BY ServingType, FS_Interval
  <2> QED BY <2>1, FS_Product, FS_Singleton
<1> QED BY <1>2, <1>3, FS_UNION DEF Wants

\* A pass creates at most as many jobs of an algorithm as it wants.
LEMMA FittingBound ==
    ASSUME TypeOK, NEW a \in Algorithms, NEW wanted \in WantedJobs
    PROVE  Cardinality(Fitting(a, wanted)) \in Nat
           /\ Cardinality(Fitting(a, wanted)) <= Wanted(a)
<1> DEFINE All == {k \in DOMAIN wanted : wanted[k] = a}
<1>1. DOMAIN wanted = 1..Cardinality(Wants) /\ Cardinality(All) = Wanted(a)
  BY DEF WantedJobs
<1>2. IsFiniteSet(1..Cardinality(Wants))
  BY WantsFinite, FS_Interval
<1>3. IsFiniteSet(All)
  BY <1>1, <1>2, FS_Subset
<1>4. Fitting(a, wanted) \subseteq All
  BY DEF Fitting
<1> QED BY <1>1, <1>3, <1>4, FS_Subset, FS_CardinalityType

LEMMA NewsType ==
    ASSUME TypeOK, NEW wanted \in WantedJobs
    PROVE  /\ News(wanted) \subseteq Unused
           /\ \A a \in Algorithms :
                /\ IsFiniteSet(Of(a, News(wanted)))
                /\ Cardinality(Of(a, News(wanted))) <= Wanted(a)
<1> DEFINE N(a) == Cardinality(Fitting(a, wanted))
           F(a) == First(N(a), Of(a, Unused))
<1>1. Unused \subseteq Ids
  BY DEF Unused
<1>2. \A a \in Algorithms : /\ F(a) \subseteq Of(a, Unused)
                            /\ IsFiniteSet(F(a)) /\ Cardinality(F(a)) <= N(a)
  <2> TAKE a \in Algorithms
  <2>1. N(a) \in Nat
    BY FittingBound
  <2>2. Of(a, Unused) \in SUBSET Nat /\ IsFiniteSet(Of(a, Unused))
    BY <1>1, OfFinite
  <2> HIDE DEF N
  <2> QED BY <2>1, <2>2, FirstBound
<1>3. News(wanted) = UNION {F(a) : a \in Algorithms}
  BY DEF News
<1>4. \A a \in Algorithms : Of(a, News(wanted)) \subseteq F(a)
  <2> SUFFICES ASSUME NEW a \in Algorithms, NEW i \in News(wanted), alg[i] = a
               PROVE  i \in F(a)
    BY DEF Of
  <2>1. PICK b \in Algorithms : i \in F(b)
    BY <1>3
  <2>2. alg[i] = b
    BY <1>2, <2>1 DEF Of
  <2> QED BY <2>1, <2>2
<1>5. News(wanted) \subseteq Unused
  BY <1>2, <1>3 DEF Of
<1>6. ASSUME NEW a \in Algorithms
      PROVE  IsFiniteSet(Of(a, News(wanted))) /\ Cardinality(Of(a, News(wanted))) <= Wanted(a)
  <2>1. IsFiniteSet(F(a)) /\ Cardinality(F(a)) <= N(a) /\ Cardinality(F(a)) \in Nat
    BY <1>2, FS_CardinalityType
  <2>2. IsFiniteSet(Of(a, News(wanted)))
        /\ Cardinality(Of(a, News(wanted))) <= Cardinality(F(a))
        /\ Cardinality(Of(a, News(wanted))) \in Nat
    BY <1>4, <2>1, FS_Subset, FS_CardinalityType
  <2>3. N(a) \in Nat /\ N(a) <= Wanted(a) /\ Wanted(a) \in Nat
    BY FittingBound, ServingType
  <2> QED BY <2>1, <2>2, <2>3
<1> QED BY <1>5, <1>6

-----------------------------------------------------------------------------
(***************************************************************************)
(* Types.                                                                  *)
(***************************************************************************)
LEMMA InitType == Init => TypeOK
<1> SUFFICES ASSUME Init PROVE TypeOK
  OBVIOUS
<1>1. NoRecord \in Record
  BY DEF NoRecord, Record
<1>2. record \in [Ids -> Record] /\ seenWorkers \in [Ids -> Record]
  BY <1>1 DEF Init, NoRecords
<1>3. /\ phase \in [Ids -> {"none", "creating", "pending", "alive"}]
      /\ pauseCommand \in [Ids -> {"no", "stopProcessing", "startProcessing"}]
      /\ hotCommand \in [Ids -> {"no", "warmUp", "coolDown"}]
  BY DEF Init, NoCommands
<1> QED BY <1>2, <1>3 DEF Init, TypeOK

LEMMA PassOverType ==
    ASSUME PassOver
    PROVE  /\ reads' = Wait /\ seenPods' \subseteq Ids /\ seenWorkers' \in [Ids -> Record]
           /\ seenJobs' \subseteq Ids
BY DEF PassOver, NoRecords, NoRecord, Record

LEMMA FlagType ==
    ASSUME TypeOK, NEW i \in Ids, NEW b \in BOOLEAN,
           \/ record' = [record EXCEPT ![i].paused = b]
           \/ record' = [record EXCEPT ![i].hot = b]
    PROVE  /\ record' \in [Ids -> Record]
           /\ \A k \in Ids : record'[k].status = record[k].status
<1>1. record \in [Ids -> Record] /\ record[i] \in Record
  BY DEF TypeOK
<1>2. /\ [record[i] EXCEPT !.paused = b] \in Record /\ [record[i] EXCEPT !.hot = b] \in Record
      /\ [record[i] EXCEPT !.paused = b].status = record[i].status
      /\ [record[i] EXCEPT !.hot = b].status = record[i].status
  BY <1>1 DEF Record
<1>3. PICK e \in Record : record' = [record EXCEPT ![i] = e] /\ e.status = record[i].status
  BY <1>2
<1> QED BY <1>1, <1>3

\* A command that arrives leaves the statuses alone.
LEMMA CommandType ==
    ASSUME TypeOK, NEW i \in Ids, PauseArrives(i) \/ HotArrives(i)
    PROVE  /\ record' \in [Ids -> Record]
           /\ \A k \in Ids : record'[k].status = record[k].status
<1>1. \E b \in BOOLEAN : \/ record' = [record EXCEPT ![i].paused = b]
                         \/ record' = [record EXCEPT ![i].hot = b]
  <2>1. CASE PauseArrives(i)
    BY <2>1 DEF PauseArrives
  <2>2. CASE HotArrives(i)
    BY <2>2 DEF HotArrives
  <2> QED BY <2>1, <2>2
<1> QED BY <1>1, FlagType

LEMMA GoneType ==
    ASSUME TypeOK, NEW i \in Ids, Gone(i)
    PROVE  /\ phase' \in [Ids -> {"none", "creating", "pending", "alive"}]
           /\ rested' \subseteq {k \in Ids : phase'[k] = "alive" /\ record'[k].status = "ready"}
           /\ pauseCommand' \in [Ids -> {"no", "stopProcessing", "startProcessing"}]
           /\ hotCommand' \in [Ids -> {"no", "warmUp", "coolDown"}]
           /\ UNCHANGED <<requests, hotJobs, jobs, record, executor>>
BY DEF TypeOK, Gone

LEMMA ReconcileType == TypeOK /\ Reconcile => TypeOK'
<1> SUFFICES ASSUME TypeOK, Reconcile PROVE TypeOK'
  OBVIOUS
<1> USE DEF TypeOK
<1>0. PICK lost \in Losses : Sends(lost)
  BY DEF Reconcile
<1>1. PICK wanted \in WantedJobs :
        /\ phase' = [i \in Ids |-> IF i \in News(wanted) THEN "creating" ELSE phase[i]]
        /\ created' = created \cup News(wanted)
        /\ hotJobs' = hotJobs \cup NewHot(wanted)
        /\ pauseCommand' = [i \in Ids |-> IF phase[i] # "alive" THEN "no"
                                          ELSE IF <<"pause", i>> \in lost THEN pauseCommand[i]
                                          ELSE IF i \in Stops(wanted) THEN "stopProcessing"
                                          ELSE IF i \in Wakes THEN "startProcessing"
                                          ELSE pauseCommand[i]]
  BY <1>0 DEF Sends
<1>2. News(wanted) \subseteq Unused /\ Unused \subseteq Ids
  BY NewsType DEF Unused
<1>3. NewHot(wanted) \subseteq News(wanted)
  BY DEF NewHot, First, Of
<1>4. phase' \in [Ids -> {"none", "creating", "pending", "alive"}]
  BY <1>1
<1>5. created' \subseteq Ids /\ hotJobs' \subseteq Ids
  BY <1>1, <1>2, <1>3
<1>6. pauseCommand' \in [Ids -> {"no", "stopProcessing", "startProcessing"}]
  BY <1>1
<1>7. hotCommand' \in [Ids -> {"no", "warmUp", "coolDown"}]
  BY <1>0 DEF Sends
<1>8. rested' \subseteq {i \in Ids : phase'[i] = "alive" /\ record'[i].status = "ready"}
  <2>1. \A i \in Ids : phase[i] = "alive" => phase'[i] = "alive"
    BY <1>1, <1>2 DEF Unused
  <2> QED BY <2>1 DEF Reconcile, Sends
<1>9. PassOver /\ UNCHANGED <<requests, jobs, record, nChanges, nDeaths, nSlow, nExits>>
  BY DEF Reconcile
<1>10. nFailures' \in Nat
  BY DEF Reconcile
<1> QED BY <1>4, <1>5, <1>6, <1>7, <1>8, <1>9, <1>10, PassOverType

LEMMA NextType == TypeOK /\ [Next]_vars => TypeOK'
<1> SUFFICES ASSUME TypeOK, [Next]_vars PROVE TypeOK'
  OBVIOUS
<1> USE DEF TypeOK
<1>1. CASE RequestsChange
  BY <1>1 DEF RequestsChange, life, commands, executor, seen
<1>2. ASSUME NEW i \in Ids, JobCreated(i) PROVE TypeOK'
  BY <1>2 DEF JobCreated, commands, executor, seen, counters
<1>3. ASSUME NEW i \in Ids, JobNotCreated(i) PROVE TypeOK'
  BY <1>3 DEF JobNotCreated, commands, executor, seen
<1>4. ASSUME NEW i \in Ids, Registers(i) PROVE TypeOK'
  <2>1. record' \in [Ids -> Record]
    <3>1. [status |-> "bootstrap", paused |-> FALSE, hot |-> i \in hotJobs] \in Record
      BY DEF Record
    <3> QED BY <1>4, <3>1 DEF Registers
  <2> QED BY <1>4, <2>1 DEF Registers, commands, executor, seen, counters
<1>5. ASSUME NEW i \in Ids, Over(i) PROVE TypeOK'
  <2>1. record' \in [Ids -> Record]
    BY <1>5 DEF Over, NoRecord, Record
  <2> QED BY <1>5, <2>1 DEF Over, commands, executor, seen, counters
<1>6. ASSUME NEW i \in Ids, GetsReady(i) PROVE TypeOK'
  BY <1>6 DEF GetsReady, Record, commands, executor, seen, counters
<1>7. ASSUME NEW i \in Ids, TakesJob(i) PROVE TypeOK'
  BY <1>7 DEF TakesJob, Record, commands, executor, seen, counters
<1>8. ASSUME NEW i \in Ids, PauseArrives(i) PROVE TypeOK'
  BY <1>8, CommandType DEF PauseArrives, executor, seen, counters
<1>9. ASSUME NEW i \in Ids, HotArrives(i) PROVE TypeOK'
  BY <1>9, CommandType DEF HotArrives, executor, seen, counters
<1>10. ASSUME NEW i \in Ids, Idles(i) PROVE TypeOK'
  BY <1>10, GoneType DEF Idles, executor, seen, counters
<1>11. ASSUME NEW i \in Ids, Dies(i) PROVE TypeOK'
  BY <1>11, GoneType DEF Dies, executor, seen
<1>12. ASSUME NEW i \in Ids, Expires(i) PROVE TypeOK'
  BY <1>12 DEF Expires, life, commands, seen
<1>13. CASE ReadPods
  BY <1>13 DEF ReadPods, Placed, life, commands, counters
<1>14. CASE ReadWorkers
  BY <1>14 DEF ReadWorkers, Wait, Lists, life, commands, counters
<1>15. CASE ReadJobs
  BY <1>15 DEF ReadJobs, Wait, Lists, life, commands, counters
<1>16. CASE ReadFails
  BY <1>16, PassOverType DEF ReadFails, life, commands
<1>17. CASE Reconcile
  BY <1>17, ReconcileType
<1>18. CASE ExecutorExit
  BY <1>18, PassOverType DEF ExecutorExit, life, commands
<1>19. CASE UNCHANGED vars
  BY <1>19 DEF vars, life, commands, executor, seen, counters
<1> QED
  BY <1>1, <1>2, <1>3, <1>4, <1>5, <1>6, <1>7, <1>8, <1>9, <1>10, <1>11, <1>12, <1>13,
     <1>14, <1>15, <1>16, <1>17, <1>18, <1>19 DEF Next, Kubernetes, Works, Pass

\* Every state of the task-executor and of what it manages has its type.
THEOREM TypeCorrect == Spec => []TypeOK
<1>1. Init => TypeOK
  BY InitType
<1>2. TypeOK /\ [Next]_vars => TypeOK'
  BY NextType
<1> QED BY <1>1, <1>2, PTL DEF Spec

-----------------------------------------------------------------------------
(***************************************************************************)
(* What is on its way is on the list: a worker that is alive has published *)
(* a status, and while no entry has left early and no list was lost, a job *)
(* is listed until its worker is ready and, when a pass is under way, has  *)
(* been read as such.                                                      *)
(***************************************************************************)
Known == \A i \in Ids : phase[i] = "alive" => record[i].status # "none"

OnItsWay(i) ==
    \/ phase[i] \in {"creating", "pending"}
    \/ phase[i] = "alive" /\ record[i].status = "bootstrap"
Unread(i) ==
    /\ phase[i] = "alive" /\ reads # Wait /\ "workers" \notin reads
    /\ seenWorkers[i].status \in {"none", "bootstrap"}
Listed == nSlow = 0 /\ nExits = 0 => \A i \in Ids : OnItsWay(i) \/ Unread(i) => i \in created

Inv == TypeOK /\ Known /\ Listed

LEMMA InitInv == Init => Inv
<1> SUFFICES ASSUME Init PROVE Inv
  OBVIOUS
<1>1. TypeOK
  BY InitType
<1>2. Known /\ Listed
  BY DEF Init, Known, Listed, OnItsWay, Unread
<1> QED BY <1>1, <1>2 DEF Inv

LEMMA NextKnown == TypeOK /\ Known /\ [Next]_vars => Known'
<1> SUFFICES ASSUME TypeOK, Known, [Next]_vars, NEW k \in Ids, phase'[k] = "alive"
             PROVE  record'[k].status # "none"
  BY DEF Known
<1> USE DEF TypeOK, Known
<1>1. ASSUME NEW i \in Ids, Registers(i) PROVE record'[k].status # "none"
  BY <1>1 DEF Registers
<1>2. ASSUME NEW i \in Ids, Over(i) PROVE record'[k].status # "none"
  BY <1>2 DEF Over
<1>3. ASSUME NEW i \in Ids, GetsReady(i) PROVE record'[k].status # "none"
  BY <1>3 DEF GetsReady, Record
<1>4. ASSUME NEW i \in Ids, TakesJob(i) PROVE record'[k].status # "none"
  BY <1>4 DEF TakesJob, Record
<1>5. ASSUME NEW i \in Ids, PauseArrives(i) PROVE record'[k].status # "none"
  BY <1>5, CommandType DEF PauseArrives
<1>6. ASSUME NEW i \in Ids, HotArrives(i) PROVE record'[k].status # "none"
  BY <1>6, CommandType DEF HotArrives
<1>7. CASE Reconcile
  <2>1. PICK wanted \in WantedJobs :
          phase' = [i \in Ids |-> IF i \in News(wanted) THEN "creating" ELSE phase[i]]
    BY <1>7 DEF Reconcile, Sends
  <2>2. phase[k] = "alive" /\ record' = record
    BY <1>7, <2>1 DEF Reconcile, Sends
  <2> QED BY <2>2
<1>8. ASSUME phase'[k] = phase[k] \/ phase'[k] # "alive", record' = record
      PROVE  record'[k].status # "none"
  BY <1>8
<1>9. ASSUME NEW i \in Ids, JobCreated(i) \/ JobNotCreated(i) \/ Idles(i) \/ Dies(i)
      PROVE  record'[k].status # "none"
  BY <1>8, <1>9 DEF JobCreated, JobNotCreated, Idles, Dies, Gone
<1>10. CASE \/ RequestsChange \/ ReadPods \/ ReadWorkers \/ ReadJobs \/ ReadFails \/ ExecutorExit
            \/ UNCHANGED vars \/ \E i \in Ids : Expires(i)
  BY <1>8, <1>10 DEF RequestsChange, ReadPods, ReadWorkers, ReadJobs, ReadFails, ExecutorExit,
                     Expires, vars, life
<1> QED
  BY <1>1, <1>2, <1>3, <1>4, <1>5, <1>6, <1>7, <1>9, <1>10 DEF Next, Kubernetes, Works, Pass

\* What is new on its way is listed by the step, and what leaves the list is not.
LEMMA NextListed == Inv /\ [Next]_vars => Listed'
<1> SUFFICES ASSUME Inv, [Next]_vars, nSlow' = 0, nExits' = 0,
                    NEW k \in Ids, (OnItsWay(k) \/ Unread(k))'
             PROVE  k \in created'
  BY DEF Listed
<1> USE DEF Inv, TypeOK, Known, OnItsWay, Unread
<1>1. CASE ExecutorExit
  BY <1>1 DEF ExecutorExit
<1>2. CASE \E i \in Ids : Expires(i)
  <2>1. PICK i \in Ids : Expires(i)
    BY <1>2
  <2>2. nSlow = 0 /\ ~ Early(i)
    BY <2>1 DEF Expires
  <2>3. UNCHANGED <<phase, record, reads, seenWorkers, nExits>> /\ created' = created \ {i}
    BY <2>1 DEF Expires, life, seen
  <2>4. k # i
    BY <2>2, <2>3 DEF Early
  <2>5. k \in created
    BY <2>2, <2>3 DEF Listed
  <2> QED BY <2>3, <2>4, <2>5
<1> SUFFICES ASSUME ~ ExecutorExit, ~ \E i \in Ids : Expires(i) PROVE k \in created'
  BY <1>1, <1>2
<1> DEFINE Kept == nSlow = 0 /\ nExits = 0 /\ created \subseteq created'
<1>3. ASSUME Kept, OnItsWay(k) \/ Unread(k) PROVE k \in created'
  BY <1>3 DEF Listed
<1>4. CASE RequestsChange \/ UNCHANGED vars
  BY <1>3, <1>4 DEF RequestsChange, vars, life, executor, seen, counters
<1>5. ASSUME NEW i \in Ids, JobCreated(i) \/ JobNotCreated(i) PROVE k \in created'
  BY <1>3, <1>5 DEF JobCreated, JobNotCreated, executor, seen, counters
<1>6. ASSUME NEW i \in Ids, Registers(i) PROVE k \in created'
  BY <1>3, <1>6 DEF Registers, executor, seen, counters
<1>7. ASSUME NEW i \in Ids, Over(i) PROVE k \in created'
  BY <1>3, <1>7 DEF Over, NoRecord, executor, seen, counters
<1>8. ASSUME NEW i \in Ids, GetsReady(i) \/ TakesJob(i) PROVE k \in created'
  <2>1. Kept /\ UNCHANGED <<phase, reads, seenWorkers>>
    BY <1>8 DEF GetsReady, TakesJob, executor, seen, counters
  <2>2. record'[k].status = "bootstrap" => record[k].status = "bootstrap"
    BY <1>8 DEF GetsReady, TakesJob, Record
  <2> QED BY <1>3, <2>1, <2>2
<1>9. ASSUME NEW i \in Ids, PauseArrives(i) \/ HotArrives(i) PROVE k \in created'
  <2>1. Kept /\ UNCHANGED <<phase, reads, seenWorkers>>
    BY <1>9 DEF PauseArrives, HotArrives, executor, seen, counters
  <2>2. record'[k].status = record[k].status
    BY <1>9, CommandType
  <2> QED BY <1>3, <2>1, <2>2
<1>10. ASSUME NEW i \in Ids, Idles(i) \/ Dies(i) PROVE k \in created'
  BY <1>3, <1>10 DEF Idles, Dies, Gone, executor, seen, counters
<1>11. CASE ReadPods \/ ReadWorkers \/ ReadJobs
  <2>1. Kept /\ UNCHANGED <<phase, record>>
    BY <1>11 DEF ReadPods, ReadWorkers, ReadJobs, life, counters
  <2>2. OnItsWay(k) => k \in created'
    BY <1>3, <2>1
  <2>3. CASE ReadWorkers
    BY <1>3, <2>1, <2>2, <2>3 DEF ReadWorkers
  <2>4. CASE ReadPods \/ ReadJobs
    BY <1>3, <2>1, <2>2, <2>4 DEF ReadPods, ReadJobs, Wait, Lists
  <2> QED BY <1>11, <2>3, <2>4
<1>12. CASE ReadFails
  BY <1>3, <1>12 DEF ReadFails, PassOver, life
<1>13. CASE Reconcile
  <2>1. PICK wanted \in WantedJobs :
          /\ phase' = [i \in Ids |-> IF i \in News(wanted) THEN "creating" ELSE phase[i]]
          /\ created' = created \cup News(wanted)
    BY <1>13 DEF Reconcile, Sends
  <2>2. Kept /\ record' = record /\ reads' = Wait
    BY <1>13, <2>1 DEF Reconcile, Sends, PassOver, counters
  <2>3. k \in News(wanted) \/ OnItsWay(k)
    BY <2>1, <2>2
  <2> QED BY <1>3, <2>1, <2>2, <2>3
<1> QED
  BY <1>4, <1>5, <1>6, <1>7, <1>8, <1>9, <1>10, <1>11, <1>12, <1>13
  DEF Next, Kubernetes, Works, Pass

LEMMA Invariance == Spec => []Inv
<1>1. Init => Inv
  BY InitInv
<1>2. Inv /\ [Next]_vars => Inv'
  BY NextType, NextKnown, NextListed DEF Inv
<1> QED BY <1>1, <1>2, PTL DEF Spec

-----------------------------------------------------------------------------
(***************************************************************************)
(* A pass counts all that waits for work, so that it never has too much.   *)
(***************************************************************************)
\* A union has no more elements than its parts.
LEMMA UnionBound ==
    ASSUME NEW S, NEW T, IsFiniteSet(S), IsFiniteSet(T)
    PROVE  /\ IsFiniteSet(S \cup T) /\ Cardinality(S \cup T) \in Nat
           /\ Cardinality(S \cup T) <= Cardinality(S) + Cardinality(T)
<1>1. IsFiniteSet(S \cap T)
  BY FS_Intersection
<1>2. IsFiniteSet(S \cup T)
  BY FS_Union
<1>3. Cardinality(S \cup T) = Cardinality(S) + Cardinality(T) - Cardinality(S \cap T)
  BY FS_Union
<1>4. /\ Cardinality(S) \in Nat /\ Cardinality(T) \in Nat
      /\ Cardinality(S \cap T) \in Nat /\ Cardinality(S \cup T) \in Nat
  BY <1>1, <1>2, FS_CardinalityType
<1> QED BY <1>2, <1>3, <1>4

LEMMA WaitingServes ==
    ASSUME Inv, nSlow = 0, nExits = 0, reads = {}, NEW a \in Algorithms
    PROVE  /\ IsFiniteSet(Waiting(a)) /\ Cardinality(Waiting(a)) \in Nat
           /\ Cardinality(Waiting(a)) <= Serving(a)
<1> DEFINE I == Of(a, IdleWorkers)
           P == Of(a, PausedWorkers)
           C == Of(a, created)
           E == Of(a, ExtraJobs)
<1>1. /\ IdleWorkers \subseteq Ids /\ PausedWorkers \subseteq Ids /\ ExtraJobs \subseteq Ids
      /\ created \subseteq Ids
  BY DEF Inv, TypeOK, IdleWorkers, PausedWorkers, ExtraJobs, Workers
<1>2. Waiting(a) \subseteq (I \cup P) \cup C
  <2> SUFFICES ASSUME NEW i \in Waiting(a), i \notin created
               PROVE  i \in IdleWorkers \cup PausedWorkers
    BY DEF Waiting, Of
  <2>1. i \in Ids /\ phase[i] # "none" /\ seenWorkers[i].status # "busy"
    BY DEF Waiting
  <2>2. ~ OnItsWay(i) /\ ~ Unread(i)
    BY <2>1 DEF Inv, Listed
  <2>3. phase[i] = "alive"
    BY <2>1, <2>2 DEF Inv, TypeOK, OnItsWay
  <2>4. seenWorkers[i].status = "ready"
    BY <2>1, <2>2, <2>3 DEF Inv, TypeOK, Unread, Wait, Record
  <2> QED BY <2>1, <2>4 DEF IdleWorkers, PausedWorkers, Workers, NoRecord, Inv, TypeOK, Record
<1>3. /\ IsFiniteSet(I) /\ IsFiniteSet(P) /\ IsFiniteSet(C)
      /\ Serving(a) = Cardinality(I) + Cardinality(P) + Cardinality(E) + Cardinality(C)
      /\ Cardinality(E) \in Nat
  BY <1>1, OfFinite DEF Serving
<1> HIDE DEF I, P, C, E
<1>4. /\ IsFiniteSet(I \cup P) /\ Cardinality(I \cup P) <= Cardinality(I) + Cardinality(P)
  BY <1>3, UnionBound
<1>5. /\ IsFiniteSet((I \cup P) \cup C)
      /\ Cardinality((I \cup P) \cup C) <= Cardinality(I \cup P) + Cardinality(C)
  BY <1>3, <1>4, UnionBound
<1>6. /\ IsFiniteSet(Waiting(a)) /\ Cardinality(Waiting(a)) \in Nat
      /\ Cardinality(Waiting(a)) <= Cardinality((I \cup P) \cup C)
  BY <1>2, <1>5, FS_Subset, FS_CardinalityType
<1>7. /\ Cardinality(I) \in Nat /\ Cardinality(P) \in Nat /\ Cardinality(C) \in Nat
      /\ Cardinality(I \cup P) \in Nat /\ Cardinality((I \cup P) \cup C) \in Nat
  BY <1>3, <1>4, <1>5, FS_CardinalityType
<1> QED BY <1>3, <1>4, <1>5, <1>6, <1>7

Surplus(a) ==
    Of(a, Creates) # {} /\ nSlow = 0 /\ nExits = 0
        /\ ~ (Cardinality(Of(a, Creates) \cup Waiting(a)) <= TotalRequests(a))

LEMMA StepNoSurplus == ASSUME Inv, [Next]_vars, NEW a \in Algorithms PROVE ~ Surplus(a)
<1> SUFFICES ASSUME Of(a, Creates) # {}, nSlow = 0, nExits = 0
             PROVE  Cardinality(Of(a, Creates) \cup Waiting(a)) <= TotalRequests(a)
  BY DEF Surplus
<1>1. Reconcile
  <2>1. PICK i \in Ids : phase[i] = "none" /\ phase'[i] = "creating"
    BY DEF Of, Creates
  <2>2. phase' # phase
    BY <2>1
  <2>3. \A k \in Ids : ~ (JobCreated(k) \/ JobNotCreated(k) \/ Registers(k) \/ Gone(k))
    BY <2>1 DEF JobCreated, JobNotCreated, Registers, Gone, Inv, TypeOK
  <2> QED BY <2>2, <2>3 DEF Next, Kubernetes, Works, Pass, Idles, Dies, Over, GetsReady, TakesJob,
             PauseArrives, HotArrives, Expires, RequestsChange, ReadPods, ReadWorkers, ReadJobs,
             ReadFails, ExecutorExit, vars, life
<1>2. PICK wanted \in WantedJobs :
        phase' = [i \in Ids |-> IF i \in News(wanted) THEN "creating" ELSE phase[i]]
  BY <1>1 DEF Reconcile, Sends
<1>3. TypeOK /\ reads = {}
  BY <1>1 DEF Inv, Reconcile, Sends
<1> DEFINE N == Of(a, News(wanted))
           W == Waiting(a)
<1>4. Of(a, Creates) \subseteq N
  BY <1>2 DEF Of, Creates
<1>5. IsFiniteSet(N) /\ Cardinality(N) <= Wanted(a) /\ Cardinality(N) \in Nat
  BY <1>3, NewsType, FS_CardinalityType
<1>6. IsFiniteSet(W) /\ Cardinality(W) \in Nat /\ Cardinality(W) <= Serving(a)
  BY <1>3, WaitingServes
<1>7. TotalRequests(a) \in Nat /\ Serving(a) \in Nat /\ Wanted(a) \in Nat
  BY <1>3, ServingType
<1>8. N # {}
  BY <1>4
<1> HIDE DEF N, W
<1>9. Cardinality(N) # 0
  BY <1>5, <1>8, FS_EmptySet
<1>10. Wanted(a) + Serving(a) = TotalRequests(a)
  <2>1. Wanted(a) > 0
    BY <1>5, <1>7, <1>9
  <2>2. Wanted(a) = Missing(TotalRequests(a), Serving(a))
    BY DEF Wanted
  <2> HIDE DEF Wanted
  <2> QED BY <1>7, <2>1, <2>2 DEF Missing
<1>11. /\ IsFiniteSet(N \cup W)
       /\ Cardinality(N \cup W) <= Cardinality(N) + Cardinality(W)
       /\ Cardinality(N \cup W) \in Nat
  BY <1>5, <1>6, UnionBound
<1>12. Cardinality(N \cup W) <= TotalRequests(a)
  BY <1>5, <1>6, <1>7, <1>10, <1>11
<1>13. Of(a, Creates) \cup W \subseteq N \cup W
  BY <1>4
<1>14. /\ Cardinality(Of(a, Creates) \cup W) <= Cardinality(N \cup W)
       /\ Cardinality(Of(a, Creates) \cup W) \in Nat
  BY <1>11, <1>13, FS_Subset, FS_CardinalityType
<1> QED BY <1>7, <1>11, <1>12, <1>14 DEF W

\* No pass creates more jobs of an algorithm than there are requests that no idle or
\* paused worker, and no job or worker on its way, will serve: as long as no entry has
\* left createdJobsList early and no list was lost.
THEOREM NeverTooMany == Spec => NoSurplus
<1>1. Inv /\ [Next]_vars =>
        [\A a \in Algorithms : Of(a, Creates) # {} /\ nSlow = 0 /\ nExits = 0 =>
            Cardinality(Of(a, Creates) \cup Waiting(a)) <= TotalRequests(a)]_vars
  BY StepNoSurplus DEF Surplus
<1> QED BY <1>1, Invariance, PTL DEF Spec, NoSurplus
=============================================================================
