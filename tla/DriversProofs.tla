---------------------------- MODULE DriversProofs ----------------------------
(***************************************************************************)
(* Theorems about Drivers, for every number of drivers and of passes: the  *)
(* types, and that there are never more jobs than the maximum.             *)
(***************************************************************************)
EXTENDS Drivers, FiniteSetTheorems, TLAPS

-----------------------------------------------------------------------------
(***************************************************************************)
(* Numbers.                                                                *)
(***************************************************************************)
LEMMA Division ==
    ASSUME NEW x \in Int, NEW q \in Int, q * Unit <= x, x < q * Unit + Unit
    PROVE  x \div Unit = q
BY DriversAssumption, SMTT(30)

LEMMA Divided ==
    ASSUME NEW x \in Int
    PROVE  /\ x \div Unit \in Int
           /\ (x \div Unit) * Unit <= x /\ x < (x \div Unit) * Unit + Unit
BY DriversAssumption, SMTT(30)

\* Jobs that are there need not be added.
LEMMA RoundedLess ==
    ASSUME NEW a \in Int, NEW k \in Int
    PROVE  RoundedUp(a - k * Unit) = RoundedUp(a) - k /\ RoundedUp(a) \in Int
<1> DEFINE q == RoundedUp(a)
<1>1. q \in Int /\ q * Unit <= a + Unit - 1 /\ a + Unit - 1 < q * Unit + Unit
  BY Divided, DriversAssumption DEF RoundedUp
<1> HIDE DEF q
<1>2. (q - k) * Unit = q * Unit - k * Unit /\ q - k \in Int
  BY <1>1, DriversAssumption
<1>3. ((a - k * Unit) + Unit - 1) \div Unit = q - k
  <2> DEFINE x == (a - k * Unit) + Unit - 1
  <2>1. x \in Int /\ (q - k) * Unit <= x /\ x < (q - k) * Unit + Unit
    BY <1>1, <1>2, DriversAssumption
  <2> HIDE DEF x
  <2>2. x \div Unit = q - k
    BY <1>2, <2>1, Division
  <2> QED BY <2>2 DEF x
<1> QED BY <1>1, <1>3 DEF RoundedUp, q

LEMMA RoundedGrows ==
    ASSUME NEW a \in Int, NEW b \in Int, a <= b
    PROVE  RoundedUp(a) <= RoundedUp(b)
<1> DEFINE p == RoundedUp(a)
           q == RoundedUp(b)
<1>1. /\ p \in Int /\ p * Unit <= a + Unit - 1
      /\ q \in Int /\ b + Unit - 1 < (q + 1) * Unit
  BY Divided, DriversAssumption DEF RoundedUp
<1> HIDE DEF p, q
<1>2. p * Unit < (q + 1) * Unit
  <2>1. p * Unit \in Int /\ (q + 1) * Unit \in Int
    BY <1>1, DriversAssumption
  <2> QED BY <1>1, <2>1, DriversAssumption
<1>3. p < q + 1
  BY <1>1, <1>2, DriversAssumption
<1> QED BY <1>1, <1>3 DEF p, q

\* With what a pass adds there are no more jobs than the maximum.
LEMMA AddsUpToMaximum ==
    ASSUME NEW view, view.jobs \in Nat, view.requests \in Nat
    PROVE  ToAdd(view) \in Int /\ view.jobs + ToAdd(view) <= RoundedUp(MaxAmount)
<1>1. MaxAmount \in Int /\ Amount(view) \in Int /\ Amount(view) <= MaxAmount
  BY DriversAssumption DEF Amount, MaxAmount
<1>2. /\ RoundedUp(Missing(view)) = RoundedUp(Amount(view)) - view.jobs
      /\ RoundedUp(Amount(view)) \in Int
  <2> DEFINE a == Amount(view)
  <2>1. a \in Int /\ view.jobs \in Int
    BY <1>1
  <2> HIDE DEF a
  <2>2. RoundedUp(a - view.jobs * Unit) = RoundedUp(a) - view.jobs /\ RoundedUp(a) \in Int
    BY <2>1, RoundedLess
  <2> QED BY <2>2 DEF Missing, a
<1>3. RoundedUp(Amount(view)) <= RoundedUp(MaxAmount) /\ RoundedUp(MaxAmount) \in Int
  BY <1>1, RoundedGrows, Divided, DriversAssumption DEF RoundedUp
<1> QED BY <1>2, <1>3, DriversAssumption DEF ToAdd

LEMMA JobsAreCounted ==
    ASSUME NEW S, S \subseteq Jobs
    PROVE  IsFiniteSet(S) /\ Cardinality(S) \in Nat
BY DriversAssumption, FS_Subset, FS_CardinalityType

LEMMA FewerAreFewer ==
    ASSUME NEW S, NEW T, S \subseteq T, T \subseteq Jobs
    PROVE  Cardinality(S) <= Cardinality(T)
BY JobsAreCounted, FS_Subset

LEMMA TogetherNoMore ==
    ASSUME NEW S, NEW T, S \subseteq Jobs, T \subseteq Jobs
    PROVE  Cardinality(S \cup T) <= Cardinality(S) + Cardinality(T)
<1>1. Cardinality(S \cap T) \in Nat
  BY JobsAreCounted
<1>2. Cardinality(S \cup T) = Cardinality(S) + Cardinality(T) - Cardinality(S \cap T)
  BY JobsAreCounted, FS_Union
<1> QED BY <1>1, <1>2, JobsAreCounted

-----------------------------------------------------------------------------
(***************************************************************************)
(* Types.                                                                  *)
(***************************************************************************)
View == [idle : SUBSET Running, gone : Nat, jobs : Nat, requests : Nat, template : BOOLEAN]

LEMMA UnseenTyped == Unseen \in View
BY DEF Unseen, View

LEMMA LookedTyped ==
    ASSUME TypeOK, NEW view \in View, NEW what \in Reads
    PROVE  Looked(view, what) \in View
<1>1. Cardinality(Counted) \in Nat
  BY JobsAreCounted DEF Counted
<1>2. Idle \subseteq Running /\ requests \in Nat /\ template \in BOOLEAN
  BY DriversAssumption DEF TypeOK, Idle, Running
<1> QED BY <1>1, <1>2 DEF Looked, View, Reads

\* Every job that is being created is created by one call, of a pass that is not over; what a
\* pass has read it has only while it reads.
Apart ==
    /\ \A p, q \in Passes : p # q => toCreate[p] \cap toCreate[q] = {}
    /\ \A p \in Passes : toCreate[p] # {} => step[p] = "calling"
    /\ \A p \in Passes : read[p] # {} => step[p] = "reading"
    /\ \A j \in Jobs : phase[j] = "creating" => \E p \in Passes : j \in toCreate[p]

LEMMA TypeStep ==
    ASSUME TypeOK, Apart, [Next]_vars
    PROVE  TypeOK'
<1> USE DEF TypeOK
<1>1. CASE UNCHANGED vars
  BY <1>1 DEF vars, cluster, passes, Running
<1>2. ASSUME NEW p \in Passes, Begin(p)
      PROVE  TypeOK'
  BY <1>2 DEF Begin, cluster, Running
<1>3. ASSUME NEW p \in Passes, NEW what \in Reads, Read(p, what)
      PROVE  TypeOK'
  <2>1. Looked(seen[p], what) \in View
    BY LookedTyped DEF View
  <2>2. seen' \in [Passes -> View]
    BY <1>3, <2>1 DEF Read, View
  <2> QED BY <1>3, <2>2 DEF Read, cluster, Running, View
<1>4. ASSUME NEW p \in Passes, GivesUp(p)
      PROVE  TypeOK'
  BY <1>4, UnseenTyped, DriversAssumption DEF GivesUp, Over, Failing, cluster, Running, View
<1>5. ASSUME NEW p \in Passes, Reconcile(p)
      PROVE  TypeOK'
  <2>1. PICK new \in SUBSET Free, extra \in SUBSET seen[p].idle :
           /\ toCreate' = [toCreate EXCEPT ![p] = new]
           /\ toStop' = [toStop EXCEPT ![p] = extra]
           /\ phase' = [j \in Jobs |-> IF j \in new THEN "creating" ELSE phase[j]]
           /\ UNCHANGED nFailures \/ Failing
    BY <1>5 DEF Reconcile
  <2>2. Running' = Running /\ extra \subseteq Running
    BY <2>1 DEF Running, Free
  <2>3. /\ {j \in Jobs : phase[j] = "creating"} \subseteq {j \in Jobs : phase'[j] = "creating"}
        /\ new \subseteq {j \in Jobs : phase'[j] = "creating"}
    BY <2>1 DEF Free
  <2>4. phase' \in [Jobs -> Phases]
    BY <2>1 DEF Phases
  <2>5. toCreate' \in [Passes -> SUBSET {j \in Jobs : phase'[j] = "creating"}]
    BY <2>1, <2>3
  <2>6. toStop' \in [Passes -> SUBSET Running] /\ nFailures' \in 0..MaxFailures
    BY <2>1, <2>2, DriversAssumption DEF Failing
  <2>7. seen' \in [Passes -> View] /\ read' \in [Passes -> SUBSET Reads]
    BY <1>5, UnseenTyped DEF Reconcile, View
  <2> QED BY <1>5, <2>2, <2>4, <2>5, <2>6, <2>7 DEF Reconcile, View
<1>6. ASSUME NEW p \in Passes, NEW j \in Jobs, Stopped(p, j)
      PROVE  TypeOK'
  <2>1. j \in Running
    BY <1>6 DEF Stopped
  <2>2. Running' = Running /\ paused' \subseteq Running /\ nFailures' \in 0..MaxFailures
    <3>1. phase' = phase /\ paused' \in {paused, paused \cup {j}}
      BY <1>6 DEF Stopped
    <3>2. nFailures' \in 0..MaxFailures
      BY <1>6, DriversAssumption DEF Stopped, Failing
    <3> QED BY <2>1, <3>1, <3>2 DEF Running
  <2>3. toStop' \in [Passes -> SUBSET Running] /\ awaited' \in Passes \cup {None}
    BY <1>6 DEF Stopped
  <2> QED BY <1>6, <2>2, <2>3 DEF Stopped
<1>7. ASSUME NEW p \in Passes, Finish(p)
      PROVE  TypeOK'
  BY <1>7, UnseenTyped DEF Finish, Over, cluster, Running, View
<1>8. CASE LeftBehind
  BY <1>8, DriversAssumption DEF LeftBehind, Failing, cluster, passes, Running
<1>9. CASE Restart
  <2>1. seen' \in [Passes -> View]
    BY <1>9, UnseenTyped DEF Restart, View
  <2> QED BY <1>9, <2>1, DriversAssumption DEF Restart, Failing, cluster, Running, View
<1>10. ASSUME NEW p \in Passes, NEW j \in Jobs, Created(p, j)
       PROVE  TypeOK'
  <2>1. phase[j] = "creating"
    BY <1>10 DEF Created
  <2>2. PICK to \in {"starting", "none"} : phase' = [phase EXCEPT ![j] = to]
    BY <1>10 DEF Created
  <2>3. phase' \in [Jobs -> Phases] /\ Running' = Running
    BY <2>1, <2>2 DEF Phases, Running
  <2>4. ASSUME NEW q \in Passes
        PROVE  toCreate'[q] \subseteq {i \in Jobs : phase'[i] = "creating"}
    <3>1. j \notin toCreate'[q]
      BY <1>10 DEF Created, Apart
    <3>2. toCreate'[q] \subseteq toCreate[q]
      BY <1>10 DEF Created
    <3> QED BY <2>2, <3>1, <3>2
  <2>5. toCreate' \in [Passes -> SUBSET {i \in Jobs : phase'[i] = "creating"}]
    BY <1>10, <2>4 DEF Created
  <2>6. nFailures' \in 0..MaxFailures
    BY <1>10, DriversAssumption DEF Created, Failing
  <2> QED BY <1>10, <2>3, <2>5, <2>6 DEF Created
<1>11. ASSUME NEW j \in Jobs, Starts(j) \/ Takes(j) \/ Ends(j), UNCHANGED <<awaited, overtaken>>
       PROVE  TypeOK'
  <2>1. PICK to \in {"ready", "busy"} :
           phase' = [phase EXCEPT ![j] = to] /\ phase[j] \in {"starting", "ready", "busy"}
    BY <1>11 DEF Starts, Takes, Ends, Idle
  <2>2. phase' \in [Jobs -> Phases] /\ Running \subseteq Running'
    BY <2>1 DEF Phases, Running
  <2>3. {i \in Jobs : phase'[i] = "creating"} = {i \in Jobs : phase[i] = "creating"}
    BY <2>1
  <2>4. requests' \in 0..nOrders
    BY <1>11, DriversAssumption DEF Starts, Takes, Ends
  <2>5. UNCHANGED <<paused, template, nOrders, passes, nFailures>>
    BY <1>11 DEF Starts, Takes, Ends
  <2>6. seen \in [Passes -> View]' /\ toStop \in [Passes -> SUBSET Running']
    BY <2>2, <2>5 DEF View, passes
  <2>7. seen' \in [Passes -> View']
    BY <2>5, <2>6 DEF passes
  <2> QED BY <1>11, <2>2, <2>3, <2>4, <2>5, <2>6, <2>7 DEF passes, View
<1>12. ASSUME NEW j \in Jobs, Exits(j) \/ Crashes(j), UNCHANGED <<awaited, overtaken>>
       PROVE  TypeOK'
  <2>1. PICK to \in {"none", "starting", "failed"} :
           /\ phase' = [phase EXCEPT ![j] = to] /\ phase[j] \in {"starting", "ready", "busy"}
    BY <1>12 DEF Exits, Crashes
  <2>2. phase' \in [Jobs -> Phases] /\ Running' = Running \ {j}
    BY <2>1 DEF Phases, Running
  <2>3. {i \in Jobs : phase'[i] = "creating"} = {i \in Jobs : phase[i] = "creating"}
    BY <2>1
  <2>4. Forget(j) /\ nFailures' \in 0..MaxFailures
    BY <1>12, DriversAssumption DEF Exits, Crashes, Failing
  <2>5. ASSUME NEW p \in Passes
        PROVE  seen'[p] \in [idle : SUBSET (Running \ {j}), gone : Nat, jobs : Nat,
                              requests : Nat, template : BOOLEAN]
    <3>1. /\ seen[p] \in [idle : SUBSET Running, gone : Nat, jobs : Nat, requests : Nat,
                           template : BOOLEAN]
          /\ seen'[p] = IF j \in seen[p].idle
                        THEN [seen[p] EXCEPT !.idle = @ \ {j}, !.gone = @ + 1] ELSE seen[p]
      BY <2>4 DEF Forget
    <3>2. seen[p].idle \subseteq Running /\ seen[p].gone + 1 \in Nat
      BY <3>1
    <3>3. CASE j \in seen[p].idle
      <4>1. seen'[p] = [idle |-> seen[p].idle \ {j}, gone |-> seen[p].gone + 1,
                        jobs |-> seen[p].jobs, requests |-> seen[p].requests,
                        template |-> seen[p].template]
        BY <3>1, <3>3
      <4>2. seen[p].jobs \in Nat /\ seen[p].requests \in Nat /\ seen[p].template \in BOOLEAN
        BY <3>1
      <4> QED BY <3>2, <4>1, <4>2
    <3>4. CASE j \notin seen[p].idle
      BY <3>1, <3>2, <3>4
    <3> QED BY <3>3, <3>4
  <2>6. seen' \in [Passes -> [idle : SUBSET (Running \ {j}), gone : Nat, jobs : Nat,
                              requests : Nat, template : BOOLEAN]]
    BY <2>4, <2>5 DEF Forget
  <2>7. paused' \subseteq Running \ {j} /\ toStop' \in [Passes -> SUBSET (Running \ {j})]
    BY <2>4 DEF Forget
  <2>8. UNCHANGED <<requests, template, nOrders, step, read, toCreate>>
    BY <1>12 DEF Exits, Crashes
  <2> QED BY <1>12, <2>2, <2>3, <2>4, <2>6, <2>7, <2>8
<1>13. CASE (Order \/ TemplateStored) /\ UNCHANGED <<awaited, overtaken>>
  <2>1. nOrders' \in 0..MaxOrders /\ requests' \in 0..nOrders' /\ template' \in BOOLEAN
    <3>1. CASE Order
      <4>1. nOrders' = nOrders + 1 /\ requests' = requests + 1 /\ nOrders < MaxOrders
            /\ template' = template
        BY <3>1 DEF Order
      <4>2. nOrders \in Int /\ requests \in Int /\ 0 <= requests /\ requests <= nOrders
        BY DriversAssumption
      <4> QED BY <4>1, <4>2, DriversAssumption
    <3>2. CASE TemplateStored
      BY <3>2 DEF TemplateStored
    <3> QED BY <1>13, <3>1, <3>2
  <2>2. UNCHANGED <<phase, paused, step, read, seen, toCreate, toStop, nFailures>>
    BY <1>13 DEF Order, TemplateStored, passes
  <2>3. Running' = Running
    BY <2>2 DEF Running
  <2> QED BY <1>13, <2>1, <2>2, <2>3
<1>14. ASSUME NEW p \in Passes, NEW j, Created(p, j) \/ Stopped(p, j)
       PROVE  j \in Jobs
  BY <1>14 DEF Created, Stopped, Running
<1> QED BY <1>1, <1>2, <1>3, <1>4, <1>5, <1>6, <1>7, <1>8, <1>9, <1>10, <1>11, <1>12, <1>13
        DEF Next, PassStep, Elsewhere

-----------------------------------------------------------------------------
(***************************************************************************)
(* The calls of a pass are its own.                                        *)
(***************************************************************************)
\* What a step does to the jobs that are being created.
LEMMA ApartStep ==
    ASSUME TypeOK, Apart, [Next]_vars
    PROVE  Apart'
<1>1. CASE /\ UNCHANGED toCreate
           /\ \A p \in Passes : step[p] = "calling" => step'[p] = "calling"
           /\ \A p \in Passes : read'[p] # {} => step'[p] = "reading"
           /\ \A j \in Jobs : phase'[j] = "creating" => phase[j] = "creating"
  BY <1>1 DEF Apart
<1>2. ASSUME NEW p \in Passes, GivesUp(p) \/ Finish(p)
      PROVE  Apart'
  <2>1. toCreate[p] = {} /\ UNCHANGED <<toCreate, phase>>
    BY <1>2 DEF GivesUp, Finish, Apart, cluster
  <2>2. /\ \A q \in Passes \ {p} : step'[q] = step[q] /\ read'[q] = read[q]
        /\ read'[p] = {}
    BY <1>2 DEF GivesUp, Finish, Over, TypeOK
  <2> QED BY <2>1, <2>2 DEF Apart
<1>3. ASSUME NEW p \in Passes, Reconcile(p)
      PROVE  Apart'
  <2>1. PICK new \in SUBSET Free :
           /\ toCreate' = [toCreate EXCEPT ![p] = new]
           /\ phase' = [j \in Jobs |-> IF j \in new THEN "creating" ELSE phase[j]]
           /\ step' = [step EXCEPT ![p] = "calling"] /\ read' = [read EXCEPT ![p] = {}]
    BY <1>3 DEF Reconcile
  <2>2. toCreate[p] = {}
    BY <1>3 DEF Reconcile, Apart
  <2>3. \A q \in Passes : toCreate[q] \cap Free = {}
    BY DEF TypeOK, Free
  <2>4. /\ toCreate'[p] = new /\ step'[p] = "calling" /\ read'[p] = {}
        /\ \A q \in Passes \ {p} :
              toCreate'[q] = toCreate[q] /\ step'[q] = step[q] /\ read'[q] = read[q]
    BY <2>1 DEF TypeOK
  <2>5. \A j \in Jobs : phase'[j] = "creating" => j \in new \/ phase[j] = "creating"
    BY <2>1
  <2> QED BY <2>1, <2>2, <2>3, <2>4, <2>5 DEF Apart
<1>4. ASSUME NEW p \in Passes, NEW j \in Jobs, Created(p, j)
      PROVE  Apart'
  <2>1. /\ toCreate'[p] = toCreate[p] \ {j} /\ step' = step /\ read' = read
        /\ \A q \in Passes \ {p} : toCreate'[q] = toCreate[q]
        /\ phase'[j] # "creating" /\ \A i \in Jobs \ {j} : phase'[i] = phase[i]
    BY <1>4 DEF Created, TypeOK
  <2> QED BY <2>1 DEF Apart
<1>5. ASSUME NEW p \in Passes, NEW j, Created(p, j)
      PROVE  j \in Jobs
  BY <1>5 DEF Created, TypeOK
<1>6. CASE UNCHANGED vars
  BY <1>1, <1>6 DEF Apart, vars, cluster, passes
<1>7. CASE LeftBehind \/ Restart \/ Elsewhere
  BY <1>1, <1>7 DEF LeftBehind, Restart, Elsewhere, Starts, Takes, Ends, Exits, Crashes, Order,
     TemplateStored, cluster, passes, TypeOK, Apart
<1>8. ASSUME NEW p \in Passes, NEW what \in Reads, NEW j, Begin(p) \/ Read(p, what) \/ Stopped(p, j)
      PROVE  Apart'
  BY <1>1, <1>8 DEF Begin, Read, Stopped, cluster, TypeOK, Apart
<1> QED BY <1>2, <1>3, <1>4, <1>5, <1>6, <1>7, <1>8 DEF Next, PassStep, Reads

\* TypeOK: every variable of the passes and of the drivers keeps its type, and what is
\* created or stopped is a job that is being created, or runs.
THEOREM DriversTypes == Spec => [](TypeOK /\ Apart)
<1>1. Init => TypeOK /\ Apart
  <2> SUFFICES ASSUME Init
               PROVE  TypeOK /\ Apart
    OBVIOUS
  <2>1. seen \in [Passes -> View]
    BY UnseenTyped DEF Init
  <2>2. /\ toCreate \in [Passes -> SUBSET {j \in Jobs : phase[j] = "creating"}]
        /\ toStop \in [Passes -> SUBSET Running] /\ read \in [Passes -> SUBSET Reads]
        /\ step \in [Passes -> {"over", "reading", "calling"}]
    BY DEF Init
  <2>3. /\ phase \in [Jobs -> Phases] /\ paused \subseteq Running /\ template \in BOOLEAN
        /\ awaited \in Passes \cup {None} /\ overtaken \in BOOLEAN
    BY DEF Init, Phases
  <2>4. nOrders \in 0..MaxOrders /\ requests \in 0..nOrders /\ nFailures \in 0..MaxFailures
    BY DriversAssumption DEF Init
  <2>5. Apart
    BY DEF Init, Apart
  <2> QED BY <2>1, <2>2, <2>3, <2>4, <2>5 DEF TypeOK, View
<1>2. TypeOK /\ Apart /\ [Next]_vars => (TypeOK /\ Apart)'
  BY TypeStep, ApartStep
<1> QED BY <1>1, <1>2, PTL DEF Spec

-----------------------------------------------------------------------------
(***************************************************************************)
(* Never too many.                                                         *)
(***************************************************************************)
\* While no pass has overtaken another: one is under way at a time; the jobs that it has
\* counted are all there are, since nobody else creates any; and there are not too many.
Counting ==
    overtaken = FALSE =>
        /\ \A p, q \in Passes : step[p] # "over" /\ step[q] # "over" => p = q
        /\ \A p \in Passes : step[p] = "reading" /\ "jobs" \in read[p] =>
              Cardinality(Unfinished) <= seen[p].jobs
        /\ Cardinality(Unfinished) <= RoundedUp(MaxAmount)

\* A step that adds no job, and has no pass begin or read, leaves the count.
LEMMA NoneAdded ==
    ASSUME TypeOK, Counting, UNCHANGED overtaken,
           Unfinished' \subseteq Unfinished,
           \A p \in Passes : /\ step'[p] # "over" => step[p] # "over"
                             /\ step'[p] = "reading" => /\ step[p] = "reading"
                                                        /\ read'[p] = read[p]
                                                        /\ seen'[p].jobs = seen[p].jobs
    PROVE  Counting'
<1>1. Cardinality(Unfinished') <= Cardinality(Unfinished)
  BY FewerAreFewer DEF Unfinished
<1>2. Cardinality(Unfinished') \in Nat /\ Cardinality(Unfinished) \in Nat
  BY JobsAreCounted DEF Unfinished
<1>3. RoundedUp(MaxAmount) \in Int /\ \A p \in Passes : seen[p].jobs \in Int
  BY Divided, DriversAssumption DEF RoundedUp, MaxAmount, TypeOK
<1> SUFFICES ASSUME overtaken' = FALSE
             PROVE  /\ \A p, q \in Passes : step'[p] # "over" /\ step'[q] # "over" => p = q
                    /\ \A p \in Passes : step'[p] = "reading" /\ "jobs" \in read'[p] =>
                          Cardinality(Unfinished') <= seen'[p].jobs
                    /\ Cardinality(Unfinished') <= RoundedUp(MaxAmount)
  BY DEF Counting, RoundedUp, MaxAmount
<1>4. \A p, q \in Passes : step'[p] # "over" /\ step'[q] # "over" => p = q
  BY DEF Counting
<1>5. ASSUME NEW p \in Passes, step'[p] = "reading", "jobs" \in read'[p]
      PROVE  Cardinality(Unfinished') <= seen'[p].jobs
  <2>1. Cardinality(Unfinished) <= seen[p].jobs /\ seen'[p].jobs = seen[p].jobs
    BY <1>5 DEF Counting
  <2> QED BY <1>1, <1>2, <1>3, <2>1
<1>6. Cardinality(Unfinished') <= RoundedUp(MaxAmount)
  <2>1. Cardinality(Unfinished) <= RoundedUp(MaxAmount)
    BY DEF Counting
  <2> QED BY <1>1, <1>2, <1>3, <2>1
<1> QED BY <1>4, <1>5, <1>6

LEMMA CountingStep ==
    ASSUME TypeOK, Apart, Counting, [Next]_vars
    PROVE  Counting'
<1>1. CASE UNCHANGED vars \/ LeftBehind
  BY <1>1, NoneAdded DEF vars, cluster, passes, LeftBehind, Unfinished
<1>2. CASE Restart
  <2>1. UNCHANGED <<overtaken, phase>> /\ Unfinished' = Unfinished
    BY <1>2 DEF Restart, cluster, Unfinished
  <2>2. \A p \in Passes : step'[p] # "over" => step[p] # "over" /\ step'[p] # "reading"
    BY <1>2 DEF Restart, TypeOK
  <2> QED BY <2>1, <2>2, NoneAdded
<1>3. CASE Elsewhere
  <2>1. UNCHANGED <<step, read, overtaken>>
    BY <1>3 DEF Elsewhere, Starts, Takes, Ends, Exits, Crashes, Order, TemplateStored, passes
  <2>2. Unfinished' \subseteq Unfinished
    BY <1>3 DEF Elsewhere, Starts, Takes, Ends, Exits, Crashes, Order, TemplateStored, TypeOK, Idle,
       Unfinished
  <2>3. ASSUME NEW p \in Passes
        PROVE  seen'[p].jobs = seen[p].jobs
    <3>1. UNCHANGED seen \/ \E j \in Jobs : Forget(j)
      BY <1>3 DEF Elsewhere, Starts, Takes, Ends, Exits, Crashes, Order, TemplateStored, passes
    <3>2. CASE UNCHANGED seen
      BY <3>2
    <3>3. CASE \E j \in Jobs : Forget(j)
      <4>1. PICK j \in Jobs :
               seen'[p] = IF j \in seen[p].idle
                          THEN [seen[p] EXCEPT !.idle = @ \ {j}, !.gone = @ + 1] ELSE seen[p]
        BY <3>3 DEF Forget
      <4> QED BY <4>1 DEF TypeOK
    <3> QED BY <3>1, <3>2, <3>3
  <2> QED BY <2>1, <2>2, <2>3, NoneAdded
<1>4. ASSUME NEW p \in Passes, Begin(p)
      PROVE  Counting'
  <2> SUFFICES ASSUME overtaken' = FALSE
               PROVE  Counting'
    BY DEF Counting
  <2>1. overtaken = FALSE /\ \A q \in Passes : step[q] = "over"
    BY <1>4 DEF Begin, TypeOK
  <2>2. /\ step'[p] = "reading" /\ \A q \in Passes \ {p} : step'[q] = "over"
        /\ UNCHANGED <<read, seen, phase>>
    BY <1>4, <2>1 DEF Begin, TypeOK, cluster
  <2>3. read'[p] = {} /\ Unfinished' = Unfinished
    BY <2>1, <2>2 DEF Apart, Unfinished
  <2> QED BY <2>1, <2>2, <2>3 DEF Counting
<1>5. ASSUME NEW p \in Passes, NEW what \in Reads, Read(p, what)
      PROVE  Counting'
  <2> SUFFICES ASSUME overtaken' = FALSE
               PROVE  Counting'
    BY DEF Counting
  <2>1. /\ overtaken = FALSE /\ step[p] = "reading" /\ UNCHANGED <<step, phase>>
        /\ \A q \in Passes \ {p} : read'[q] = read[q] /\ seen'[q] = seen[q] /\ step[q] = "over"
    BY <1>5 DEF Read, cluster, Counting, TypeOK
  <2>2. Unfinished' = Unfinished /\ Counted = Unfinished
    BY <2>1 DEF Unfinished, Counted, Apart
  <2>3. ASSUME "jobs" \in read'[p]
        PROVE  Cardinality(Unfinished) <= seen'[p].jobs
    <3>1. seen'[p] = Looked(seen[p], what)
      BY <1>5 DEF Read, TypeOK
    <3>2. seen[p] \in View
      BY DEF TypeOK, View
    <3>3. CASE what = "jobs"
      <4>1. seen'[p].jobs = Cardinality(Counted)
        BY <3>1, <3>2, <3>3 DEF Looked, View
      <4> QED BY <2>2, <4>1, JobsAreCounted DEF Unfinished
    <3>4. CASE what # "jobs"
      <4>1. seen'[p].jobs = seen[p].jobs
        BY <3>1, <3>2, <3>4 DEF Looked, View, Reads
      <4>2. "jobs" \in read[p]
        BY <1>5, <2>3, <3>4 DEF Read, TypeOK
      <4> QED BY <2>1, <4>1, <4>2 DEF Counting
    <3> QED BY <3>3, <3>4
  <2> QED BY <2>1, <2>2, <2>3 DEF Counting
<1>6. ASSUME NEW p \in Passes, GivesUp(p) \/ Finish(p)
      PROVE  Counting'
  <2>1. UNCHANGED <<overtaken, phase>> /\ Unfinished' = Unfinished
    BY <1>6 DEF GivesUp, Finish, cluster, Unfinished
  <2>2. /\ step'[p] = "over"
        /\ \A q \in Passes \ {p} : step'[q] = step[q] /\ read'[q] = read[q] /\ seen'[q] = seen[q]
    BY <1>6 DEF GivesUp, Finish, Over, TypeOK
  <2> QED BY <2>1, <2>2, NoneAdded
<1>7. ASSUME NEW p \in Passes, NEW j, Created(p, j) \/ Stopped(p, j)
      PROVE  Counting'
  <2>1. UNCHANGED <<step, read, seen, overtaken>>
    BY <1>7 DEF Created, Stopped
  <2>2. Unfinished' \subseteq Unfinished
    BY <1>7 DEF Created, Stopped, TypeOK, Unfinished
  <2> QED BY <2>1, <2>2, NoneAdded
<1>8. ASSUME NEW p \in Passes, Reconcile(p)
      PROVE  Counting'
  <2> SUFFICES ASSUME overtaken' = FALSE
               PROVE  Counting'
    BY DEF Counting
  <2> DEFINE n == Cardinality(Unfinished)
             view == seen[p]
  <2>1. PICK new \in SUBSET Free :
           /\ phase' = [j \in Jobs |-> IF j \in new THEN "creating" ELSE phase[j]]
           /\ Cardinality(new) <= ToAdd(view) \/ new = {}
    <3>1. PICK new \in SUBSET Free :
             /\ phase' = [j \in Jobs |-> IF j \in new THEN "creating" ELSE phase[j]]
             /\ \/ Cardinality(new) = ToAdd(view)
                \/ Cardinality(new) < ToAdd(view)
                \/ new = {}
      BY <1>8 DEF Reconcile
    <3>2. ToAdd(view) \in Int /\ Cardinality(new) \in Nat
      BY AddsUpToMaximum, JobsAreCounted DEF TypeOK, Free
    <3> QED BY <3>1, <3>2
  <2>2. /\ overtaken = FALSE /\ step[p] = "reading" /\ "jobs" \in read[p]
        /\ step'[p] = "calling" /\ \A q \in Passes \ {p} : step'[q] = step[q]
    BY <1>8 DEF Reconcile, Reads, TypeOK
  <2>3. n <= view.jobs /\ n <= RoundedUp(MaxAmount) /\ n \in Nat /\ view.jobs \in Nat
    BY <2>2, JobsAreCounted DEF Counting, Unfinished, TypeOK
  <2>4. Unfinished' = Unfinished \cup new
    BY <2>1 DEF Unfinished, Free, TypeOK
  <2>5. Cardinality(Unfinished') <= RoundedUp(MaxAmount)
    <3>1. Cardinality(Unfinished \cup new) <= n + Cardinality(new) /\ Cardinality(new) \in Nat
      BY <2>1, TogetherNoMore, JobsAreCounted DEF Unfinished, Free
    <3>2. ToAdd(view) \in Int /\ view.jobs + ToAdd(view) <= RoundedUp(MaxAmount)
      BY AddsUpToMaximum DEF TypeOK
    <3>3. RoundedUp(MaxAmount) \in Int /\ Cardinality(Unfinished \cup new) \in Nat
      <4>1. RoundedUp(MaxAmount) \in Int
        BY Divided, DriversAssumption DEF RoundedUp, MaxAmount
      <4>2. Unfinished \cup new \subseteq Jobs
        BY <2>1 DEF Unfinished, Free
      <4> QED BY <4>1, <4>2, JobsAreCounted
    <3>4. CASE new = {}
      BY <2>3, <2>4, <3>4
    <3>5. CASE Cardinality(new) <= ToAdd(view)
      <4> HIDE DEF n, view
      <4> QED BY <2>3, <2>4, <3>1, <3>2, <3>3, <3>5
    <3> QED BY <2>1, <3>4, <3>5
  <2>6. \A q \in Passes : step'[q] # "reading"
    BY <2>2 DEF Counting
  <2> QED BY <2>2, <2>5, <2>6 DEF Counting
<1> QED BY <1>1, <1>2, <1>3, <1>4, <1>5, <1>6, <1>7, <1>8 DEF Next, PassStep

\* NeverTooMany: whatever the requests are and whichever calls fail, there are never more jobs of
\* drivers than the maximum, rounded up, while no pass overtakes another.
THEOREM DriversAreBounded == Spec => []NeverTooMany
<1>1. Init => Counting
  <2> SUFFICES ASSUME Init
               PROVE  Counting
    OBVIOUS
  <2>1. Unfinished = {} /\ Cardinality({}) = 0
    BY FS_EmptySet DEF Init, Unfinished
  <2>2. 0 <= RoundedUp(MaxAmount)
    <3>1. MaxAmount \in Int /\ 0 <= MaxAmount
      BY DriversAssumption DEF MaxAmount
    <3>2. RoundedUp(0) <= RoundedUp(MaxAmount)
      BY <3>1, RoundedGrows
    <3>3. RoundedUp(0) = 0
      <4>1. (0 + Unit - 1) \div Unit = 0
        <5> DEFINE x == 0 + Unit - 1
        <5>1. x \in Int /\ 0 * Unit <= x /\ x < 0 * Unit + Unit
          BY DriversAssumption
        <5> HIDE DEF x
        <5>2. x \div Unit = 0
          BY <5>1, Division
        <5> QED BY <5>2 DEF x
      <4> QED BY <4>1 DEF RoundedUp
    <3> QED BY <3>2, <3>3
  <2> QED BY <2>1, <2>2 DEF Init, Counting
<1>2. TypeOK /\ Apart /\ Counting /\ [Next]_vars => Counting'
  BY CountingStep
<1>3. TypeOK /\ Counting => NeverTooMany
  BY DEF TypeOK, Counting, NeverTooMany
<1> QED BY <1>1, <1>2, <1>3, DriversTypes, PTL DEF Spec
=============================================================================
