----------------------------- MODULE StoreProofs -----------------------------
(***************************************************************************)
(* Proofs about PipelineGraph, StoreRecords and Store: whatever interleaves*)
(* or fails, what is stored can run, the algorithms in use are there unless*)
(* a misled request has written, the requests that are not misled are      *)
(* atomic, and a stored pipeline is as its copy, or a request excuses it.  *)
(***************************************************************************)
EXTENDS Store, WellFoundedInduction, TLAPS

LEMMA LeastRank ==
    ASSUME NEW T \in SUBSET Nat, T # {}
    PROVE  \E x \in T : \A y \in T : x <= y
<1> DEFINE R == OpToRel(<, Nat)
<1>1. IsWellFoundedOn(R, Nat)
  BY NatLessThanWellFounded
<1>2. PICK x \in T : \A y \in T : <<y, x>> \notin R
  <2> HIDE DEF R
  <2> QED BY <1>1, WFMin
<1>3. \A y \in T : ~(y < x)
  BY <1>2 DEF OpToRel
<1> HIDE DEF R
<1> QED BY <1>2, <1>3

LEMMA ValidNodesRun ==
    ASSUME NEW nodes \in NodeList, ValidNodes(nodes)
    PROVE  Runnable(nodes)
<1> DEFINE names == Names(nodes)
<1>1. PICK rank \in [names -> DOMAIN nodes] :
         \A l \in Links(nodes) : rank[l[1]] < rank[l[2]]
  BY DEF ValidNodes, IsAcyclic
<1>2. \A n \in names : rank[n] \in Nat
  <2>1. DOMAIN nodes \subseteq Nat
    BY DEF NodeList
  <2> QED BY <1>1, <2>1
<1> SUFFICES ASSUME NEW ran \in SUBSET names, ran # names
             PROVE  \E i \in DOMAIN nodes :
                       nodes[i].name \notin ran /\ nodes[i].inputs \subseteq ran
  BY DEF Runnable
<1> DEFINE T == {rank[n] : n \in names \ ran}
<1>3. T \in SUBSET Nat /\ T # {}
  BY <1>2
<1>4. PICK m \in T : \A y \in T : m <= y
  <2> HIDE DEF T
  <2> QED BY <1>3, LeastRank
<1>5. PICK i \in DOMAIN nodes : nodes[i].name \notin ran /\ rank[nodes[i].name] = m
  BY <1>4 DEF Names
<1>6. ASSUME NEW n \in nodes[i].inputs, n \notin ran
      PROVE  FALSE
  <2>1. n \in names
    BY <1>5, <1>6 DEF ValidNodes
  <2>2. nodes[i] \in Node
    BY <1>5 DEF NodeList
  <2>3. <<n, nodes[i].name>> \in Links(nodes)
    BY <1>5, <1>6, <2>2 DEF Links, Node
  <2>4. rank[n] < m
    BY <1>1, <1>5, <2>3
  <2>5. m <= rank[n]
    BY <1>4, <1>6, <2>1
  <2> QED BY <1>2, <1>3, <1>4, <2>1, <2>4, <2>5
<1> QED BY <1>5, <1>6

-----------------------------------------------------------------------------
(***************************************************************************)
(* Kinds of records, and what a request makes of one.                      *)
(***************************************************************************)
AlgorithmOps == {"insertAlgorithm", "updateAlgorithm", "applyAlgorithm"}
StoreOps == {"insertPipeline", "updatePipeline"}
PipelineOps == {"deletePipeline", "startCronJob", "stopCronJob", "runStored"}
BuildOps == {"stopBuild", "rerunBuild"}

\* A request names a record of the kind it is about.
LEMMA RequestKinds ==
    ASSUME NEW q \in Request
    PROVE  /\ q.op \in AlgorithmOps \cup StoreOps \cup {"deleteAlgorithm"} \cup PipelineOps
                       \cup BuildOps
           /\ q.key \in Keys
           /\ q.op \in AlgorithmOps => q.key \in AlgorithmKeys /\ q.data \in Payload
           /\ q.op \in StoreOps => q.key \in PipelineKeys /\ q.data \in Pipeline
           /\ q.op = "deleteAlgorithm" => q.key \in AlgorithmKeys
           /\ q.op \in PipelineOps => q.key \in PipelineKeys
           /\ q.op \in BuildOps => q.key \in BuildKeys
BY DEF Request, AlgorithmOps, StoreOps, PipelineOps, BuildOps, Keys

\* The four kinds of keys differ.
LEMMA KeyKinds ==
    /\ \A k \in AlgorithmKeys : RecordsOf(k) = Algorithm /\ k \notin PipelineKeys \cup RunKeys
    /\ \A k \in PipelineKeys : RecordsOf(k) = Pipeline /\ k \notin RunKeys
    /\ \A k \in BuildKeys : /\ RecordsOf(k) = Build
                            /\ k \notin PipelineKeys \cup RunKeys \cup AlgorithmKeys
    /\ \A k \in RunKeys : RecordsOf(k) = Run
BY DEF RecordsOf, AlgorithmKeys, PipelineKeys, BuildKeys, RunKeys

\* A version that is counted on is a version, or none.
LEMMA IncVersionTyped ==
    ASSUME NEW old \in Optional(Algorithm), NEW new \in Payload
    PROVE  IncVersion(old, new) \in Optional(Version)
<1>1. old # None => old.version \in Optional(Version)
  BY DEF Optional, Algorithm
<1>2. new.version \in Optional(Version)
  BY DEF Payload
<1>3. ASSUME NEW v \in Nat \X Nat \X Nat
      PROVE  Incremented(v) \in Optional(Version)
  BY DEF Incremented, Optional, Version
<1> HIDE DEF Incremented
<1> QED BY <1>1, <1>2, <1>3 DEF IncVersion, Optional, Version

LEMMA NewBuildTyped ==
    ASSUME NEW q \in Request, q.op = "applyAlgorithm",
           NEW old \in Optional(RecordsOf(q.key))
    PROVE  NewBuild(q, old) \in Build
<1>1. q.key \in AlgorithmKeys /\ q.data \in Payload
  BY RequestKinds DEF AlgorithmOps
<1>2. q.key[2] \in Algorithms
  BY <1>1 DEF AlgorithmKeys
<1>3. IncVersion(old, q.data) \in Optional(Version)
  BY <1>1, KeyKinds, IncVersionTyped
<1> QED BY <1>2, <1>3 DEF NewBuild, Build, BuildStatus

LEMMA AppliedTyped ==
    ASSUME NEW old \in Optional(Algorithm), NEW new \in Payload
    PROVE  Applied(old, new) \in Algorithm
<1>1. IncVersion(old, new) \in Optional(Version)
  BY IncVersionTyped
<1>2. ShouldBuild(old, new) \in BOOLEAN
  BY DEF ShouldBuild
<1>3. NoAlgorithm \in Algorithm
  BY DEF NoAlgorithm, Stored, Algorithm, Optional
<1> HIDE DEF IncVersion, ShouldBuild, NoAlgorithm
<1> DEFINE was == IF old = None THEN NoAlgorithm ELSE old
           image == new.image \/ was.image
<1>4. was \in Algorithm
  BY <1>3 DEF Optional
<1> HIDE DEF was
<1>5. image \in BOOLEAN /\ (~image /\ ShouldBuild(old, new)) \in BOOLEAN
  OBVIOUS
<1>6. /\ was.sum \in Optional(Files) /\ was.env \in Optional(Envs)
      /\ was.version \in Optional(Version)
  BY <1>4 DEF Algorithm
<1>7. /\ new.file \in Optional(Files) /\ new.env \in Optional(Envs)
      /\ new.version \in Optional(Version)
  BY DEF Payload
<1>8. /\ Over(new.file, was.sum) \in Optional(Files) /\ Over(new.env, was.env) \in Optional(Envs)
      /\ Over(new.version, was.version) \in Optional(Version)
  BY <1>6, <1>7 DEF Over
<1> HIDE DEF image
<1>9. Applied(old, new) =
         [image |-> image, sum |-> Over(new.file, was.sum), env |-> Over(new.env, was.env),
          version |-> IF ShouldBuild(old, new) THEN IncVersion(old, new)
                                               ELSE Over(new.version, was.version),
          pending |-> ~image /\ ShouldBuild(old, new)]
  BY DEF Applied, was, image
<1> QED BY <1>1, <1>5, <1>8, <1>9 DEF Algorithm

\* What is written is of the kind of its key, if a record that has to be there is.
LEMMA ResultTyped ==
    ASSUME NEW q \in Request, NEW r \in Requests, NEW old \in Optional(RecordsOf(q.key)),
           q.op \in {"startCronJob", "stopCronJob", "runStored"} \cup BuildOps => old # None
    PROVE  /\ Target(r, q) \in Keys
           /\ Result(q, old) \in Optional(RecordsOf(Target(r, q)))
<1>1. CASE q.op \in {"insertAlgorithm", "updateAlgorithm"}
  BY <1>1, RequestKinds, KeyKinds
     DEF Result, Target, Stored, Algorithm, Payload, Optional, AlgorithmOps, Keys
<1>2. CASE q.op = "applyAlgorithm"
  BY <1>2, RequestKinds, KeyKinds, AppliedTyped DEF Result, Target, Optional, AlgorithmOps, Keys
<1>3. CASE q.op \in StoreOps
  BY <1>3, RequestKinds, KeyKinds DEF Result, Target, Optional, StoreOps, Keys
<1>4. CASE q.op \in {"deleteAlgorithm", "deletePipeline"}
  BY <1>4, RequestKinds DEF Result, Target, Optional
<1>5. CASE q.op \in {"startCronJob", "stopCronJob"}
  <2>1. old \in Pipeline /\ q.key \in PipelineKeys
    BY <1>5, RequestKinds, KeyKinds DEF Optional, PipelineOps
  <2> QED BY <1>5, <2>1, KeyKinds DEF Result, Toggled, Target, Optional, Pipeline, Keys
<1>6. CASE q.op = "runStored"
  <2>1. old \in Pipeline
    BY <1>6, RequestKinds, KeyKinds DEF Optional, PipelineOps
  <2>2. <<"run", r>> \in RunKeys
    BY RecordsAssumption DEF RunKeys
  <2> QED BY <1>6, <2>1, <2>2, KeyKinds DEF Result, RunOf, Target, Optional, Pipeline, Run, Keys
<1>7. CASE q.op \in BuildOps
  <2>1. old \in Build /\ q.key \in BuildKeys
    BY <1>7, RequestKinds, KeyKinds DEF Optional
  <2> QED BY <1>7, <2>1, KeyKinds
          DEF Result, StoppedBuild, StartedAgain, Target, Optional, Build, BuildStatus,
              BuildOps, Keys
<1> QED BY <1>1, <1>2, <1>3, <1>4, <1>5, <1>6, <1>7, RequestKinds
        DEF AlgorithmOps, StoreOps, PipelineOps

\* A call comes after the calls that have to be made before it.
LEMMA DueCalls ==
    ASSUME NEW r \in Requests, request[r] \in Request, NEW call, Due(r, call)
    PROVE  LET op == request[r].op IN
           /\ Open(r) /\ call \notin done[r] /\ call \in DOMAIN Calls(op)
           /\ call = "write" => "get" \in done[r]
           /\ call = "write" /\ op \in {"insertPipeline", "updatePipeline", "runStored"} =>
                  "algorithms" \in done[r]
           /\ call = "write" /\ op = "deleteAlgorithm" => {"pipelines", "running"} \subseteq done[r]
           /\ call = "write" /\ op = "applyAlgorithm" => "build" \in done[r]
           /\ call = "algorithms" => op \in {"insertPipeline", "updatePipeline", "runStored"}
           /\ call = "algorithms" /\ op # "insertPipeline" => "get" \in done[r]
           /\ call \in {"pipelines", "running"} => op = "deleteAlgorithm" /\ "get" \in done[r]
           /\ call = "build" => op = "applyAlgorithm" /\ "get" \in done[r]
           /\ call = "copy" => op \in {"insertAlgorithm", "insertPipeline"} \/ "get" \in done[r]
           /\ call = "copy" => op \in {"insertAlgorithm", "startCronJob", "stopCronJob"} \cup StoreOps
<1> DEFINE op == request[r].op
<1>1. op \in AlgorithmOps \cup StoreOps \cup {"deleteAlgorithm"} \cup PipelineOps \cup BuildOps
  BY RequestKinds
<1>2. call \in DOMAIN Calls(op) /\ call \notin done[r] /\ Calls(op)[call] \subseteq done[r] /\ Open(r)
  BY DEF Due
<1>3. CASE op = "insertAlgorithm"
  BY <1>2, <1>3 DEF Calls, InsertAlgorithm
<1>4. CASE op = "updateAlgorithm"
  BY <1>2, <1>4 DEF Calls, UpdateAlgorithm
<1>5. CASE op = "applyAlgorithm"
  BY <1>2, <1>5 DEF Calls, ApplyAlgorithm
<1>6. CASE op = "deleteAlgorithm"
  BY <1>2, <1>6 DEF Calls, DeleteAlgorithm
<1>7. CASE op = "insertPipeline"
  BY <1>2, <1>7 DEF Calls, InsertPipeline, StoreOps
<1>8. CASE op = "updatePipeline"
  BY <1>2, <1>8 DEF Calls, UpdatePipeline, StoreOps
<1>9. CASE op = "deletePipeline"
  BY <1>2, <1>9 DEF Calls, DeletePipeline
<1>10. CASE op \in {"startCronJob", "stopCronJob"}
  BY <1>2, <1>10 DEF Calls, ToggleCronJob
<1>11. CASE op = "runStored"
  BY <1>2, <1>11 DEF Calls, RunStored
<1>12. CASE op = "stopBuild"
  BY <1>2, <1>12 DEF Calls, StopBuild
<1>13. CASE op = "rerunBuild"
  BY <1>2, <1>13 DEF Calls, RerunBuild
<1> QED BY <1>1, <1>3, <1>4, <1>5, <1>6, <1>7, <1>8, <1>9, <1>10, <1>11, <1>12, <1>13
        DEF AlgorithmOps, StoreOps, PipelineOps, BuildOps
-----------------------------------------------------------------------------
(***************************************************************************)
(* Types, and how far a request is.                                        *)
(***************************************************************************)
StoreTyped ==
    /\ DOMAIN store = Keys /\ \A k \in Keys : store[k] \in Optional(RecordsOf(k))
    /\ DOMAIN copies = AlgorithmKeys \cup PipelineKeys
    /\ \A k \in DOMAIN copies : copies[k] \in Optional(RecordsOf(k))
    /\ misled \subseteq Requests

\* What an open request has found out with the calls it has made.
Known(q, o, d, g) ==
    /\ ValidRequest(q)
    /\ "get" \in d => Accepted(q, g)
    /\ "get" \in d /\ q.op = "applyAlgorithm" =>
           IF "build" \in d THEN o = "building" <=> ShouldBuild(g, q.data)
                            ELSE o = "open" /\ ShouldBuild(g, q.data)
    /\ "get" \notin d => o = "open" /\ "build" \notin d
    /\ o = "building" => q.op = "applyAlgorithm"
    /\ "algorithms" \in d /\ q.op = "runStored" => "get" \in d

Progress ==
    \A r \in Requests : Open(r) =>
        /\ Known(request[r], outcome[r], done[r], got[r])
        /\ "get" \in done[r] /\ request[r].op = "stopBuild" => store[request[r].key] # None

TypeInv == TypeOK /\ Progress

\* An accepted record is there, if it is used.
LEMMA AcceptedThere ==
    ASSUME NEW q \in Request, NEW old, Accepted(q, old),
           q.op \notin {"insertAlgorithm", "insertPipeline", "applyAlgorithm"}
    PROVE  old # None
BY RequestKinds DEF Accepted, CanStop, CanRunAgain, AlgorithmOps, StoreOps, PipelineOps, BuildOps

\* An open request is known, with what it has read.
LEMMA OpenTyped ==
    ASSUME TypeInv, NEW r \in Requests, Open(r)
    PROVE  /\ request[r] \in Request /\ request[r] # None
           /\ got[r] \in Optional(RecordsOf(request[r].key))
           /\ done[r] \subseteq DOMAIN Calls(request[r].op)
BY DEF TypeInv, TypeOK, Open, Optional

LEMMA PutTyped ==
    ASSUME StoreTyped, NEW k \in Keys, NEW record \in Optional(RecordsOf(k)), NEW r,
           Put(k, record, r)
    PROVE  /\ DOMAIN store' = Keys /\ \A j \in Keys : store'[j] \in Optional(RecordsOf(j))
           /\ misled' \subseteq Requests
BY DEF StoreTyped, Put

\* A call that writes, writes what is of the kind of its key.
LEMMA WriteTyped ==
    ASSUME TypeInv, NEW r \in Requests,
           \/ Due(r, "copy") /\ PutCopy(r)
           \/ Due(r, "build") /\ PutBuild(r)
           \/ Due(r, "write") /\ PutRecord(r)
    PROVE  StoreTyped'
<1> DEFINE q == request[r]
<1>1. StoreTyped
  BY DEF TypeInv, TypeOK, StoreTyped
<1>2. Open(r)
  BY DEF Due
<1>3. q \in Request /\ got[r] \in Optional(RecordsOf(q.key))
  BY <1>2, OpenTyped
<1>4. "get" \in done[r] => Accepted(q, got[r])
  BY <1>2 DEF TypeInv, Progress, Known
<1>5. CASE Due(r, "copy") /\ PutCopy(r)
  <2>1. \/ q.op \in {"insertAlgorithm", "insertPipeline"}
        \/ "get" \in done[r] /\ q.op \in {"startCronJob", "stopCronJob"} \cup StoreOps
    BY <1>3, <1>5, DueCalls
  <2>2. q.op \in {"startCronJob", "stopCronJob", "runStored"} \cup BuildOps => got[r] # None
    BY <1>3, <1>4, <2>1, AcceptedThere DEF StoreOps, BuildOps
  <2>3. Result(q, got[r]) \in Optional(RecordsOf(Target(r, q)))
    BY <1>3, <2>2, ResultTyped
  <2>4. Target(r, q) = q.key /\ q.key \in AlgorithmKeys \cup PipelineKeys
    BY <1>3, <2>1, RequestKinds DEF Target, StoreOps, AlgorithmOps, PipelineOps
  <2> QED BY <1>1, <1>5, <2>3, <2>4 DEF PutCopy, StoreTyped
<1>6. CASE Due(r, "build") /\ PutBuild(r)
  <2>1. q.op = "applyAlgorithm"
    BY <1>3, <1>6, DueCalls
  <2>2. NewBuild(q, got[r]) \in Build
    BY <1>3, <2>1, NewBuildTyped
  <2>3. PICK k \in BuildKeys : Put(k, NewBuild(q, got[r]), r)
    BY <1>6 DEF PutBuild
  <2>4. k \in Keys /\ NewBuild(q, got[r]) \in Optional(RecordsOf(k))
    BY <2>2, <2>3, KeyKinds DEF Keys, Optional
  <2> QED BY <1>1, <1>6, <2>3, <2>4, PutTyped DEF PutBuild, StoreTyped
<1>7. CASE Due(r, "write") /\ PutRecord(r)
  <2> DEFINE old == IF q.op = "stopBuild" THEN store[Target(r, q)] ELSE got[r]
  <2>1. "get" \in done[r]
    BY <1>3, <1>7, DueCalls
  <2>2. q.op = "stopBuild" => Target(r, q) = q.key /\ store[q.key] # None
    BY <1>2, <2>1 DEF Target, TypeInv, Progress
  <2>3. old \in Optional(RecordsOf(q.key))
    BY <1>1, <1>3, <2>2, RequestKinds DEF StoreTyped
  <2>4. q.op \in {"startCronJob", "stopCronJob", "runStored"} \cup BuildOps => old # None
    BY <1>3, <1>4, <2>1, <2>2, AcceptedThere DEF BuildOps
  <2>5. Target(r, q) \in Keys /\ Result(q, old) \in Optional(RecordsOf(Target(r, q)))
    BY <1>3, <2>3, <2>4, ResultTyped
  <2>6. Put(Target(r, q), Result(q, old), r) /\ UNCHANGED copies
    BY <1>7 DEF PutRecord
  <2> HIDE DEF old
  <2> QED BY <1>1, <2>5, <2>6, PutTyped DEF StoreTyped
<1> QED BY <1>5, <1>6, <1>7
LEMMA InitTyped == Init => TypeInv
<1> SUFFICES ASSUME Init PROVE TypeInv
  OBVIOUS
<1>1. \A k \in AlgorithmKeys \cup PipelineKeys : k \in Keys
  BY DEF Keys
<1>2. /\ DOMAIN store = Keys /\ \A k \in Keys : store[k] \in Optional(RecordsOf(k))
      /\ DOMAIN copies = AlgorithmKeys \cup PipelineKeys
      /\ \A k \in DOMAIN copies : copies[k] \in Optional(RecordsOf(k))
  BY <1>1, StoreAssumption DEF Init
<1>3. /\ request \in [Requests -> Optional(Request)]
      /\ outcome \in [Requests -> {"new", "open", "building", "ok", "refused", "failed"}]
      /\ DOMAIN done = Requests /\ DOMAIN got = Requests
      /\ reads \in [Requests -> SUBSET Keys] /\ misled \subseteq Requests
      /\ nFailures \in 0..MaxFailures
  BY StoreAssumption DEF Init, Optional
<1>4. \A r \in Requests : ~Open(r) /\ done[r] = {} /\ got[r] = None /\ reads[r] = {}
  BY DEF Init, Open
<1>5. TypeOK
  BY <1>2, <1>3, <1>4 DEF TypeOK
<1> QED BY <1>4, <1>5 DEF TypeInv, Progress

\* The nodes whose algorithms are looked up are nodes.
LEMMA UsedTyped == ASSUME NEW nodes \in NodeList PROVE Used(nodes) \subseteq Algorithms
<1>1. \A i \in DOMAIN nodes : nodes[i] \in Node
  BY DEF NodeList
<1> QED BY <1>1 DEF Node, Used

LEMMA CheckedTyped ==
    ASSUME TypeInv, NEW r \in Requests, Due(r, "algorithms")
    PROVE  CheckedNodes(request[r], got[r]) \in NodeList
<1> DEFINE q == request[r]
<1>1. Open(r) /\ q \in Request /\ got[r] \in Optional(RecordsOf(q.key))
  BY OpenTyped DEF Due
<1>2. /\ q.op \in {"insertPipeline", "updatePipeline", "runStored"}
      /\ q.op = "runStored" => got[r] # None
  BY <1>1, DueCalls, AcceptedThere DEF TypeInv, Progress, Known
<1>3. CASE q.op = "runStored"
  <2>1. got[r] \in Pipeline
    BY <1>1, <1>2, <1>3, RequestKinds, KeyKinds DEF PipelineOps, Optional
  <2> QED BY <1>3, <2>1 DEF CheckedNodes, Pipeline
<1>4. CASE q.op \in StoreOps
  <2>1. q.data \in Pipeline
    BY <1>1, <1>4, RequestKinds
  <2> QED BY <1>4, <2>1 DEF CheckedNodes, Pipeline, StoreOps
<1> QED BY <1>2, <1>3, <1>4 DEF StoreOps

\* A step from elsewhere writes a build, an algorithm or a run.
LEMMA ElsewhereWrites ==
    ASSUME StoreTyped, Elsewhere
    PROVE  \E k \in BuildKeys \cup AlgorithmKeys \cup RunKeys :
              \E record \in Optional(RecordsOf(k)) :
                 /\ Put(k, record, None) /\ store[k] # None
                 /\ k \in RunKeys => record = None
                 /\ k \in BuildKeys \cup AlgorithmKeys => record # None
<1>1. CASE \E k \in BuildKeys : BuildRuns(k)
  <2>1. PICK k \in BuildKeys : BuildRuns(k)
    BY <1>1
  <2>2. PICK s \in {<<"pending", "active">>, <<"active", "completed">>, <<"active", "failed">>} :
           Put(k, [store[k] EXCEPT !.status = s[2]], None)
    BY <2>1 DEF BuildRuns
  <2>3. store[k] \in Build /\ store[k] # None
    BY <2>1, KeyKinds DEF BuildRuns, StoreTyped, Optional, Keys
  <2>4. [store[k] EXCEPT !.status = s[2]] \in Build
    BY <2>2, <2>3 DEF Build, BuildStatus
  <2> QED BY <2>2, <2>3, <2>4, KeyKinds, NoneAssumption DEF Optional, RunKeys, BuildKeys
<1>2. CASE \E k \in BuildKeys : ImageBuilt(k)
  <2>1. PICK k \in BuildKeys : ImageBuilt(k)
    BY <1>2
  <2>2. store[k] \in Build
    BY <2>1, KeyKinds DEF ImageBuilt, StoreTyped, Optional, Keys
  <2> DEFINE a == <<"algorithm", store[k].algorithm>>
  <2>3. a \in AlgorithmKeys
    BY <2>2 DEF Build, AlgorithmKeys
  <2>4. store[a] # None /\ Put(a, [store[a] EXCEPT !.image = TRUE, !.pending = FALSE], None)
    BY <2>1 DEF ImageBuilt
  <2> HIDE DEF a
  <2>5. store[a] \in Algorithm
    BY <2>3, <2>4, KeyKinds DEF StoreTyped, Optional, Keys
  <2>6. [store[a] EXCEPT !.image = TRUE, !.pending = FALSE] \in Algorithm
    BY <2>5 DEF Algorithm
  <2> QED BY <2>3, <2>4, <2>6, KeyKinds, NoneAssumption DEF Optional
<1>3. CASE \E k \in RunKeys : RunEnds(k)
  BY <1>3, KeyKinds DEF RunEnds, Optional
<1> QED BY <1>1, <1>2, <1>3 DEF Elsewhere

\* A request's step leaves the types of the other requests as they are.
Others(r) ==
    \A s \in Requests \ {r} :
        /\ request'[s] = request[s] /\ outcome'[s] = outcome[s] /\ done'[s] = done[s]
        /\ got'[s] = got[s] /\ reads'[s] = reads[s]

LEMMA TypesOf ==
    ASSUME TypeInv, NEW r \in Requests, StoreTyped', Others(r),
           request' \in [Requests -> Optional(Request)],
           outcome' \in [Requests -> {"new", "open", "building", "ok", "refused", "failed"}],
           reads' \in [Requests -> SUBSET Keys],
           DOMAIN done' = Requests, DOMAIN got' = Requests, nFailures' \in 0..MaxFailures,
           IF Open(r)'
           THEN /\ request'[r] # None /\ done'[r] \subseteq DOMAIN Calls(request'[r].op)
                /\ got'[r] \in Optional(RecordsOf(request'[r].key))
           ELSE done'[r] = {} /\ got'[r] = None /\ reads'[r] = {}
    PROVE  TypeOK'
BY DEF TypeInv, TypeOK, StoreTyped, Open, Others

\* A request that is closed leaves no trace but in the store.
LEMMA ClosedTyped ==
    ASSUME TypeInv, NEW r \in Requests, StoreTyped', UNCHANGED request,
           nFailures' \in 0..MaxFailures, NEW o \in {"ok", "refused", "failed"}, Close(r, o)
    PROVE  TypeOK'
<1>1. /\ request' \in [Requests -> Optional(Request)]
      /\ outcome' \in [Requests -> {"new", "open", "building", "ok", "refused", "failed"}]
      /\ reads' \in [Requests -> SUBSET Keys]
      /\ DOMAIN done' = Requests /\ DOMAIN got' = Requests
      /\ Others(r)
  BY DEF TypeInv, TypeOK, Close, Others
<1>2. ~Open(r)' /\ done'[r] = {} /\ got'[r] = None /\ reads'[r] = {}
  BY DEF TypeInv, TypeOK, Close, Open
<1> QED BY <1>1, <1>2, TypesOf

\* A call that has been made is one of the calls of the request.
LEMMA CalledTyped ==
    ASSUME TypeInv, NEW r \in Requests, Open(r), StoreTyped', UNCHANGED <<request, nFailures>>,
           NEW c, c \subseteq DOMAIN Calls(request[r].op), NEW keys \in SUBSET Keys,
           Called(r, c, keys), NEW g \in Optional(RecordsOf(request[r].key)),
           got' = [got EXCEPT ![r] = g],
           NEW o \in {"open", "building"}, outcome' = [outcome EXCEPT ![r] = o]
    PROVE  TypeOK'
<1>1. /\ request' \in [Requests -> Optional(Request)]
      /\ outcome' \in [Requests -> {"new", "open", "building", "ok", "refused", "failed"}]
      /\ reads' \in [Requests -> SUBSET Keys]
      /\ DOMAIN done' = Requests /\ DOMAIN got' = Requests
      /\ nFailures' \in 0..MaxFailures /\ Others(r)
  BY DEF TypeInv, TypeOK, Called, Others
<1>2. /\ request'[r] # None /\ done'[r] \subseteq DOMAIN Calls(request'[r].op)
      /\ got'[r] \in Optional(RecordsOf(request'[r].key)) /\ Open(r)'
  BY OpenTyped DEF Called, TypeInv, TypeOK, Open
<1> QED BY <1>1, <1>2, TypesOf

LEMMA Unwritten == ASSUME TypeInv, UNCHANGED <<store, copies>>, misled' \subseteq Requests
                   PROVE  StoreTyped'
BY DEF TypeInv, TypeOK, StoreTyped

LEMMA TypeStep ==
    ASSUME TypeInv, [Next]_vars
    PROVE  TypeOK'
<1>1. StoreTyped
  BY DEF TypeInv, TypeOK, StoreTyped
<1>2. CASE UNCHANGED vars
  BY <1>2 DEF TypeInv, TypeOK, vars, served, Open
<1>3. CASE Elsewhere
  <2>1. StoreTyped'
    <3>1. PICK k \in Keys : \E record \in Optional(RecordsOf(k)) : Put(k, record, None)
      BY <1>1, <1>3, ElsewhereWrites DEF Keys
    <3> QED BY <1>1, <1>3, <3>1, PutTyped DEF StoreTyped, Elsewhere
  <2> QED BY <1>3, <2>1 DEF TypeInv, TypeOK, StoreTyped, Elsewhere, served, Open
<1> SUFFICES ASSUME NEW r \in Requests, RequestStep(r)
             PROVE  TypeOK'
  BY <1>2, <1>3 DEF Next
<1> DEFINE q == request[r]
<1>4. misled \subseteq Requests /\ nFailures \in 0..MaxFailures
  BY DEF TypeInv, TypeOK
<1>5. CASE Ask(r)
  <2>1. PICK p \in Asked : /\ request' = [request EXCEPT ![r] = p]
                           /\ outcome' = [outcome EXCEPT ![r] =
                                  IF ValidRequest(p) THEN "open" ELSE "refused"]
    BY <1>5 DEF Ask
  <2>2. p \in Request /\ p # None
    BY StoreAssumption
  <2>3. done[r] = {} /\ got[r] = None /\ reads[r] = {}
    BY <1>5 DEF Ask, TypeInv, TypeOK, Open
  <2>4. StoreTyped'
    BY <1>4, <1>5, Unwritten DEF Ask
  <2>5. /\ request' \in [Requests -> Optional(Request)]
        /\ outcome' \in [Requests -> {"new", "open", "building", "ok", "refused", "failed"}]
        /\ reads' \in [Requests -> SUBSET Keys]
        /\ DOMAIN done' = Requests /\ DOMAIN got' = Requests
        /\ nFailures' \in 0..MaxFailures /\ Others(r)
    BY <1>5, <2>1, <2>2 DEF TypeInv, TypeOK, Optional, Ask, Others
  <2>6. /\ request'[r] # None /\ done'[r] = {} /\ got'[r] = None /\ reads'[r] = {}
        /\ got'[r] \in Optional(RecordsOf(request'[r].key))
    BY <1>5, <2>1, <2>2, <2>3 DEF TypeInv, TypeOK, Ask, Optional
  <2> QED BY <2>4, <2>5, <2>6, TypesOf
<1>6. CASE Get(r)
  <2> DEFINE old == store[q.key]
             c == IF q.op = "applyAlgorithm" /\ ~ShouldBuild(old, q.data)
                  THEN {"get", "build"} ELSE {"get"}
  <2>1. StoreTyped' /\ UNCHANGED <<request, nFailures>> /\ nFailures' \in 0..MaxFailures
    BY <1>4, <1>6, Unwritten DEF Get
  <2>2. Open(r) /\ q \in Request /\ "get" \in DOMAIN Calls(q.op)
    BY <1>6, OpenTyped, DueCalls DEF Get, Due
  <2>3. q.key \in Keys /\ old \in Optional(RecordsOf(q.key))
    BY <1>1, <2>2, RequestKinds DEF StoreTyped
  <2>4. CASE Accepted(q, old)
    <3>1. q.op = "applyAlgorithm" => "build" \in DOMAIN Calls(q.op)
      BY DEF Calls, ApplyAlgorithm
    <3>2. c \subseteq DOMAIN Calls(q.op) /\ {q.key} \in SUBSET Keys
      BY <2>2, <2>3, <3>1
    <3>3. Called(r, c, {q.key}) /\ got' = [got EXCEPT ![r] = old] /\ UNCHANGED outcome
      BY <1>6, <2>4 DEF Get
    <3>4. outcome[r] \in {"open", "building"} /\ outcome' = [outcome EXCEPT ![r] = outcome[r]]
      BY <2>2, <3>3 DEF Open, TypeInv, TypeOK
    <3> HIDE DEF c, old
    <3> QED BY <2>1, <2>2, <2>3, <3>2, <3>3, <3>4, CalledTyped
  <2>5. CASE ~Accepted(q, old)
    BY <1>6, <2>1, <2>5, ClosedTyped DEF Get
  <2> QED BY <2>4, <2>5
<1> DEFINE Goes(c, keys) ==
        /\ Open(r) /\ c \in DOMAIN Calls(q.op) /\ keys \in SUBSET Keys /\ Called(r, {c}, keys)
        /\ StoreTyped' /\ UNCHANGED <<request, nFailures, got>>
<1>7. ASSUME NEW c, NEW keys, Goes(c, keys),
             NEW o \in {"open", "building"}, outcome' = [outcome EXCEPT ![r] = o]
      PROVE  TypeOK'
  <2>1. got' = [got EXCEPT ![r] = got[r]] \/ got' = got
    BY <1>7
  <2>2. /\ request' \in [Requests -> Optional(Request)]
        /\ outcome' \in [Requests -> {"new", "open", "building", "ok", "refused", "failed"}]
        /\ reads' \in [Requests -> SUBSET Keys]
        /\ DOMAIN done' = Requests /\ DOMAIN got' = Requests
        /\ nFailures' \in 0..MaxFailures /\ Others(r)
    BY <1>7 DEF TypeInv, TypeOK, Called, Others
  <2>3. /\ request'[r] # None /\ done'[r] \subseteq DOMAIN Calls(request'[r].op)
        /\ got'[r] \in Optional(RecordsOf(request'[r].key)) /\ Open(r)'
    BY <1>7, OpenTyped DEF Called, TypeInv, TypeOK, Open
  <2> QED BY <1>7, <2>2, <2>3, TypesOf
<1>8. outcome[r] \in {"open", "building"} /\ UNCHANGED outcome
         => \E o \in {"open", "building"} : outcome' = [outcome EXCEPT ![r] = o]
  BY DEF TypeInv, TypeOK
<1>9. CASE ListAlgorithms(r)
  <2> DEFINE nodes == CheckedNodes(q, got[r])
  <2>1. StoreTyped' /\ UNCHANGED <<request, nFailures>> /\ nFailures' \in 0..MaxFailures
    BY <1>4, <1>9, Unwritten DEF ListAlgorithms
  <2>2. Open(r) /\ "algorithms" \in DOMAIN Calls(q.op)
    BY <1>9, OpenTyped, DueCalls DEF ListAlgorithms, Due
  <2>3. CASE AllExist(store, nodes)
    <3>1. {"algorithm"} \X Used(nodes) \subseteq Keys
      BY <1>9, CheckedTyped, UsedTyped DEF ListAlgorithms, AlgorithmKeys, Keys
    <3> QED BY <1>7, <1>8, <1>9, <2>1, <2>2, <2>3, <3>1 DEF ListAlgorithms, Open
  <2>4. CASE ~AllExist(store, nodes)
    BY <1>9, <2>1, <2>4, ClosedTyped DEF ListAlgorithms
  <2> QED BY <2>3, <2>4
<1>10. ASSUME NEW call, NEW keys \in SUBSET Keys, ListUsers(r, call, keys)
       PROVE  TypeOK'
  <2>1. /\ StoreTyped' /\ UNCHANGED <<request, nFailures>> /\ nFailures' \in 0..MaxFailures
        /\ \/ Called(r, {call}, keys) /\ UNCHANGED <<got, outcome>>
           \/ Close(r, "refused")
    <3>1. misled' \subseteq Requests
      BY <1>4, <1>10 DEF ListUsers
    <3> QED BY <1>4, <1>10, <3>1, Unwritten DEF ListUsers
  <2>2. Open(r) /\ call \in DOMAIN Calls(q.op)
    BY <1>10, OpenTyped, DueCalls DEF ListUsers, Due
  <2> QED BY <1>7, <1>8, <2>1, <2>2, ClosedTyped DEF Open
<1>11. CASE Copy(r)
  <2>1. StoreTyped' /\ UNCHANGED <<request, nFailures, got, outcome>> /\ Called(r, {"copy"}, {})
    BY <1>11, WriteTyped DEF Copy
  <2>2. Open(r) /\ "copy" \in DOMAIN Calls(q.op)
    BY <1>11, OpenTyped, DueCalls DEF Copy, Due
  <2> QED BY <1>7, <1>8, <2>1, <2>2 DEF Open
<1>12. CASE StartBuild(r)
  <2>1. StoreTyped' /\ UNCHANGED <<request, nFailures>> /\ nFailures' \in 0..MaxFailures
    BY <1>4, <1>12, WriteTyped DEF StartBuild
  <2>2. Open(r) /\ "build" \in DOMAIN Calls(q.op)
    BY <1>12, OpenTyped, DueCalls DEF StartBuild, Due
  <2>3. \/ Close(r, "refused")
        \/ outcome' = [outcome EXCEPT ![r] = "building"] /\ Called(r, {"build"}, {}) /\ UNCHANGED got
    BY <1>12 DEF StartBuild
  <2> QED BY <1>7, <2>1, <2>2, <2>3, ClosedTyped
<1>13. CASE Write(r)
  <2>1. StoreTyped' /\ UNCHANGED request /\ nFailures' \in 0..MaxFailures /\ Close(r, "ok")
    BY <1>4, <1>13, WriteTyped DEF Write
  <2> QED BY <2>1, ClosedTyped
<1>14. CASE Fail(r)
  <2>1. StoreTyped'
    BY <1>4, <1>14, Unwritten, WriteTyped DEF Fail
  <2>2. UNCHANGED request /\ nFailures' \in 0..MaxFailures /\ Close(r, "failed")
    BY <1>4, <1>14, StoreAssumption DEF Fail
  <2> QED BY <2>1, <2>2, ClosedTyped
<1>15. PipelineKeys \in SUBSET Keys /\ RunKeys \in SUBSET Keys
  BY DEF Keys
<1> HIDE DEF q
<1> QED BY <1>5, <1>6, <1>9, <1>10, <1>11, <1>12, <1>13, <1>14, <1>15 DEF RequestStep

\* A build that is stored stays so.
LEMMA BuildsStay ==
    ASSUME TypeInv, [Next]_vars, NEW k \in BuildKeys, store[k] # None
    PROVE  store'[k] # None
<1>1. StoreTyped
  BY DEF TypeInv, TypeOK, StoreTyped
<1>2. CASE Elsewhere
  <2>1. PICK j \in BuildKeys \cup AlgorithmKeys \cup RunKeys :
           \E record \in Optional(RecordsOf(j)) :
              Put(j, record, None) /\ (j \in BuildKeys \cup AlgorithmKeys => record # None)
    BY <1>1, <1>2, ElsewhereWrites
  <2>2. j = k => j \in BuildKeys
    OBVIOUS
  <2> QED BY <1>1, <2>1, <2>2 DEF Put, StoreTyped, Keys
<1>3. ASSUME NEW r \in Requests, Due(r, "build"), PutBuild(r)
      PROVE  store'[k] # None
  BY <1>1, <1>3 DEF PutBuild, Put, StoreTyped
<1>4. ASSUME NEW r \in Requests, Due(r, "write"), PutRecord(r)
      PROVE  store'[k] # None
  <2> DEFINE q == request[r]
             old == IF q.op = "stopBuild" THEN store[Target(r, q)] ELSE got[r]
  <2>1. Open(r) /\ q \in Request /\ got[r] \in Optional(RecordsOf(q.key)) /\ "get" \in done[r]
    BY <1>4, OpenTyped, DueCalls DEF Due
  <2>2. store' = [store EXCEPT ![Target(r, q)] = Result(q, old)]
    BY <1>4 DEF PutRecord, Put
  <2>3. CASE Target(r, q) # k
    BY <1>1, <2>2, <2>3 DEF StoreTyped
  <2>4. CASE Target(r, q) = k
    <3>1. q.key = k /\ q.op \in BuildOps
      BY <2>1, <2>4, RequestKinds, KeyKinds DEF Target, BuildKeys
    <3>2. got[r] \in Optional(Build) /\ got[r] # None
      BY <2>1, <3>1, KeyKinds, AcceptedThere DEF TypeInv, Progress, Known, BuildOps
    <3>3. old \in Build
      BY <1>1, <2>4, <3>1, <3>2, KeyKinds DEF StoreTyped, Optional, Keys
    <3>4. Result(q, old) \in Build
      BY <3>1, <3>3 DEF Result, StoppedBuild, StartedAgain, BuildOps, Build, BuildStatus
    <3> QED BY <1>1, <2>2, <2>4, <3>4, NoneAssumption DEF StoreTyped
  <2> QED BY <2>3, <2>4
<1> QED BY <1>2, <1>3, <1>4 DEF Next, RequestStep, Ask, Get, ListAlgorithms, ListUsers, Copy,
        PutCopy, StartBuild, Write, Fail, vars, served

\* A step is the step of one request.
LEMMA OneAtATime ==
    ASSUME TypeInv, NEW r \in Requests, RequestStep(r)
    PROVE  Others(r) /\ (Ask(r) \/ UNCHANGED request)
BY DEF TypeInv, TypeOK, RequestStep, Others, Ask, Get, ListAlgorithms, ListUsers, Copy, StartBuild,
       Write, Fail, Called, Close

LEMMA ProgressStep ==
    ASSUME TypeInv, [Next]_vars
    PROVE  Progress'
<1>1. CASE UNCHANGED vars
  BY <1>1 DEF TypeInv, Progress, vars, served, Open
<1>2. CASE Elsewhere
  <2>1. UNCHANGED served
    BY <1>2 DEF Elsewhere
  <2>2. \A r \in Requests : Open(r) => request[r] \in Request
    BY OpenTyped
  <2> QED BY <2>1, <2>2, <1>2, BuildsStay, RequestKinds
          DEF TypeInv, Progress, served, Open, Next, BuildOps
<1> SUFFICES ASSUME NEW r \in Requests, RequestStep(r)
             PROVE  Progress'
  BY <1>1, <1>2 DEF Next
<1>3. ASSUME NEW s \in Requests \ {r}, Open(s)'
      PROVE  /\ Known(request[s], outcome[s], done[s], got[s])'
             /\ ("get" \in done[s] /\ request[s].op = "stopBuild" => store[request[s].key] # None)'
  <2>1. UNCHANGED <<request[s], outcome[s], done[s], got[s]>>
    BY OneAtATime DEF Others
  <2>2. Open(s) /\ request[s] \in Request
    BY <1>3, <2>1, OpenTyped DEF Open
  <2>3. request[s].op = "stopBuild" => request[s].key \in BuildKeys
    BY <2>2, RequestKinds DEF BuildOps
  <2> QED BY <2>1, <2>2, <2>3, BuildsStay DEF TypeInv, Progress, Next
<1> SUFFICES ASSUME Open(r)'
             PROVE  /\ Known(request[r], outcome[r], done[r], got[r])'
                    /\ ("get" \in done[r] /\ request[r].op = "stopBuild" =>
                           store[request[r].key] # None)'
  BY <1>3 DEF Progress
<1> DEFINE q == request[r]
<1>4. CASE Ask(r)
  <2>1. done[r] = {} /\ UNCHANGED done
    BY <1>4 DEF Ask, TypeInv, TypeOK, Open
  <2>2. ValidRequest(request'[r]) /\ outcome'[r] = "open"
    BY <1>4 DEF Ask, TypeInv, TypeOK, Open
  <2> QED BY <2>1, <2>2 DEF Known
<1>5. CASE ~Ask(r)
  <2>1. UNCHANGED request /\ Open(r)
    BY <1>5, OneAtATime DEF RequestStep, Get, ListAlgorithms, ListUsers, Copy, StartBuild,
       Write, Fail, Due
  <2>2. q \in Request
    BY <2>1, OpenTyped
  <2>3. Known(q, outcome[r], done[r], got[r])
    BY <2>1 DEF TypeInv, Progress
  <2>4. CASE Get(r)
    <3>1. /\ Accepted(q, store[q.key]) /\ got'[r] = store[q.key] /\ UNCHANGED <<outcome, store>>
          /\ done'[r] = done[r] \cup (IF q.op = "applyAlgorithm" /\ ~ShouldBuild(store[q.key], q.data)
                                      THEN {"get", "build"} ELSE {"get"})
      BY <2>1, <2>4 DEF Get, Close, Called, Open, TypeInv, TypeOK
    <3>2. "get" \notin done[r] /\ outcome[r] = "open"
      BY <2>2, <2>3, <2>4, DueCalls DEF Get, Known
    <3>3. "build" \notin done[r]
      BY <2>3, <3>2 DEF Known
    <3>4. q.op = "stopBuild" => store[q.key] # None
      BY <2>2, <3>1, AcceptedThere
    <3> QED BY <2>1, <2>3, <3>1, <3>2, <3>3, <3>4 DEF Known
  <2>5. CASE /\ UNCHANGED <<store, got, outcome>>
             /\ \E c, k : c \notin {"get", "build"} /\ Due(r, c) /\ Called(r, {c}, k)
    <3>1. PICK c : /\ c \notin {"get", "build"} /\ done'[r] = done[r] \cup {c}
                   /\ c = "algorithms" /\ q.op = "runStored" => "get" \in done[r]
      <4>1. PICK c, k : c \notin {"get", "build"} /\ Due(r, c) /\ Called(r, {c}, k)
        BY <2>5
      <4>2. c = "algorithms" /\ q.op = "runStored" => "get" \in done[r]
        BY <2>2, <4>1, DueCalls
      <4> QED BY <4>1, <4>2 DEF Called, TypeInv, TypeOK
    <3> QED BY <2>1, <2>3, <2>5, <3>1 DEF Known, TypeInv, Progress
  <2>6. CASE ListAlgorithms(r)
    BY <2>5, <2>6 DEF ListAlgorithms, Close, Open, TypeInv, TypeOK
  <2>7. ASSUME NEW call \in {"pipelines", "running"}, NEW keys, ListUsers(r, call, keys)
        PROVE  Known(request[r], outcome[r], done[r], got[r])'
               /\ ("get" \in done[r] /\ request[r].op = "stopBuild" =>
                      store[request[r].key] # None)'
    BY <2>5, <2>7 DEF ListUsers, Close, Open, TypeInv, TypeOK
  <2>8. CASE Copy(r)
    BY <2>5, <2>8 DEF Copy, PutCopy
  <2>9. CASE StartBuild(r)
    <3>1. q.op = "applyAlgorithm" /\ "get" \in done[r] /\ "build" \notin done[r]
      BY <2>2, <2>9, DueCalls DEF StartBuild
    <3>2. outcome'[r] = "building" /\ done'[r] = done[r] \cup {"build"} /\ UNCHANGED got
      BY <2>9 DEF StartBuild, Close, Called, Open, TypeInv, TypeOK
    <3> QED BY <2>1, <2>3, <3>1, <3>2 DEF Known
  <2>10. ~Write(r) /\ ~Fail(r)
    BY DEF Write, Fail, Close, Open, TypeInv, TypeOK
  <2> QED BY <1>5, <2>4, <2>6, <2>7, <2>8, <2>9, <2>10 DEF RequestStep
<1> QED BY <1>4, <1>5

\* The store, its copies and every request in flight are of their types, throughout.
THEOREM StoreTypes == Spec => []TypeOK
<1>1. Init => TypeInv
  BY InitTyped
<1>2. TypeInv /\ [Next]_vars => TypeInv'
  BY TypeStep, ProgressStep DEF TypeInv
<1>3. TypeInv => TypeOK
  BY DEF TypeInv
<1> QED BY <1>1, <1>2, <1>3, PTL DEF Spec
-----------------------------------------------------------------------------
(***************************************************************************)
(* What is stored can run.                                                 *)
(***************************************************************************)
Valid ==
    /\ \A k \in PipelineKeys \cup RunKeys : store[k] # None => ValidNodes(store[k].nodes)
    /\ \A k \in PipelineKeys : copies[k] # None => ValidNodes(copies[k].nodes)
    /\ \A r \in Requests : Open(r) /\ request[r].key \in PipelineKeys /\ got[r] # None =>
          ValidNodes(got[r].nodes)

\* A request makes a valid record of a valid one.
LEMMA ResultValid ==
    ASSUME NEW q \in Request, q.key \in PipelineKeys, ValidRequest(q),
           NEW old \in Optional(Pipeline), old # None => ValidNodes(old.nodes),
           q.op \in {"startCronJob", "stopCronJob", "runStored"} => old # None,
           Result(q, old) # None
    PROVE  ValidNodes(Result(q, old).nodes)
<1>1. CASE q.op \in StoreOps
  BY <1>1 DEF Result, StoreOps, ValidRequest
<1>2. CASE q.op \in {"startCronJob", "stopCronJob"}
  <2>1. old \in Pipeline
    BY <1>2 DEF Optional
  <2> QED BY <1>2, <2>1 DEF Result, Toggled, Pipeline
<1>3. CASE q.op = "runStored"
  BY <1>3 DEF Result, RunOf
<1>4. q.op \in StoreOps \cup PipelineOps
  BY RequestKinds, KeyKinds
<1>5. q.op # "deletePipeline"
  BY DEF Result
<1> QED BY <1>1, <1>2, <1>3, <1>4, <1>5 DEF PipelineOps

\* What a call writes of a pipeline or a run is valid.
LEMMA WriteValid ==
    ASSUME TypeInv, Valid, NEW r \in Requests,
           \/ Due(r, "copy") /\ PutCopy(r)
           \/ Due(r, "build") /\ PutBuild(r)
           \/ Due(r, "write") /\ PutRecord(r)
    PROVE  /\ \A k \in PipelineKeys \cup RunKeys : store'[k] # None => ValidNodes(store'[k].nodes)
           /\ \A k \in PipelineKeys : copies'[k] # None => ValidNodes(copies'[k].nodes)
<1> DEFINE q == request[r]
<1>1. StoreTyped
  BY DEF TypeInv, TypeOK, StoreTyped
<1>2. Open(r) /\ q \in Request /\ got[r] \in Optional(RecordsOf(q.key))
  BY OpenTyped DEF Due
<1>3. ValidRequest(q) /\ ("get" \in done[r] => Accepted(q, got[r]))
  BY <1>2 DEF TypeInv, Progress, Known
<1>4. ASSUME q.key \in PipelineKeys, "get" \in done[r] \/ q.op \in StoreOps,
             Result(q, got[r]) # None
      PROVE  ValidNodes(Result(q, got[r]).nodes)
  <2>1. got[r] \in Optional(Pipeline) /\ (got[r] # None => ValidNodes(got[r].nodes))
    BY <1>2, <1>4, KeyKinds DEF Valid
  <2>2. q.op \in {"startCronJob", "stopCronJob", "runStored"} => got[r] # None
    BY <1>2, <1>3, <1>4, AcceptedThere DEF StoreOps
  <2> QED BY <1>2, <1>3, <1>4, <2>1, <2>2, ResultValid
<1>5. CASE Due(r, "copy") /\ PutCopy(r)
  <2>1. q.key \in PipelineKeys => "get" \in done[r] \/ q.op \in StoreOps
    BY <1>2, <1>5, DueCalls, RequestKinds, KeyKinds DEF StoreOps, AlgorithmOps
  <2>2. UNCHANGED store /\ copies' = [copies EXCEPT ![q.key] = Result(q, got[r])]
    BY <1>5 DEF PutCopy
  <2> QED BY <1>1, <1>4, <2>1, <2>2 DEF Valid, StoreTyped
<1>6. CASE Due(r, "build") /\ PutBuild(r)
  <2>1. PICK k \in BuildKeys : store' = [store EXCEPT ![k] = NewBuild(q, got[r])]
    BY <1>6 DEF PutBuild, Put
  <2>2. \A j \in PipelineKeys \cup RunKeys : store'[j] = store[j]
    BY <1>1, <2>1, KeyKinds DEF StoreTyped, Keys
  <2> QED BY <1>6, <2>2 DEF Valid, PutBuild
<1>7. CASE Due(r, "write") /\ PutRecord(r)
  <2> DEFINE old == IF q.op = "stopBuild" THEN store[Target(r, q)] ELSE got[r]
  <2>1. "get" \in done[r]
    BY <1>2, <1>7, DueCalls
  <2>2. store' = [store EXCEPT ![Target(r, q)] = Result(q, old)] /\ UNCHANGED copies
    BY <1>7 DEF PutRecord, Put
  <2>3. Target(r, q) \in PipelineKeys \cup RunKeys => q.key \in PipelineKeys /\ old = got[r]
    BY <1>2, RequestKinds, KeyKinds DEF Target, PipelineOps, BuildOps
  <2> HIDE DEF old
  <2>4. Target(r, q) \in PipelineKeys \cup RunKeys /\ Result(q, old) # None =>
           ValidNodes(Result(q, old).nodes)
    BY <1>4, <2>1, <2>3
  <2> QED BY <1>1, <2>2, <2>4 DEF Valid, StoreTyped, Keys
<1> QED BY <1>5, <1>6, <1>7

LEMMA InitValid == Init => Valid
<1> SUFFICES ASSUME Init PROVE Valid
  OBVIOUS
<1>1. \A k \in PipelineKeys : k \in PipelineKeys \cup RunKeys /\ copies[k] = store[k]
  BY DEF Init
<1>2. \A r \in Requests : ~Open(r)
  BY DEF Init, Open
<1> QED BY <1>1, <1>2, StoreAssumption DEF Init, Valid

LEMMA ValidStep ==
    ASSUME TypeInv, Valid, [Next]_vars
    PROVE  Valid'
<1>1. StoreTyped
  BY DEF TypeInv, TypeOK, StoreTyped
<1>2. CASE UNCHANGED vars
  BY <1>2 DEF Valid, vars, served, Open
<1>3. CASE Elsewhere
  <2>1. PICK k \in BuildKeys \cup AlgorithmKeys \cup RunKeys :
           \E record \in Optional(RecordsOf(k)) :
              Put(k, record, None) /\ (k \in RunKeys => record = None)
    BY <1>1, <1>3, ElsewhereWrites
  <2>2. \A j \in PipelineKeys \cup RunKeys : store'[j] = store[j] \/ store'[j] = None
    BY <1>1, <2>1, KeyKinds DEF Put, StoreTyped, Keys
  <2> QED BY <1>3, <2>2 DEF Elsewhere, served, Valid, Open
<1> SUFFICES ASSUME NEW r \in Requests, RequestStep(r)
             PROVE  Valid'
  BY <1>2, <1>3 DEF Next
<1>4. /\ \A k \in PipelineKeys \cup RunKeys : store'[k] # None => ValidNodes(store'[k].nodes)
      /\ \A k \in PipelineKeys : copies'[k] # None => ValidNodes(copies'[k].nodes)
  <2>1. \/ UNCHANGED <<store, copies>>
        \/ Due(r, "copy") /\ PutCopy(r)
        \/ Due(r, "build") /\ PutBuild(r)
        \/ Due(r, "write") /\ PutRecord(r)
    BY DEF RequestStep, Ask, Get, ListAlgorithms, ListUsers, Copy, StartBuild, Write, Fail
  <2> QED BY <2>1, WriteValid DEF Valid
<1>5. ASSUME NEW s \in Requests, Open(s)', request'[s].key \in PipelineKeys, got'[s] # None
      PROVE  ValidNodes(got'[s].nodes)
  <2>1. CASE s # r
    BY <1>5, <2>1, OneAtATime DEF Valid, Others, Open
  <2>2. CASE s = r /\ Ask(r)
    BY <1>5, <2>2 DEF Ask, TypeInv, TypeOK, Open
  <2>3. CASE s = r /\ Get(r)
    BY <1>5, <2>3 DEF Get, Close, Open, Valid, TypeInv, TypeOK
  <2>4. CASE s = r /\ ~Ask(r) /\ ~Get(r)
    <3>1. Open(r) /\ UNCHANGED request /\ (got' = got \/ \E o \in {"ok", "refused", "failed"} : Close(r, o))
      BY <2>4, OneAtATime DEF RequestStep, ListAlgorithms, ListUsers, Copy, StartBuild, Write,
         Fail, Due
    <3> QED BY <1>5, <2>4, <3>1 DEF Close, Valid, TypeInv, TypeOK, Open
  <2> QED BY <2>1, <2>2, <2>3, <2>4
<1> QED BY <1>4, <1>5 DEF Valid

\* Every pipeline that is stored, copied or run can run to the end, whatever interleaves and
\* whatever fails.
THEOREM EveryStoredCanRun == Spec => []StoredCanRun
<1>1. Init => TypeInv /\ Valid
  BY InitTyped, InitValid
<1>2. TypeInv /\ Valid /\ [Next]_vars => (TypeInv /\ Valid)'
  BY TypeStep, ProgressStep, ValidStep DEF TypeInv
<1>3. TypeInv /\ Valid => StoredCanRun
  <2> SUFFICES ASSUME TypeInv, Valid PROVE StoredCanRun
    OBVIOUS
  <2>1. \A k \in PipelineKeys \cup RunKeys : store[k] # None => store[k].nodes \in NodeList
    <3>1. \A k \in PipelineKeys \cup RunKeys : store[k] # None => store[k] \in Pipeline \cup Run
      BY KeyKinds DEF TypeInv, TypeOK, Optional, Keys
    <3> QED BY <3>1 DEF Pipeline, Run
  <2>2. \A k \in PipelineKeys : copies[k] # None => copies[k].nodes \in NodeList
    <3>1. \A k \in PipelineKeys : copies[k] # None => copies[k] \in Pipeline
      BY KeyKinds DEF TypeInv, TypeOK, Optional
    <3> QED BY <3>1 DEF Pipeline
  <2> QED BY <2>1, <2>2, ValidNodesRun DEF Valid, StoredCanRun
<1> QED BY <1>1, <1>2, <1>3, PTL DEF Spec
-----------------------------------------------------------------------------
(***************************************************************************)
(* What a request that is not misled relies on still holds.                *)
(***************************************************************************)
Relied(r) ==
    LET q == request[r]
        nodes == CheckedNodes(q, got[r])
    IN  /\ "get" \in done[r] => got[r] = store[q.key] /\ q.key \in reads[r]
        /\ "algorithms" \in done[r] =>
               AllExist(store, nodes) /\ {"algorithm"} \X Used(nodes) \subseteq reads[r]
        /\ "pipelines" \in done[r] =>
               UsersOf(store, PipelineKeys, q.key[2]) = {} /\ PipelineKeys \subseteq reads[r]
        /\ "running" \in done[r] =>
               UsersOf(store, RunKeys, q.key[2]) = {} /\ RunKeys \subseteq reads[r]

Sure == \A r \in Requests \ misled : Open(r) => Relied(r)

SureInv == TypeInv /\ Sure

\* A request relies on what it has read only.
LEMMA ReliesOnReads ==
    ASSUME NEW r, Relied(r), UNCHANGED <<request[r], done[r], got[r], reads[r]>>,
           \A k \in reads[r] : store'[k] = store[k]
    PROVE  Relied(r)'
<1> DEFINE nodes == CheckedNodes(request[r], got[r])
<1>1. "get" \in done[r] => got[r] = store'[request[r].key]
  BY DEF Relied
<1>2. "algorithms" \in done[r] => AllExist(store', nodes)
  <2>1. SUFFICES ASSUME "algorithms" \in done[r], NEW a \in Used(nodes)
                 PROVE  store'[<<"algorithm", a>>] # None
    BY DEF AllExist
  <2>2. <<"algorithm", a>> \in {"algorithm"} \X Used(nodes)
    BY <2>1
  <2> HIDE DEF nodes
  <2> QED BY <2>1, <2>2 DEF Relied, AllExist, nodes
<1>3. "pipelines" \in done[r] => UsersOf(store', PipelineKeys, request[r].key[2]) = {}
  BY DEF Relied, UsersOf
<1>4. "running" \in done[r] => UsersOf(store', RunKeys, request[r].key[2]) = {}
  BY DEF Relied, UsersOf
<1> QED BY <1>1, <1>2, <1>3, <1>4 DEF Relied

\* What is written misleads who has read it.
LEMMA OthersRely ==
    ASSUME SureInv, NEW r, NEW s \in Requests \ {r}, s \notin misled', Open(s),
           UNCHANGED <<request[s], done[s], got[s], reads[s]>>,
           NEW k \in Keys, NEW record, Put(k, record, r)
    PROVE  Relied(s)'
<1>1. s \notin misled /\ k \notin reads[s]
  BY DEF Put
<1>2. Relied(s) /\ reads[s] \subseteq Keys /\ DOMAIN store = Keys
  BY <1>1 DEF SureInv, Sure, TypeInv, TypeOK
<1>3. \A j \in reads[s] : store'[j] = store[j]
  BY <1>1, <1>2 DEF Put
<1> QED BY <1>2, <1>3, ReliesOnReads

LEMMA SureStep ==
    ASSUME SureInv, [Next]_vars
    PROVE  Sure'
<1>1. StoreTyped /\ TypeInv
  BY DEF SureInv, TypeInv, TypeOK, StoreTyped
<1>2. misled \subseteq misled'
  BY DEF Next, RequestStep, Elsewhere, BuildRuns, ImageBuilt, RunEnds, Ask, Get, ListAlgorithms,
     ListUsers, Copy, StartBuild, Write, Fail, Put, PutCopy, PutBuild, PutRecord, vars
<1>3. ASSUME NEW s \in Requests, s \notin misled', Open(s), UNCHANGED <<store, request[s], done[s], got[s], reads[s]>>
      PROVE  Relied(s)'
  <2>1. Relied(s)
    BY <1>2, <1>3 DEF SureInv, Sure
  <2> QED BY <1>3, <2>1, ReliesOnReads
<1>4. CASE UNCHANGED vars
  BY <1>3, <1>4 DEF Sure, vars, served, Open
<1>5. CASE Elsewhere
  <2>1. PICK k \in Keys : \E record : Put(k, record, None)
    BY <1>1, <1>5, ElsewhereWrites DEF Keys
  <2>2. \A s \in Requests : s \in Requests \ {None}
    BY StoreAssumption
  <2>3. UNCHANGED served
    BY <1>5 DEF Elsewhere
  <2> QED BY <2>1, <2>2, <2>3, OthersRely DEF Sure, served, Open
<1> SUFFICES ASSUME NEW r \in Requests, RequestStep(r)
             PROVE  Sure'
  BY <1>4, <1>5 DEF Next
<1> DEFINE q == request[r]
<1>6. ASSUME NEW s \in Requests \ {r}, s \notin misled', Open(s)'
      PROVE  Relied(s)'
  <2>1. UNCHANGED <<request[s], done[s], got[s], reads[s]>> /\ Open(s)
    BY <1>1, <1>6, OneAtATime DEF Others, Open
  <2>2. CASE UNCHANGED store
    BY <1>3, <1>6, <2>1, <2>2
  <2>3. CASE Due(r, "build") /\ PutBuild(r)
    <3>1. PICK k \in BuildKeys : \E record : Put(k, record, r)
      BY <2>3 DEF PutBuild
    <3>2. k \in Keys
      BY DEF Keys
    <3> QED BY <1>6, <2>1, <3>1, <3>2, OthersRely
  <2>4. CASE Due(r, "write") /\ PutRecord(r)
    <3>1. PICK record : Put(Target(r, q), record, r)
      BY <2>4 DEF PutRecord
    <3>2. Open(r) /\ q \in Request
      BY <1>1, <2>4, OpenTyped DEF Due
    <3>3. Target(r, q) \in Keys
      BY <3>2, RequestKinds, RecordsAssumption DEF Target, Keys, RunKeys
    <3> QED BY <1>6, <2>1, <3>1, <3>3, OthersRely
  <2> QED BY <2>2, <2>3, <2>4 DEF RequestStep, Ask, Get, ListAlgorithms, ListUsers, Copy, PutCopy,
             StartBuild, Write, Fail
<1> SUFFICES ASSUME r \notin misled', Open(r)'
             PROVE  Relied(r)'
  BY <1>6 DEF Sure
<1>7. CASE Ask(r)
  <2>1. done'[r] = {}
    BY <1>1, <1>7 DEF Ask, TypeInv, TypeOK, Open
  <2> QED BY <2>1 DEF Relied
<1>8. CASE ~Ask(r)
  <2>1. UNCHANGED request /\ Open(r) /\ r \notin misled
    BY <1>1, <1>2, <1>8, OneAtATime DEF RequestStep, Get, ListAlgorithms, ListUsers, Copy,
       StartBuild, Write, Fail, Due
  <2>2. q \in Request /\ Relied(r) /\ Known(q, outcome[r], done[r], got[r])
        /\ done[r] \subseteq DOMAIN Calls(q.op)
    BY <1>1, <2>1, OpenTyped DEF SureInv, Sure, TypeInv, Progress
  <2>3. CASE Get(r)
    <3>1. /\ got'[r] = store[q.key] /\ UNCHANGED store /\ reads'[r] = reads[r] \cup {q.key}
          /\ "get" \notin done[r]
          /\ done'[r] \subseteq done[r] \cup {"get", "build"}
      BY <1>1, <2>1, <2>2, <2>3, DueCalls DEF Get, Close, Called, Open, TypeInv, TypeOK
    <3>2. "algorithms" \in done[r] => CheckedNodes(q, got'[r]) = CheckedNodes(q, got[r])
      BY <2>2, <3>1 DEF Known, CheckedNodes
    <3> QED BY <2>1, <2>2, <3>1, <3>2 DEF Relied
  <2>4. CASE ListAlgorithms(r)
    <3> DEFINE nodes == CheckedNodes(q, got[r])
    <3>1. /\ UNCHANGED <<store, got>> /\ AllExist(store, nodes)
          /\ reads'[r] = reads[r] \cup ({"algorithm"} \X Used(nodes))
          /\ done'[r] = done[r] \cup {"algorithms"}
      BY <1>1, <2>1, <2>4 DEF ListAlgorithms, Close, Called, Open, TypeInv, TypeOK
    <3> QED BY <2>1, <2>2, <3>1 DEF Relied
  <2>5. ASSUME NEW call, NEW keys, ListUsers(r, call, keys),
               <<call, keys>> \in {<<"pipelines", PipelineKeys>>, <<"running", RunKeys>>}
        PROVE  Relied(r)'
    <3> DEFINE all == {k \in keys : store[k] # None}
    <3>1. /\ UNCHANGED <<store, got>>
          /\ reads'[r] = reads[r] \cup keys /\ done'[r] = done[r] \cup {call}
          /\ UsersOf(store, all, q.key[2]) = {}
      BY <1>1, <2>1, <2>5 DEF ListUsers, Close, Called, Open, TypeInv, TypeOK
    <3>2. UsersOf(store, keys, q.key[2]) = {}
      BY <3>1 DEF UsersOf
    <3> QED BY <2>1, <2>2, <2>5, <3>1, <3>2 DEF Relied
  <2>6. CASE Copy(r)
    <3>1. UNCHANGED <<store, got, reads[r]>> /\ done'[r] = done[r] \cup {"copy"}
      BY <1>1, <2>1, <2>6 DEF Copy, PutCopy, Called, TypeInv, TypeOK
    <3> QED BY <2>1, <2>2, <3>1 DEF Relied
  <2>7. CASE StartBuild(r)
    <3>1. q.op = "applyAlgorithm" /\ "get" \in done[r]
      BY <2>2, <2>7, DueCalls DEF StartBuild
    <3>2. done[r] \subseteq {"get", "build", "write"} /\ q.key \in AlgorithmKeys
      BY <2>2, <3>1, RequestKinds DEF Calls, ApplyAlgorithm, AlgorithmOps
    <3>3. /\ UNCHANGED <<got, reads[r]>> /\ done'[r] = done[r] \cup {"build"}
          /\ \E k \in BuildKeys : \E record : Put(k, record, r)
      BY <1>1, <2>1, <2>7 DEF StartBuild, PutBuild, Close, Called, Open, TypeInv, TypeOK
    <3>4. store'[q.key] = store[q.key]
      BY <1>1, <3>2, <3>3, KeyKinds DEF Put, StoreTyped, Keys
    <3> QED BY <2>1, <2>2, <3>1, <3>2, <3>3, <3>4 DEF Relied
  <2>8. ~Write(r) /\ ~Fail(r)
    BY <1>1 DEF Write, Fail, Close, Open, TypeInv, TypeOK
  <2> QED BY <1>8, <2>3, <2>4, <2>5, <2>6, <2>7, <2>8 DEF RequestStep
<1> QED BY <1>7, <1>8

LEMMA SureAlways == Spec => []SureInv
<1>1. Init => SureInv
  <2>1. Init => Sure
    BY DEF Init, Sure, Open
  <2> QED BY <2>1, InitTyped DEF SureInv
<1>2. SureInv /\ [Next]_vars => SureInv'
  BY TypeStep, ProgressStep, SureStep DEF SureInv, TypeInv
<1> QED BY <1>1, <1>2, PTL DEF Spec
-----------------------------------------------------------------------------
(***************************************************************************)
(* A request that is not misled is atomic.                                 *)
(***************************************************************************)
\* The instance of AtomicStore has its own copies of what the two modules share.
LEMMA SameRecords ==
    /\ Atomic!PipelineKeys = PipelineKeys /\ Atomic!RunKeys = RunKeys
    /\ Atomic!BuildKeys = BuildKeys
    /\ \A q : Atomic!ValidRequest(q) = ValidRequest(q)
    /\ \A q, old : /\ Atomic!Accepted(q, old) = Accepted(q, old)
                   /\ Atomic!CheckedNodes(q, old) = CheckedNodes(q, old)
                   /\ Atomic!Result(q, old) = Result(q, old)
                   /\ Atomic!NewBuild(q, old) = NewBuild(q, old)
    /\ \A old, new : Atomic!ShouldBuild(old, new) = ShouldBuild(old, new)
    /\ \A r, q : Atomic!Target(r, q) = Target(r, q)
    /\ \A s, nodes : Atomic!AllExist(s, nodes) = AllExist(s, nodes)
    /\ \A s, keys, a : Atomic!UsersOf(s, keys, a) = UsersOf(s, keys, a)
<1>1. /\ Atomic!PipelineKeys = PipelineKeys /\ Atomic!RunKeys = RunKeys
      /\ Atomic!BuildKeys = BuildKeys
  BY DEF PipelineKeys, RunKeys, BuildKeys, Atomic!PipelineKeys, Atomic!RunKeys, Atomic!BuildKeys
<1>2. \A nodes : Atomic!Names(nodes) = Names(nodes) /\ Atomic!Links(nodes) = Links(nodes)
                /\ Atomic!Used(nodes) = Used(nodes)
  BY DEF Names, Links, Used, Atomic!Names, Atomic!Links, Atomic!Used
<1>3. \A nodes : Atomic!IsAcyclic(nodes) = IsAcyclic(nodes)
  BY <1>2 DEF IsAcyclic, Atomic!IsAcyclic
<1>4. \A q : Atomic!ValidRequest(q) = ValidRequest(q)
  <2>1. \A nodes : Atomic!ValidNodes(nodes) = ValidNodes(nodes)
    BY <1>2, <1>3 DEF ValidNodes, Atomic!ValidNodes
  <2> QED BY <2>1 DEF ValidRequest, Atomic!ValidRequest
<1>5. \A old, new : Atomic!ResolveEnv(old, new) = ResolveEnv(old, new)
  BY DEF ResolveEnv, Atomic!ResolveEnv
<1>6. \A old, new : Atomic!ShouldBuild(old, new) = ShouldBuild(old, new)
  BY <1>5 DEF ShouldBuild, Atomic!ShouldBuild
<1>7. \A old, new : Atomic!IncVersion(old, new) = IncVersion(old, new)
  <2>1. \A v : Atomic!Incremented(v) = Incremented(v)
    BY DEF Incremented, Atomic!Incremented
  <2> QED BY <2>1 DEF IncVersion, Atomic!IncVersion
<1>8. \A q, old : Atomic!NewBuild(q, old) = NewBuild(q, old)
  BY <1>7 DEF NewBuild, Atomic!NewBuild
<1>9. \A q, old : Atomic!Result(q, old) = Result(q, old)
  <2>1. \A new : Atomic!Stored(new) = Stored(new)
    BY DEF Stored, Atomic!Stored
  <2>2. \A old, new : Atomic!Applied(old, new) = Applied(old, new)
    BY <1>6, <1>7, <2>1 DEF Applied, Over, NoAlgorithm, Atomic!Applied, Atomic!Over, Atomic!NoAlgorithm
  <2>3. \A old : /\ \A c : Atomic!Toggled(old, c) = Toggled(old, c)
                 /\ Atomic!RunOf(old) = RunOf(old)
                 /\ Atomic!StoppedBuild(old) = StoppedBuild(old)
                 /\ Atomic!StartedAgain(old) = StartedAgain(old)
    BY DEF Toggled, RunOf, StoppedBuild, StartedAgain, Atomic!Toggled, Atomic!RunOf,
       Atomic!StoppedBuild, Atomic!StartedAgain
  <2> QED BY <2>1, <2>2, <2>3 DEF Result, Atomic!Result
<1>10. \A q, old : Atomic!Accepted(q, old) = Accepted(q, old)
  BY <1>5 DEF Accepted, CanApply, CanStop, CanRunAgain, ActiveStates, Atomic!Accepted,
     Atomic!CanApply, Atomic!CanStop, Atomic!CanRunAgain, Atomic!ActiveStates
<1>11. /\ \A q, old : Atomic!CheckedNodes(q, old) = CheckedNodes(q, old)
       /\ \A r, q : Atomic!Target(r, q) = Target(r, q)
  BY DEF CheckedNodes, Target, Atomic!CheckedNodes, Atomic!Target
<1>12. /\ \A s, nodes : Atomic!AllExist(s, nodes) = AllExist(s, nodes)
       /\ \A s, keys, a : Atomic!UsersOf(s, keys, a) = UsersOf(s, keys, a)
  BY <1>2 DEF AllExist, UsersOf, Atomic!AllExist, Atomic!UsersOf
<1> QED BY <1>1, <1>4, <1>6, <1>8, <1>9, <1>10, <1>11, <1>12

\* When it writes, the store allows it.
LEMMA WriteAllowed ==
    ASSUME SureInv, NEW r \in Requests, r \notin misled, Due(r, "write"), PutRecord(r)
    PROVE  Atomic!Served(r) /\ got[r] = store[request[r].key]
<1> DEFINE q == request[r]
<1>1. TypeInv
  BY DEF SureInv
<1>2. Open(r) /\ q \in Request /\ "get" \in done[r]
  BY <1>1, OpenTyped, DueCalls DEF Due
<1>3. Relied(r) /\ Known(q, outcome[r], done[r], got[r])
  BY <1>2 DEF SureInv, Sure, TypeInv, Progress
<1>4. got[r] = store[q.key] /\ Accepted(q, store[q.key])
  BY <1>2, <1>3 DEF Relied, Known
<1>5. q.op \in {"insertPipeline", "updatePipeline", "runStored"} =>
         AllExist(store, CheckedNodes(q, store[q.key]))
  BY <1>2, <1>3, <1>4, DueCalls DEF Relied
<1>6. q.op = "deleteAlgorithm" => UsersOf(store, PipelineKeys \cup RunKeys, q.key[2]) = {}
  <2>1. q.op = "deleteAlgorithm" => {"pipelines", "running"} \subseteq done[r]
    BY <1>2, DueCalls
  <2> QED BY <1>3, <2>1 DEF Relied, UsersOf
<1>7. q.op = "applyAlgorithm" => (outcome[r] = "building" <=> ShouldBuild(store[q.key], q.data))
  <2>1. q.op = "applyAlgorithm" => "build" \in done[r]
    BY <1>2, DueCalls
  <2> QED BY <1>2, <1>3, <1>4, <2>1 DEF Known
<1>8. store' = [store EXCEPT ![Target(r, q)] = Result(q, store[q.key])]
  BY <1>4 DEF PutRecord, Put, Target
<1> QED BY <1>4, <1>5, <1>6, <1>7, <1>8, SameRecords DEF Atomic!Served, Atomic!Allowed

\* When it stores a build, there is need of one.
LEMMA BuildAllowed ==
    ASSUME SureInv, NEW r \in Requests, r \notin misled, Due(r, "build"), PutBuild(r)
    PROVE  Atomic!Built(r) /\ got[r] = store[request[r].key]
<1> DEFINE q == request[r]
<1>1. TypeInv
  BY DEF SureInv
<1>2. Open(r) /\ q.op = "applyAlgorithm" /\ "get" \in done[r] /\ "build" \notin done[r]
  BY <1>1, OpenTyped, DueCalls DEF Due
<1>3. Relied(r) /\ Known(q, outcome[r], done[r], got[r])
  BY <1>2 DEF SureInv, Sure, TypeInv, Progress
<1>4. /\ got[r] = store[q.key] /\ Accepted(q, store[q.key]) /\ outcome[r] = "open"
      /\ ShouldBuild(store[q.key], q.data)
  BY <1>2, <1>3 DEF Relied, Known
<1> QED BY <1>2, <1>4, SameRecords DEF Atomic!Built, PutBuild, Put

LEMMA AtomicStep ==
    ASSUME SureInv, [Next]_vars
    PROVE  [Atomic!Next]_(Atomic!vars)
<1>1. TypeInv /\ StoreTyped
  BY DEF SureInv, TypeInv, TypeOK, StoreTyped
<1>2. misled \subseteq misled'
  BY DEF Next, RequestStep, Elsewhere, BuildRuns, ImageBuilt, RunEnds, Ask, Get, ListAlgorithms,
     ListUsers, Copy, StartBuild, Write, Fail, Put, PutCopy, PutBuild, PutRecord, vars
<1>3. CASE UNCHANGED vars
  BY <1>3 DEF vars, served, Atomic!vars
<1>4. CASE Elsewhere
  <2>1. UNCHANGED <<request, outcome>>
    BY <1>4 DEF Elsewhere, served
  <2>2. \/ \E k \in BuildKeys : Atomic!BuildRuns(k) \/ Atomic!ImageBuilt(k)
        \/ \E k \in RunKeys : Atomic!RunEnds(k)
    <3>1. \A k : BuildRuns(k) => Atomic!BuildRuns(k)
      BY DEF BuildRuns, Put, Atomic!BuildRuns
    <3>2. \A k : ImageBuilt(k) => Atomic!ImageBuilt(k)
      BY DEF ImageBuilt, Put, Atomic!ImageBuilt
    <3>3. \A k : RunEnds(k) => Atomic!RunEnds(k)
      BY DEF RunEnds, Put, Atomic!RunEnds
    <3> QED BY <1>4, <3>1, <3>2, <3>3 DEF Elsewhere
  <2> QED BY <1>2, <2>1, <2>2, SameRecords
          DEF Atomic!Elsewhere, Atomic!Next
<1> SUFFICES ASSUME NEW r \in Requests, RequestStep(r)
             PROVE  Atomic!Next \/ UNCHANGED Atomic!vars
  BY <1>3, <1>4 DEF Next
<1> DEFINE q == request[r]
<1>5. CASE Ask(r)
  BY <1>5, SameRecords DEF Ask, Atomic!Ask, Atomic!Next
<1>6. CASE ~Ask(r)
  <2>1. Open(r) /\ UNCHANGED request
    BY <1>1, <1>6, OneAtATime DEF RequestStep, Get, ListAlgorithms, ListUsers, Copy, StartBuild,
       Write, Fail, Due
  <2>2. q \in Request /\ Known(q, outcome[r], done[r], got[r]) /\ (r \notin misled => Relied(r))
    BY <1>1, <2>1, OpenTyped DEF SureInv, Sure, TypeInv, Progress
  <2>3. CASE r \in misled /\ outcome' # outcome
    <3>1. \E o \in {"building", "ok", "refused", "failed"} : outcome' = [outcome EXCEPT ![r] = o]
      BY <1>6, <2>3 DEF RequestStep, Get, ListAlgorithms, ListUsers, Copy, StartBuild, Write, Fail,
         Close
    <3>2. \/ UNCHANGED store
          \/ \E k \in {Target(r, q)} \cup {b \in BuildKeys : store[b] = None} :
                store' = [store EXCEPT ![k] = store'[k]]
      <4>1. CASE Due(r, "build") /\ PutBuild(r)
        <5>1. PICK k \in BuildKeys : store[k] = None /\ \E b : store' = [store EXCEPT ![k] = b]
          BY <4>1 DEF PutBuild, Put
        <5>2. k \in DOMAIN store
          BY <1>1 DEF StoreTyped, Keys
        <5> QED BY <5>1, <5>2
      <4>2. CASE Due(r, "write") /\ PutRecord(r)
        <5>1. Target(r, q) \in DOMAIN store
          BY <1>1, <2>2, RequestKinds, RecordsAssumption DEF StoreTyped, Target, Keys, RunKeys
        <5>2. \E b : store' = [store EXCEPT ![Target(r, q)] = b]
          BY <4>2 DEF PutRecord, Put
        <5> QED BY <5>1, <5>2
      <4> QED BY <1>6, <4>1, <4>2 DEF RequestStep, Get, ListAlgorithms, ListUsers, Copy, PutCopy,
                 StartBuild, Write, Fail
    <3> QED BY <1>2, <2>1, <2>3, <3>1, <3>2, SameRecords DEF Atomic!Mislead, Atomic!Outcome, Atomic!Next, Open
  <2>4. CASE r \in misled /\ outcome' = outcome
    <3>1. UNCHANGED store
      <4>1. ASSUME Due(r, "build")
            PROVE  outcome[r] = "open"
        BY <2>1, <2>2, <4>1, DueCalls DEF Known
      <4> QED BY <1>1, <1>6, <2>1, <2>4, <4>1 DEF RequestStep, Get, ListAlgorithms, ListUsers, Copy,
                 PutCopy, StartBuild, Write, Fail, Close, Open, TypeInv, TypeOK
    <3> QED BY <1>2, <2>1, <2>4, <3>1 DEF Atomic!IsMisled, Atomic!Next
  <2>5. CASE r \notin misled
    <3>1. CASE Get(r)
      <4>1. outcome[r] = "open"
        BY <2>2, <3>1, DueCalls DEF Get, Known
      <4>2. CASE Accepted(q, store[q.key])
        BY <3>1, <4>2 DEF Get, Atomic!vars
      <4>3. CASE ~Accepted(q, store[q.key])
        BY <2>5, <3>1, <4>1, <4>3, SameRecords
           DEF Get, Close, Atomic!Refuse, Atomic!Allowed, Atomic!Outcome, Atomic!Next
      <4> QED BY <4>2, <4>3
    <3>2. CASE ListAlgorithms(r)
      <4>1. /\ q.op \in {"insertPipeline", "updatePipeline", "runStored"}
            /\ q.op = "runStored" => got[r] = store[q.key]
        BY <2>2, <2>5, <3>2, DueCalls DEF ListAlgorithms, Relied
      <4>2. CheckedNodes(q, got[r]) = CheckedNodes(q, store[q.key]) /\ outcome[r] = "open"
        BY <2>1, <2>2, <4>1 DEF CheckedNodes, Known, Open
      <4>3. CASE AllExist(store, CheckedNodes(q, got[r]))
        BY <3>2, <4>3 DEF ListAlgorithms, Atomic!vars
      <4>4. CASE ~AllExist(store, CheckedNodes(q, got[r]))
        BY <2>5, <3>2, <4>1, <4>2, <4>4, SameRecords
           DEF ListAlgorithms, Close, Atomic!Refuse, Atomic!Allowed, Atomic!Outcome, Atomic!Next
      <4> QED BY <4>3, <4>4
    <3>3. ASSUME NEW call \in {"pipelines", "running"}, NEW keys \in SUBSET (PipelineKeys \cup RunKeys),
                 ListUsers(r, call, keys)
          PROVE  Atomic!Next \/ UNCHANGED Atomic!vars
      <4>1. q.op = "deleteAlgorithm" /\ outcome[r] = "open"
        BY <2>1, <2>2, <3>3, DueCalls DEF ListUsers, Known, Open
      <4>2. PICK listed \in SUBSET {k \in keys : store[k] # None} :
               IF UsersOf(store, listed, q.key[2]) = {}
               THEN UNCHANGED <<got, outcome>>
               ELSE Close(r, "refused") /\ UNCHANGED misled
        BY <3>3 DEF ListUsers
      <4>3. UNCHANGED <<store, request>>
        BY <3>3 DEF ListUsers
      <4>4. CASE UsersOf(store, listed, q.key[2]) = {}
        BY <1>2, <4>2, <4>3, <4>4 DEF Atomic!IsMisled, Atomic!Next
      <4>5. CASE UsersOf(store, listed, q.key[2]) # {}
        <5>1. UsersOf(store, PipelineKeys \cup RunKeys, q.key[2]) # {}
          BY <4>5 DEF UsersOf
        <5> QED BY <2>5, <4>1, <4>2, <4>3, <4>5, <5>1, SameRecords
                DEF Close, Atomic!Refuse, Atomic!Allowed, Atomic!Outcome, Atomic!Next
      <4> QED BY <4>4, <4>5
    <3>4. CASE Copy(r)
      BY <3>4 DEF Copy, PutCopy, Atomic!vars
    <3>5. CASE StartBuild(r)
      <4>1. Atomic!Built(r)
        BY <2>5, <3>5, BuildAllowed DEF StartBuild
      <4>2. Atomic!Outcome(r, IF q.data.image THEN "refused" ELSE "building")
        BY <1>2, <3>5 DEF StartBuild, Close, Atomic!Outcome
      <4> QED BY <2>5, <4>1, <4>2 DEF Atomic!StartBuild, Atomic!Next
    <3>6. CASE Write(r)
      <4>1. Atomic!Served(r)
        BY <2>5, <3>6, WriteAllowed DEF Write
      <4>2. Atomic!Outcome(r, "ok")
        BY <1>2, <3>6 DEF Write, Close, Atomic!Outcome
      <4> QED BY <2>1, <2>5, <4>1, <4>2 DEF Atomic!Serve, Atomic!Next, Open
    <3>7. CASE Fail(r)
      <4>1. Atomic!Built(r) \/ Atomic!Served(r) \/ UNCHANGED store
        BY <2>5, <3>7, BuildAllowed, WriteAllowed DEF Fail, PutCopy
      <4>2. Atomic!Outcome(r, "failed")
        BY <1>2, <3>7 DEF Fail, Close, Atomic!Outcome
      <4> QED BY <2>1, <2>5, <4>1, <4>2 DEF Atomic!Fail, Atomic!Next, Open
    <3> QED BY <1>6, <3>1, <3>2, <3>3, <3>4, <3>5, <3>6, <3>7 DEF RequestStep
  <2> QED BY <2>3, <2>4, <2>5
<1> QED BY <1>5, <1>6

\* The services implement the atomic store: a request that is not misled is refused without
\* an effect, or is allowed by the store as it is and has its whole effect at one moment.
THEOREM StoreIsAtomic == Spec => AtomicSpec
<1>1. Init => Atomic!Init
  BY DEF Init, Atomic!Init
<1>2. SureInv /\ [Next]_vars => [Atomic!Next]_(Atomic!vars)
  BY AtomicStep
<1> QED BY <1>1, <1>2, SureAlways, PTL DEF Spec, AtomicSpec, Atomic!Spec
-----------------------------------------------------------------------------
(***************************************************************************)
(* The algorithms in use exist.                                            *)
(***************************************************************************)
UsersServed == \A k \in PipelineKeys \cup RunKeys : store[k] # None => AllExist(store, store[k].nodes)

\* Served by a request that is allowed, the users have their algorithms.
LEMMA ServedKeepsUsers ==
    ASSUME SureInv, UsersServed, NEW r \in Requests, r \notin misled,
           Due(r, "write"), PutRecord(r)
    PROVE  UsersServed'
<1> DEFINE q == request[r]
           old == store[q.key]
           new == Result(q, old)
<1>1. TypeInv /\ StoreTyped
  BY DEF SureInv, TypeInv, TypeOK, StoreTyped
<1>2. Open(r) /\ q \in Request /\ "get" \in done[r]
  BY <1>1, OpenTyped, DueCalls DEF Due
<1>3. Atomic!Served(r) /\ got[r] = old
  BY WriteAllowed
<1>4. /\ Accepted(q, old)
      /\ q.op \in {"insertPipeline", "updatePipeline", "runStored"} =>
             AllExist(store, CheckedNodes(q, old))
      /\ q.op = "deleteAlgorithm" => UsersOf(store, PipelineKeys \cup RunKeys, q.key[2]) = {}
      /\ store' = [store EXCEPT ![Target(r, q)] = new]
  BY <1>3, SameRecords DEF Atomic!Served, Atomic!Allowed
<1>5. q.key \in Keys /\ old \in Optional(RecordsOf(q.key))
  BY <1>1, <1>2, RequestKinds DEF StoreTyped
<1>6. q.op \in {"startCronJob", "stopCronJob", "runStored"} \cup BuildOps => old # None
  BY <1>2, <1>4, AcceptedThere DEF BuildOps
<1> SUFFICES ASSUME NEW k \in PipelineKeys \cup RunKeys, store'[k] # None
             PROVE  AllExist(store', store'[k].nodes)
  BY DEF UsersServed
<1>7. CASE q.key \in AlgorithmKeys
  <2>1. q.op \in AlgorithmOps \cup {"deleteAlgorithm"} /\ Target(r, q) = q.key
    BY <1>2, <1>7, RequestKinds, KeyKinds DEF Target, PipelineOps
  <2>2. store'[k] = store[k] /\ AllExist(store, store[k].nodes) /\ k \in Keys
    BY <1>1, <1>4, <1>7, <2>1, KeyKinds DEF StoreTyped, UsersServed, Keys
  <2>3. ASSUME NEW a \in Used(store[k].nodes)
        PROVE  store'[<<"algorithm", a>>] # None
    <3>1. store[<<"algorithm", a>>] # None
      BY <2>2, <2>3 DEF AllExist
    <3>2. CASE q.key # <<"algorithm", a>>
      BY <1>1, <1>4, <1>5, <2>1, <3>1, <3>2 DEF StoreTyped
    <3>3. CASE q.key = <<"algorithm", a>>
      <4>1. q.op # "deleteAlgorithm"
        BY <1>4, <2>2, <2>3, <3>3 DEF UsersOf
      <4>2. new \in Algorithm
        BY <1>2, <1>5, <1>7, <2>1, <4>1, RequestKinds, KeyKinds, AppliedTyped
           DEF Result, Stored, Algorithm, Payload, AlgorithmOps, Optional
      <4> HIDE DEF new
      <4> QED BY <1>1, <1>4, <1>5, <2>1, <3>3, <4>2, NoneAssumption DEF StoreTyped
    <3> QED BY <3>2, <3>3
  <2> QED BY <2>2, <2>3 DEF AllExist
<1>8. CASE q.key \notin AlgorithmKeys
  <2>1. Target(r, q) \notin AlgorithmKeys /\ Target(r, q) \in Keys
    BY <1>2, <1>5, <1>8, RecordsAssumption DEF Target, AlgorithmKeys, RunKeys, Keys
  <2>2. \A a : store'[<<"algorithm", a>>] = store[<<"algorithm", a>>] \/ a \notin Algorithms
    <3>1. \A a \in Algorithms : <<"algorithm", a>> \in AlgorithmKeys /\ <<"algorithm", a>> \in Keys
      BY DEF AlgorithmKeys, Keys
    <3> HIDE DEF new
    <3> QED BY <1>1, <1>4, <2>1, <3>1 DEF StoreTyped
  <2>3. \A nodes \in NodeList : AllExist(store, nodes) => AllExist(store', nodes)
    BY <2>2, UsedTyped DEF AllExist
  <2>4. CASE k # Target(r, q)
    <3>1. store'[k] = store[k] /\ AllExist(store, store[k].nodes) /\ store[k] # None
      <4> HIDE DEF new
      <4> QED BY <1>1, <1>4, <2>1, <2>4 DEF StoreTyped, UsersServed, Keys
    <3>2. store[k].nodes \in NodeList
      <4>1. store[k] \in Pipeline \cup Run
        BY <1>1, <3>1, KeyKinds DEF StoreTyped, Optional, Keys
      <4> QED BY <4>1 DEF Pipeline, Run
    <3> QED BY <2>3, <3>1, <3>2
  <2>5. CASE k = Target(r, q)
    <3>1. store'[k] = new /\ new # None
      <4> HIDE DEF new
      <4> QED BY <1>1, <1>4, <2>1, <2>5 DEF StoreTyped
    <3>2. q.key \in PipelineKeys /\ q.op \in StoreOps \cup PipelineOps
      BY <1>2, <1>8, <2>5, RequestKinds, KeyKinds DEF Target, BuildOps, AlgorithmOps
    <3>3. CASE q.op \in StoreOps
      <4>1. new.nodes = CheckedNodes(q, old) /\ new.nodes \in NodeList
        BY <1>2, <3>3, RequestKinds DEF Result, CheckedNodes, StoreOps, Pipeline
      <4> QED BY <1>4, <2>3, <3>1, <3>3, <4>1 DEF StoreOps
    <3>4. CASE q.op \in {"startCronJob", "stopCronJob", "runStored"}
      <4>1. old \in Pipeline /\ old # None
        BY <1>5, <1>6, <3>2, <3>4, KeyKinds DEF Optional
      <4>2. new.nodes = old.nodes /\ old.nodes \in NodeList
        BY <3>4, <4>1 DEF Result, Toggled, RunOf, Pipeline
      <4>3. AllExist(store, old.nodes)
        BY <3>2, <4>1 DEF UsersServed
      <4> QED BY <2>3, <3>1, <4>2, <4>3
    <3>5. q.op # "deletePipeline"
      BY <3>1 DEF Result
    <3> QED BY <3>2, <3>3, <3>4, <3>5 DEF PipelineOps
  <2> QED BY <2>4, <2>5
<1> QED BY <1>7, <1>8

\* Nor does anything else take an algorithm from its users.
LEMMA UsedStep ==
    ASSUME SureInv, UsedAlgorithmsExist, [Next]_vars
    PROVE  UsedAlgorithmsExist'
<1>1. TypeInv /\ StoreTyped
  BY DEF SureInv, TypeInv, TypeOK, StoreTyped
<1>2. misled \subseteq misled'
  BY DEF Next, RequestStep, Elsewhere, BuildRuns, ImageBuilt, RunEnds, Ask, Get, ListAlgorithms,
     ListUsers, Copy, StartBuild, Write, Fail, Put, PutCopy, PutBuild, PutRecord, vars
<1>3. ASSUME NEW s \in Requests, outcome[s] \in {"ok", "failed"}
      PROVE  outcome'[s] = outcome[s]
  <2>1. CASE Elsewhere \/ UNCHANGED vars
    BY <2>1 DEF Elsewhere, served, vars
  <2>2. ASSUME NEW r \in Requests, RequestStep(r)
        PROVE  outcome'[s] = outcome[s]
    <3>1. Others(r)
      BY <1>1, <2>2, OneAtATime
    <3>2. outcome[r] = "new" \/ Open(r)
      BY <2>2 DEF RequestStep, Ask, Get, ListAlgorithms, ListUsers, Copy, StartBuild, Write, Fail, Due
    <3>3. s # r
      BY <1>3, <3>2 DEF Open
    <3> QED BY <3>1, <3>3 DEF Others
  <2> QED BY <2>1, <2>2 DEF Next
<1> SUFFICES ASSUME \A s \in misled' : outcome'[s] \notin {"ok", "failed"}
             PROVE  UsersServed'
  BY DEF UsedAlgorithmsExist, UsersServed
<1>4. UsersServed
  BY <1>1, <1>2, <1>3 DEF UsedAlgorithmsExist, UsersServed, StoreTyped
<1>5. ASSUME \A k \in PipelineKeys \cup RunKeys : store'[k] = store[k] \/ store'[k] = None,
             \A k \in AlgorithmKeys : store[k] # None => store'[k] # None
      PROVE  UsersServed'
  <2> SUFFICES ASSUME NEW k \in PipelineKeys \cup RunKeys, store'[k] # None,
                      NEW a \in Used(store'[k].nodes)
               PROVE  store'[<<"algorithm", a>>] # None
    BY DEF UsersServed, AllExist
  <2>1. store'[k] = store[k] /\ store[<<"algorithm", a>>] # None
    BY <1>4, <1>5 DEF UsersServed, AllExist
  <2>2. store[k].nodes \in NodeList
    <3>1. store[k] \in Pipeline \cup Run
      BY <1>1, <2>1, KeyKinds DEF StoreTyped, Optional, Keys
    <3> QED BY <3>1 DEF Pipeline, Run
  <2>3. <<"algorithm", a>> \in AlgorithmKeys
    BY <2>1, <2>2, UsedTyped DEF AlgorithmKeys
  <2> QED BY <1>5, <2>1, <2>3
<1>6. CASE Elsewhere
  <2>1. PICK k \in BuildKeys \cup AlgorithmKeys \cup RunKeys :
           \E record \in Optional(RecordsOf(k)) :
              /\ Put(k, record, None)
              /\ k \in RunKeys => record = None
              /\ k \in BuildKeys \cup AlgorithmKeys => record # None
    BY <1>1, <1>6, ElsewhereWrites
  <2>2. /\ \A j \in PipelineKeys \cup RunKeys : store'[j] = store[j] \/ store'[j] = None
        /\ \A j \in AlgorithmKeys : store[j] # None => store'[j] # None
    BY <1>1, <2>1, KeyKinds DEF Put, StoreTyped, Keys
  <2> QED BY <1>5, <2>2
<1>7. CASE UNCHANGED store
  BY <1>5, <1>7
<1>8. ASSUME NEW r \in Requests, Due(r, "build"), PutBuild(r)
      PROVE  UsersServed'
  <2>1. PICK k \in BuildKeys : \E b : store' = [store EXCEPT ![k] = b]
    BY <1>8 DEF PutBuild, Put
  <2>2. \A j \in PipelineKeys \cup RunKeys \cup AlgorithmKeys : store'[j] = store[j]
    BY <1>1, <2>1, KeyKinds DEF StoreTyped, Keys
  <2> QED BY <1>5, <2>2
<1>9. ASSUME NEW r \in Requests, Due(r, "write"), PutRecord(r), Write(r) \/ Fail(r)
      PROVE  UsersServed'
  <2>1. outcome'[r] \in {"ok", "failed"}
    BY <1>1, <1>9 DEF Write, Fail, Close, TypeInv, TypeOK
  <2>2. r \notin misled
    BY <1>2, <2>1
  <2> QED BY <1>4, <1>9, <2>2, ServedKeepsUsers
<1> QED BY <1>6, <1>7, <1>8, <1>9 DEF Next, RequestStep, Ask, Get, ListAlgorithms, ListUsers,
        Copy, PutCopy, StartBuild, Write, Fail, vars

\* No sequence of requests, and no failure among them, takes an algorithm from the stored or
\* the running pipelines that use it, unless a misled request has written.
THEOREM UsedAlgorithmsStay == Spec => []UsedAlgorithmsExist
<1>1. Init => UsedAlgorithmsExist
  BY StoreAssumption DEF Init, UsedAlgorithmsExist
<1>2. SureInv /\ UsedAlgorithmsExist /\ [Next]_vars => UsedAlgorithmsExist'
  BY UsedStep
<1> QED BY <1>1, <1>2, SureAlways, PTL DEF Spec

-----------------------------------------------------------------------------
(***************************************************************************)
(* Versions of builds.                                                     *)
(***************************************************************************)
\* A version that is counted on is later, unless all its parts are at their limit.
LEMMA IncrementedLater ==
    ASSUME NEW v \in Nat \X Nat \X Nat, \E i \in 1..3 : v[i] < MaxPart
    PROVE  Later(Incremented(v), v)
<1>1. v[1] \in Nat /\ v[2] \in Nat /\ v[3] \in Nat /\ MaxPart \in Nat
  BY RecordsAssumption
<1>2. v[1] < MaxPart \/ v[2] < MaxPart \/ v[3] < MaxPart
  OBVIOUS
<1>3. CASE v[3] < MaxPart
  BY <1>1, <1>3 DEF Later, Incremented
<1>4. CASE v[3] >= MaxPart /\ v[2] < MaxPart
  BY <1>1, <1>4 DEF Later, Incremented
<1>5. CASE v[3] >= MaxPart /\ v[2] >= MaxPart /\ v[1] < MaxPart
  BY <1>1, <1>5 DEF Later, Incremented
<1> QED BY <1>1, <1>2, <1>3, <1>4, <1>5

\* A build that is stored for a request that is not misled has a later version than its
\* algorithm, for any limit of the parts.
THEOREM BuildVersionsGrow == Spec => VersionsGrow
<1>1. ASSUME SureInv, [Next]_vars, NEW r \in Requests, NEW k \in BuildKeys
      PROVE  NextVersion(r, k)
  <2> DEFINE q == request[r]
             old == store[q.key]
  <2> SUFFICES ASSUME outcome[r] = "open", outcome'[r] # "open", r \notin misled,
                      q.op = "applyAlgorithm", store[k] = None, store'[k] # None,
                      q.data.version = None, old # None,
                      old.version \notin NotSemver \cup {None},
                      \E i \in 1..3 : old.version[i] < MaxPart
               PROVE  Later(store'[k].version, old.version)
    BY DEF NextVersion
  <2>1. TypeInv /\ StoreTyped /\ k \in Keys
    BY <1>1 DEF SureInv, TypeInv, TypeOK, StoreTyped, Keys
  <2>2. q \in Request /\ q.key \in AlgorithmKeys /\ q.key \in Keys
    BY <2>1, OpenTyped, RequestKinds DEF Open, AlgorithmOps
  <2>3. RequestStep(r)
    <3>1. ~Elsewhere /\ ~UNCHANGED vars
      BY DEF Elsewhere, vars, served
    <3>2. \A s \in Requests \ {r} : ~RequestStep(s)
      BY <2>1, OneAtATime DEF Others
    <3> QED BY <1>1, <3>1, <3>2 DEF Next
  <2>4. ~(Due(r, "write") /\ PutRecord(r))
    <3>1. Target(r, q) # k
      BY <2>2, KeyKinds DEF Target
    <3> QED BY <2>1, <3>1 DEF PutRecord, Put, StoreTyped
  <2>5. Due(r, "build") /\ PutBuild(r)
    BY <2>3, <2>4 DEF RequestStep, Ask, Get, ListAlgorithms, ListUsers, Copy, PutCopy, StartBuild,
       Write, Fail
  <2>6. got[r] = old
    BY <1>1, <2>5, BuildAllowed
  <2>7. store'[k] = NewBuild(q, old)
    <3>1. PICK j \in BuildKeys : store' = [store EXCEPT ![j] = NewBuild(q, got[r])]
      BY <2>5 DEF PutBuild, Put
    <3>2. j = k
      BY <2>1, <3>1 DEF StoreTyped
    <3> QED BY <2>1, <2>6, <3>1, <3>2 DEF StoreTyped
  <2>8. old.version \in Nat \X Nat \X Nat
    <3>1. old \in Algorithm
      BY <2>1, <2>2, KeyKinds DEF StoreTyped, Optional
    <3> QED BY <3>1 DEF Algorithm, Optional, Version
  <2>9. store'[k].version = Incremented(old.version)
    BY <2>7 DEF NewBuild, IncVersion
  <2> QED BY <2>8, <2>9, IncrementedLater
<1>2. SureInv /\ [Next]_vars => [\A r \in Requests, k \in BuildKeys : NextVersion(r, k)]_vars
  BY <1>1
<1> QED BY <1>2, SureAlways, PTL DEF Spec, VersionsGrow
-----------------------------------------------------------------------------
(***************************************************************************)
(* The copies.  A request that has copied a pipeline and not yet stored it *)
(* holds the latest copy, or another does, or, for an insert, another has  *)
(* stored the pipeline since: then it will be found there, if it is not    *)
(* deleted first.  When nobody holds a copy, what is stored is copied.     *)
(* This holds of a key as long as no request excuses it, and an excuse     *)
(* stays.                                                                  *)
(***************************************************************************)
Excused(r, k) ==
    /\ request[r] # None /\ request[r].key = k
    /\ \/ outcome[r] = "failed" \/ r \in misled
       \/ request[r].op = "insertPipeline" /\ outcome[r] = "refused"
       \/ InsertedLate(r, k)

Copied(k) == {r \in Requests : Open(r) /\ request[r].key = k /\ "copy" \in done[r]}

Overtaken(r, k) ==
    /\ request[r].op = "insertPipeline" /\ Fulfilled(CopyingOps, k) \ {r} # {}
    /\ Fulfilled({"deletePipeline"}, k) # {} \/ (store[k] # None /\ "get" \notin done[r])

Copying(k) ==
    /\ Copied(k) = {} => store[k] = None \/ copies[k] = store[k]
    /\ \A r \in Copied(k) :
          \/ copies[k] = Result(request[r], got[r]) \/ Copied(k) \ {r} # {} \/ Overtaken(r, k)

\* What a request has done before, and after, its copy.
Orderly(r) ==
    /\ outcome[r] = "new" => request[r] = None
    /\ Open(r) =>
        /\ "get" \in done[r] => request[r].key \in reads[r]
        /\ "get" \in done[r] /\ request[r].op = "insertPipeline" => "copy" \in done[r]
        /\ "copy" \in done[r] /\ request[r].key \in PipelineKeys =>
              /\ request[r].op \in CopyingOps
              /\ request[r].op # "insertPipeline" => "get" \in done[r]
              /\ request[r].op = "updatePipeline" => "algorithms" \in done[r]

CopyInv ==
    /\ TypeInv /\ \A r \in Requests : Orderly(r)
    /\ \A k \in PipelineKeys : (\E r \in Requests : Excused(r, k)) \/ Copying(k)

LEMMA InitCopy == Init => CopyInv
<1> SUFFICES ASSUME Init PROVE CopyInv
  OBVIOUS
<1>1. TypeInv
  BY InitTyped
<1>2. \A r \in Requests : outcome[r] = "new" /\ request[r] = None /\ ~Open(r)
  BY DEF Init, Open
<1>3. \A k \in PipelineKeys : Copied(k) = {} /\ copies[k] = store[k]
  BY <1>2 DEF Init, Copied
<1>4. \A k \in PipelineKeys : Copying(k)
  BY <1>3 DEF Copying
<1> QED BY <1>1, <1>2, <1>4 DEF CopyInv, Orderly

\* What a request is about, and how it has ended, stays.
LEMMA EndsStay ==
    ASSUME TypeInv, [Next]_vars, NEW s \in Requests
    PROVE  /\ outcome[s] # "new" => request'[s] = request[s]
           /\ outcome[s] \in {"ok", "refused", "failed"} => outcome'[s] = outcome[s]
           /\ s \in misled => s \in misled'
<1>1. misled \subseteq misled'
  BY DEF Next, RequestStep, Elsewhere, BuildRuns, ImageBuilt, RunEnds, Ask, Get, ListAlgorithms,
     ListUsers, Copy, StartBuild, Write, Fail, Put, PutCopy, PutBuild, PutRecord, vars
<1>2. CASE UNCHANGED served
  BY <1>1, <1>2 DEF served
<1>3. CASE \E r \in Requests : RequestStep(r)
  <2>1. PICK r \in Requests : RequestStep(r)
    BY <1>3
  <2>2. CASE r # s
    BY <1>1, <2>1, <2>2, OneAtATime DEF Others
  <2>3. CASE r = s /\ Ask(s)
    BY <1>1, <2>3 DEF Ask
  <2>4. CASE r = s /\ ~Ask(s)
    BY <1>1, <2>1, <2>4, OneAtATime DEF RequestStep, Get, ListAlgorithms, ListUsers, Copy,
       StartBuild, Write, Fail, Due, Open
  <2> QED BY <2>2, <2>3, <2>4
<1> QED BY <1>2, <1>3 DEF Next, Elsewhere, vars

LEMMA FulfilledStay ==
    ASSUME TypeInv, [Next]_vars, NEW ops, NEW k
    PROVE  Fulfilled(ops, k) \subseteq Fulfilled(ops, k)'
BY EndsStay DEF Fulfilled

LEMMA ExcusesStay ==
    ASSUME TypeInv, [Next]_vars, NEW r \in Requests, Orderly(r), NEW k, Excused(r, k)
    PROVE  Excused(r, k)'
<1>1. request'[r] = request[r]
  BY EndsStay DEF Excused, Orderly
<1>2. InsertedLate(r, k) => InsertedLate(r, k)'
  BY FulfilledStay DEF InsertedLate
<1> QED BY <1>1, <1>2, EndsStay DEF Excused

\* The calls of a request on a pipeline.
LEMMA PipelineCalls ==
    ASSUME TypeInv, NEW r \in Requests, Orderly(r), request[r].key \in PipelineKeys,
           NEW call, Due(r, call)
    PROVE  LET op == request[r].op IN
           /\ op \in StoreOps \cup PipelineOps
           /\ call \in {"get", "copy", "algorithms", "write"}
           /\ call = "copy" => op \in CopyingOps
           /\ call = "copy" /\ op # "insertPipeline" => "get" \in done[r]
           /\ call = "copy" /\ op = "updatePipeline" => "algorithms" \in done[r]
           /\ call = "get" /\ op = "insertPipeline" => "copy" \in done[r]
           /\ call = "write" => "get" \in done[r] /\ (op \in CopyingOps => "copy" \in done[r])
<1> DEFINE op == request[r].op
<1>1. Open(r) /\ request[r] \in Request
  BY OpenTyped DEF Due
<1>2. op \in StoreOps \cup PipelineOps
  BY <1>1, RequestKinds, KeyKinds DEF AlgorithmOps
<1>3. call \in DOMAIN Calls(op) /\ Calls(op)[call] \subseteq done[r]
  BY DEF Due
<1>4. CASE op = "insertPipeline"
  BY <1>1, <1>2, <1>3, <1>4 DEF Calls, InsertPipeline, CopyingOps, Orderly
<1>5. CASE op = "updatePipeline"
  BY <1>2, <1>3, <1>5 DEF Calls, UpdatePipeline, CopyingOps
<1>6. CASE op = "deletePipeline"
  BY <1>2, <1>3, <1>6 DEF Calls, DeletePipeline, CopyingOps
<1>7. CASE op \in {"startCronJob", "stopCronJob"}
  BY <1>2, <1>3, <1>7 DEF Calls, ToggleCronJob, CopyingOps
<1>8. CASE op = "runStored"
  BY <1>2, <1>3, <1>8 DEF Calls, RunStored, CopyingOps
<1> QED BY <1>2, <1>4, <1>5, <1>6, <1>7, <1>8 DEF StoreOps, PipelineOps

\* A step of an open request calls one thing more, or closes it.
LEMMA OneCall ==
    ASSUME TypeInv, NEW r \in Requests, RequestStep(r), ~Ask(r)
    PROVE  /\ Open(r) /\ UNCHANGED request
           /\ \/ /\ ~Open(r)' /\ done'[r] = {}
              \/ /\ Open(r)' /\ reads[r] \subseteq reads'[r]
                 /\ \E call : /\ Due(r, call) /\ done[r] \cup {call} \subseteq done'[r]
                              /\ done'[r] \subseteq done[r] \cup {call, "build"}
                              /\ call = "get" => request[r].key \in reads'[r]
<1>1. Open(r) /\ UNCHANGED request
  BY OneAtATime DEF RequestStep, Get, ListAlgorithms, ListUsers, Copy, StartBuild, Write, Fail, Due
<1>2. \/ \E o \in {"ok", "refused", "failed"} : Close(r, o)
      \/ /\ UNCHANGED outcome \/ outcome' = [outcome EXCEPT ![r] = "building"]
         /\ \E call, keys : /\ Due(r, call)
                            /\ call = "get" => request[r].key \in keys
                            /\ Called(r, {call}, keys) \/ Called(r, {call, "build"}, keys)
  <2>1. CASE Get(r)
    BY <2>1 DEF Get
  <2>2. CASE ListAlgorithms(r)
    BY <2>2 DEF ListAlgorithms
  <2>3. ASSUME NEW call \in {"pipelines", "running"}, NEW keys, ListUsers(r, call, keys)
        PROVE  \/ Close(r, "refused")
               \/ Due(r, call) /\ UNCHANGED outcome /\ Called(r, {call}, keys)
    BY <2>3 DEF ListUsers
  <2>4. CASE Copy(r)
    BY <2>4 DEF Copy
  <2>5. CASE StartBuild(r)
    BY <2>5 DEF StartBuild
  <2>6. CASE Write(r) \/ Fail(r)
    BY <2>6 DEF Write, Fail
  <2> QED BY <2>1, <2>2, <2>3, <2>4, <2>5, <2>6 DEF RequestStep
<1>3. CASE \E o \in {"ok", "refused", "failed"} : Close(r, o)
  BY <1>1, <1>3 DEF Close, Open, TypeInv, TypeOK
<1>4. ASSUME NEW call, NEW keys, Due(r, call), call = "get" => request[r].key \in keys,
             Called(r, {call}, keys) \/ Called(r, {call, "build"}, keys),
             UNCHANGED outcome \/ outcome' = [outcome EXCEPT ![r] = "building"]
      PROVE  /\ Open(r)' /\ reads[r] \subseteq reads'[r]
             /\ Due(r, call) /\ done[r] \cup {call} \subseteq done'[r]
             /\ done'[r] \subseteq done[r] \cup {call, "build"}
             /\ call = "get" => request[r].key \in reads'[r]
  BY <1>1, <1>4 DEF Called, Open, TypeInv, TypeOK
<1> QED BY <1>1, <1>2, <1>3, <1>4

LEMMA OrderlyStep ==
    ASSUME CopyInv, [Next]_vars, NEW s \in Requests
    PROVE  Orderly(s)'
<1>1. TypeInv /\ Orderly(s)
  BY DEF CopyInv
<1>2. CASE UNCHANGED served
  BY <1>1, <1>2 DEF Orderly, served, Open
<1> SUFFICES ASSUME NEW r \in Requests, RequestStep(r)
             PROVE  Orderly(s)'
  BY <1>2 DEF Next, Elsewhere, vars, served
<1>3. CASE s # r
  BY <1>1, <1>3, OneAtATime DEF Others, Orderly, Open
<1>4. CASE s = r /\ Ask(r)
  BY <1>1, <1>4 DEF Ask, Orderly, TypeInv, TypeOK, Open
<1>5. CASE s = r /\ ~Ask(r)
  <2>1. Open(r) /\ UNCHANGED request
    BY <1>1, <1>5, OneCall
  <2>2. outcome'[r] # "new"
    <3>1. outcome[r] # "new"
      BY <2>1 DEF Open
    <3> QED BY <1>1, <1>5, <3>1 DEF RequestStep, Get, ListAlgorithms, ListUsers, Copy, StartBuild,
            Write, Fail, Close, TypeInv, TypeOK
  <2>3. CASE ~Open(r)'
    BY <1>5, <2>2, <2>3 DEF Orderly
  <2>4. CASE Open(r)'
    <3>1. reads[r] \subseteq reads'[r]
      BY <1>1, <1>5, <2>4, OneCall
    <3>2. PICK call : /\ Due(r, call) /\ done[r] \cup {call} \subseteq done'[r]
                      /\ done'[r] \subseteq done[r] \cup {call, "build"}
                      /\ call = "get" => request[r].key \in reads'[r]
      BY <1>1, <1>5, <2>4, OneCall
    <3>3. request[r] \in Request
      BY <1>1, <2>1, OpenTyped
    <3>4. request[r].op = "insertPipeline" => request[r].key \in PipelineKeys
      BY <3>3, RequestKinds DEF StoreOps
    <3> HIDE DEF Due
    <3>5. ("get" \in done[r] => request[r].key \in reads[r])'
      BY <1>1, <1>5, <2>1, <3>1, <3>2 DEF Orderly
    <3>6. request[r].key \in PipelineKeys =>
             /\ call = "get" /\ request[r].op = "insertPipeline" => "copy" \in done[r]
             /\ call = "copy" => request[r].op \in CopyingOps
             /\ call = "copy" /\ request[r].op # "insertPipeline" => "get" \in done[r]
             /\ call = "copy" /\ request[r].op = "updatePipeline" => "algorithms" \in done[r]
      BY <1>1, <1>5, <3>2, PipelineCalls
    <3> QED BY <1>1, <1>5, <2>1, <2>2, <3>2, <3>4, <3>5, <3>6 DEF Orderly
  <2> QED BY <2>3, <2>4
<1> QED BY <1>3, <1>4, <1>5

\* A step that copies nothing of a key, stores nothing in it and ends no copying of it.
LEMMA CopyingKept ==
    ASSUME TypeInv, [Next]_vars, NEW k, Copying(k), store'[k] = store[k], copies'[k] = copies[k],
           Copied(k)' = Copied(k),
           \A s \in Copied(k) :
              /\ request'[s] = request[s] /\ (got'[s] = got[s] \/ request[s].op = "insertPipeline")
              /\ "get" \in done'[s] => "get" \in done[s] \/ store[k] = None
    PROVE  Copying(k)'
<1>1. /\ Fulfilled(CopyingOps, k) \subseteq Fulfilled(CopyingOps, k)'
      /\ Fulfilled({"deletePipeline"}, k) \subseteq Fulfilled({"deletePipeline"}, k)'
  BY FulfilledStay DEF Copying
<1>2. ASSUME NEW s \in Copied(k)
      PROVE  /\ Result(request[s], got[s])' = Result(request[s], got[s])
             /\ Overtaken(s, k) => Overtaken(s, k)'
  BY <1>1, <1>2 DEF Result, Overtaken
<1> QED BY <1>2 DEF Copying

\* A write that is not excused meets no other request that has read the key.
LEMMA NobodyHasRead ==
    ASSUME CopyInv, NEW k \in PipelineKeys, NEW r \in Requests, NEW record, Put(k, record, r),
           UNCHANGED request, \A t \in Requests : ~Excused(t, k)',
           NEW s \in Copied(k) \ {r}
    PROVE  request[s].op = "insertPipeline" /\ "get" \notin done[s]
<1>1. s \in Requests /\ Open(s) /\ request[s].key = k /\ "copy" \in done[s]
  BY DEF Copied
<1>2. "get" \notin done[s]
  <2>1. SUFFICES ASSUME "get" \in done[s] PROVE FALSE
    OBVIOUS
  <2>2. k \in reads[s]
    BY <1>1, <2>1 DEF CopyInv, Orderly
  <2>3. s \in misled' /\ request'[s] # None
    BY <1>1, <2>2, OpenTyped DEF Put, CopyInv
  <2> QED BY <1>1, <2>3 DEF Excused
<1> QED BY <1>1, <1>2 DEF CopyInv, Orderly

\* What a request on a pipeline stores.
LEMMA PipelineWrite ==
    ASSUME CopyInv, NEW r \in Requests, NEW k \in PipelineKeys, request[r].key = k,
           request[r].op # "runStored", Due(r, "write"), PutRecord(r)
    PROVE  /\ Put(k, Result(request[r], got[r]), r) /\ UNCHANGED copies /\ k \in DOMAIN store
           /\ \/ request[r].op = "deletePipeline" /\ Result(request[r], got[r]) = None
              \/ request[r].op \in CopyingOps /\ Result(request[r], got[r]) # None
<1> DEFINE q == request[r]
<1>1. TypeInv /\ Orderly(r) /\ k \in Keys
  BY DEF CopyInv, Keys
<1>2. Open(r) /\ q \in Request /\ got[r] \in Optional(RecordsOf(k))
  BY <1>1, OpenTyped DEF Due
<1>3. q.op \in {"insertPipeline", "updatePipeline", "deletePipeline", "startCronJob", "stopCronJob"}
      /\ "get" \in done[r]
  BY <1>1, PipelineCalls DEF StoreOps, PipelineOps
<1>4. Put(k, Result(q, got[r]), r) /\ UNCHANGED copies
  BY <1>3 DEF PutRecord, Target
<1>5. k \in DOMAIN store
  BY <1>1 DEF TypeInv, TypeOK
<1>6. CASE q.op = "deletePipeline"
  BY <1>4, <1>5, <1>6 DEF Result
<1>7. CASE q.op \in StoreOps
  <2>1. q.data \in Pipeline
    BY <1>2, <1>7, RequestKinds
  <2> QED BY <1>4, <1>5, <1>7, <2>1, NoneAssumption DEF Result, StoreOps, CopyingOps
<1>8. CASE q.op \in {"startCronJob", "stopCronJob"}
  <2>1. got[r] # None
    BY <1>1, <1>2, <1>3, <1>8, AcceptedThere DEF TypeInv, Progress, Known
  <2>2. got[r] \in Pipeline
    BY <1>2, <2>1, KeyKinds DEF Optional
  <2>3. Result(q, got[r]) \in Pipeline
    BY <1>8, <2>2 DEF Result, Toggled, Pipeline
  <2> QED BY <1>4, <1>5, <1>8, <2>3, NoneAssumption DEF CopyingOps
<1> QED BY <1>3, <1>6, <1>7, <1>8 DEF StoreOps

\* A write of a pipeline leaves it copied, or with who will find it.
LEMMA WriteCopying ==
    ASSUME CopyInv, NEW r \in Requests, NEW k \in PipelineKeys, Copying(k), request[r].key = k,
           request[r].op # "runStored", Write(r), [Next]_vars,
           \A t \in Requests : ~Excused(t, k)'
    PROVE  Copying(k)'
<1> DEFINE q == request[r]
           record == Result(q, got[r])
<1>1. TypeInv /\ Due(r, "write") /\ PutRecord(r) /\ Close(r, "ok") /\ UNCHANGED request
  BY DEF CopyInv, Write
<1>2. /\ Put(k, record, r) /\ UNCHANGED copies /\ k \in DOMAIN store
      /\ \/ q.op = "deletePipeline" /\ record = None
         \/ q.op \in CopyingOps /\ record # None
  BY <1>1, PipelineWrite
<1> HIDE DEF record
<1>3. store'[k] = record
  BY <1>2 DEF Put
<1>4. outcome'[r] = "ok" /\ Copied(k)' = Copied(k) \ {r} /\ Open(r)
  BY <1>1 DEF Close, Copied, TypeInv, TypeOK, Open, Due
<1>5. \A s \in Copied(k) \ {r} :
         /\ request[s].op = "insertPipeline" /\ "get" \notin done[s]
         /\ UNCHANGED <<request[s], got[s], done[s]>>
  <2>1. \A s \in Copied(k) \ {r} : request[s].op = "insertPipeline" /\ "get" \notin done[s]
    BY <1>1, <1>2, NobodyHasRead
  <2>2. \A s \in Requests \ {r} : UNCHANGED <<request[s], got[s], done[s]>>
    BY <1>1 DEF Close, TypeInv, TypeOK
  <2> QED BY <2>1, <2>2 DEF Copied
<1>6. \A ops : q.op \in ops => r \in Fulfilled(ops, k)'
  BY <1>1, <1>4 DEF Fulfilled
<1>7. \A ops : Fulfilled(ops, k) \subseteq Fulfilled(ops, k)'
  BY <1>1, FulfilledStay
<1>8. CASE q.op = "deletePipeline"
  <2>1. r \notin Copied(k)
    <3>1. q.op \notin CopyingOps
      BY <1>8 DEF CopyingOps
    <3> QED BY <3>1 DEF CopyInv, Orderly, Copied
  <2>2. ASSUME NEW s \in Copied(k)
        PROVE  \/ (copies[k] = Result(request[s], got[s]))' \/ Copied(k)' \ {s} # {}
               \/ Overtaken(s, k)'
    <3>1. \/ copies[k] = Result(request[s], got[s]) \/ Copied(k) \ {s} # {} \/ Overtaken(s, k)
      BY DEF Copying
    <3>2. Result(request[s], got[s])' = Result(request[s], got[s])
      BY <1>5, <2>1, <2>2 DEF Result
    <3>3. Overtaken(s, k) => Overtaken(s, k)'
      <4>1. Fulfilled({"deletePipeline"}, k)' # {}
        BY <1>6, <1>8
      <4>2. request'[s] = request[s]
        BY <1>1
      <4> QED BY <1>7, <4>1, <4>2 DEF Overtaken
    <3> QED BY <1>2, <1>4, <2>1, <3>1, <3>2, <3>3
  <2>3. store'[k] = None /\ Copied(k)' = Copied(k)
    BY <1>2, <1>3, <1>4, <1>8, <2>1 DEF CopyingOps
  <2> QED BY <2>2, <2>3 DEF Copying
<1>9. CASE q.op \in CopyingOps
  <2>1. r \in Copied(k) /\ "get" \in done[r]
    <3>1. "copy" \in done[r] /\ "get" \in done[r]
      BY <1>1, <1>9, PipelineCalls DEF CopyInv
    <3> QED BY <1>4, <3>1 DEF Copied
  <2>2. record # None
    BY <1>2, <1>9 DEF CopyingOps
  <2>3. ASSUME NEW s \in Copied(k)'
        PROVE  Overtaken(s, k)'
    <3>1. s \in Copied(k) \ {r}
      BY <1>4, <2>3
    <3>2. request'[s].op = "insertPipeline" /\ "get" \notin done'[s]
      BY <1>5, <3>1
    <3>3. r \in Fulfilled(CopyingOps, k)' \ {s}
      BY <1>6, <1>9, <3>1
    <3> QED BY <1>3, <2>2, <3>2, <3>3 DEF Overtaken
  <2>4. ASSUME Copied(k)' = {}
        PROVE  copies'[k] = store'[k]
    <3>1. Copied(k) \ {r} = {}
      BY <1>4, <2>4
    <3>2. ~Overtaken(r, k)
      <4>1. SUFFICES ASSUME Overtaken(r, k) PROVE FALSE
        OBVIOUS
      <4>2. q.op = "insertPipeline" /\ Fulfilled({"deletePipeline"}, k) # {}
            /\ Fulfilled(CopyingOps, k) \ {r} # {}
        BY <2>1, <4>1 DEF Overtaken
      <4>3. InsertedLate(r, k)'
        BY <1>6, <1>7, <4>2 DEF InsertedLate
      <4>4. request'[r] # None /\ request'[r].key = k
        BY <1>1, <1>4, OpenTyped
      <4> QED BY <4>3, <4>4 DEF Excused
    <3>3. copies[k] = record
      BY <2>1, <3>1, <3>2 DEF Copying, record
    <3> QED BY <1>2, <1>3, <3>3
  <2> QED BY <2>3, <2>4 DEF Copying
<1> QED BY <1>2, <1>8, <1>9

\* What a call stores or copies is of its own key, or no pipeline.
LEMMA OtherPipelines ==
    ASSUME TypeInv, NEW r \in Requests, NEW k \in PipelineKeys,
           request[r].key # k \/ request[r].op = "runStored",
           \/ Due(r, "copy") /\ PutCopy(r)
           \/ Due(r, "build") /\ PutBuild(r)
           \/ Due(r, "write") /\ PutRecord(r)
    PROVE  store'[k] = store[k] /\ copies'[k] = copies[k]
<1> DEFINE q == request[r]
<1>1. Open(r) /\ q \in Request
  BY OpenTyped DEF Due
<1>2. k \in DOMAIN store /\ k \in DOMAIN copies /\ k \notin RunKeys \cup BuildKeys
  BY KeyKinds DEF TypeInv, TypeOK, Keys
<1>3. CASE Due(r, "copy") /\ PutCopy(r)
  <2>1. q.op # "runStored"
    BY <1>1, <1>3, DueCalls DEF StoreOps
  <2> QED BY <1>2, <1>3, <2>1 DEF PutCopy
<1>4. CASE Due(r, "build") /\ PutBuild(r)
  BY <1>2, <1>4 DEF PutBuild, Put
<1>5. CASE Due(r, "write") /\ PutRecord(r)
  <2>1. Target(r, q) # k
    <3>1. <<"run", r>> \in RunKeys
      BY RecordsAssumption DEF RunKeys
    <3> QED BY <1>2, <3>1 DEF Target
  <2> QED BY <1>2, <1>5, <2>1 DEF PutRecord, Put
<1> QED BY <1>3, <1>4, <1>5

LEMMA CopyStep ==
    ASSUME CopyInv, [Next]_vars, NEW k \in PipelineKeys, \A t \in Requests : ~Excused(t, k)'
    PROVE  Copying(k)'
<1>1. TypeInv /\ Copying(k)
  BY ExcusesStay DEF CopyInv
<1>2. StoreTyped /\ k \in Keys /\ k \notin AlgorithmKeys \cup BuildKeys \cup RunKeys
  BY <1>1, KeyKinds DEF TypeInv, TypeOK, StoreTyped, Keys
<1>3. CASE UNCHANGED vars
  <2>1. Copied(k)' = Copied(k)
    BY <1>3 DEF vars, served, Copied, Open
  <2> QED BY <1>1, <1>3, <2>1, CopyingKept DEF vars, served
<1>4. CASE Elsewhere
  <2>1. UNCHANGED <<served, copies>>
    BY <1>4 DEF Elsewhere
  <2>2. Copied(k)' = Copied(k)
    BY <2>1 DEF served, Copied, Open
  <2>3. PICK j \in BuildKeys \cup AlgorithmKeys \cup RunKeys : \E record : Put(j, record, None)
    BY <1>2, <1>4, ElsewhereWrites
  <2>4. store'[k] = store[k]
    BY <1>2, <2>3 DEF Put, StoreTyped
  <2> QED BY <1>1, <2>1, <2>2, <2>4, CopyingKept DEF served
<1> SUFFICES ASSUME NEW r \in Requests, RequestStep(r)
             PROVE  Copying(k)'
  BY <1>3, <1>4 DEF Next
<1> DEFINE q == request[r]
<1>5. \A s \in Copied(k) \ {r} : UNCHANGED <<request[s], got[s], done[s]>>
  BY <1>1, OneAtATime DEF Others, Copied
<1>6. Copied(k)' \ {r} = Copied(k) \ {r}
  BY <1>1, OneAtATime DEF Others, Copied, Open
<1>7. ASSUME UNCHANGED <<store, copies>>, r \notin Copied(k), r \notin Copied(k)'
      PROVE  Copying(k)'
  BY <1>1, <1>5, <1>6, <1>7, CopyingKept
<1>8. CASE Ask(r)
  <2>1. r \notin Copied(k) /\ r \notin Copied(k)'
    BY <1>1, <1>8 DEF Ask, Copied, TypeInv, TypeOK, Open
  <2> QED BY <1>7, <1>8, <2>1 DEF Ask
<1> SUFFICES ASSUME ~Ask(r)
             PROVE  Copying(k)'
  BY <1>8
<1>9. Open(r) /\ UNCHANGED request /\ q \in Request /\ q # None
  BY <1>1, OneCall, OpenTyped
<1>10. CASE q.key # k
  <2>1. r \notin Copied(k) /\ r \notin Copied(k)'
    BY <1>9, <1>10 DEF Copied
  <2>2. store'[k] = store[k] /\ copies'[k] = copies[k]
    <3>1. \/ UNCHANGED <<store, copies>>
          \/ Due(r, "copy") /\ PutCopy(r)
          \/ Due(r, "build") /\ PutBuild(r)
          \/ Due(r, "write") /\ PutRecord(r)
      BY DEF RequestStep, Ask, Get, ListAlgorithms, ListUsers, Copy, StartBuild, Write, Fail
    <3> QED BY <1>1, <1>10, <3>1, OtherPipelines
  <2> QED BY <1>1, <1>5, <1>6, <2>1, <2>2, CopyingKept
<1> SUFFICES ASSUME q.key = k
             PROVE  Copying(k)'
  BY <1>10
<1>11. \/ Get(r) \/ ListAlgorithms(r) \/ Copy(r) \/ Write(r)
  <2>1. ~Fail(r)
    BY <1>1, <1>9 DEF Fail, Close, Excused, TypeInv, TypeOK
  <2>2. \A call : Due(r, call) => call \in {"get", "copy", "algorithms", "write"}
    BY PipelineCalls DEF CopyInv
  <2> QED BY <2>1, <2>2 DEF RequestStep, ListUsers, StartBuild
<1>12. ASSUME Close(r, "refused"), UNCHANGED <<store, copies>>,
              q.op # "insertPipeline" => "copy" \notin done[r]
       PROVE  Copying(k)'
  <2>1. outcome'[r] = "refused" /\ ~Open(r)'
    BY <1>1, <1>12 DEF Close, TypeInv, TypeOK, Open
  <2>2. r \notin Copied(k) /\ r \notin Copied(k)'
    BY <1>9, <1>12, <2>1 DEF Excused, Copied
  <2> QED BY <1>7, <1>12, <2>2
<1>13. ASSUME UNCHANGED <<store, copies, outcome>>, NEW call, done'[r] = done[r] \cup {call},
              call # "copy", got'[r] = got[r] \/ q.op = "insertPipeline" \/ r \notin Copied(k),
              call # "get" \/ q.op # "insertPipeline" \/ store[k] = None
       PROVE  Copying(k)'
  <2>1. Copied(k)' = Copied(k)
    <3>1. r \in Copied(k)' <=> r \in Copied(k)
      BY <1>9, <1>13 DEF Copied, Open
    <3> QED BY <1>6, <3>1
  <2>2. r \in Copied(k) /\ "get" \in done'[r] => "get" \in done[r] \/ store[k] = None
    BY <1>13 DEF CopyInv, Orderly, Copied
  <2>3. r \in Copied(k) =>
           /\ request'[r] = request[r] /\ (got'[r] = got[r] \/ request[r].op = "insertPipeline")
    BY <1>9, <1>13
  <2> QED BY <1>1, <1>5, <1>13, <2>1, <2>2, <2>3, CopyingKept
<1>14. CASE Get(r)
  <2>1. Due(r, "get") /\ UNCHANGED <<store, copies>>
    BY <1>14 DEF Get
  <2>2. q.op # "insertPipeline" => "copy" \notin done[r]
    BY <2>1 DEF CopyInv, Orderly, Due
  <2>3. CASE ~Accepted(q, store[k])
    BY <1>12, <1>14, <2>1, <2>2, <2>3 DEF Get
  <2>4. CASE Accepted(q, store[k])
    <3>1. q.op # "applyAlgorithm"
      BY <1>9, RequestKinds, KeyKinds DEF AlgorithmOps
    <3>2. done'[r] = done[r] \cup {"get"} /\ UNCHANGED outcome
      BY <1>1, <1>14, <2>4, <3>1 DEF Get, Called, TypeInv, TypeOK
    <3>3. q.op = "insertPipeline" => store[k] = None
      BY <2>4 DEF Accepted
    <3>4. q.op = "insertPipeline" \/ r \notin Copied(k)
      BY <2>2 DEF Copied
    <3> QED BY <1>13, <2>1, <3>2, <3>3, <3>4
  <2> QED BY <2>3, <2>4
<1>15. CASE ListAlgorithms(r)
  <2>1. Due(r, "algorithms") /\ UNCHANGED <<store, copies>>
    BY <1>15 DEF ListAlgorithms
  <2>2. q.op # "insertPipeline" => "copy" \notin done[r]
    <3>1. q.op \in {"insertPipeline", "updatePipeline", "runStored"} /\ "algorithms" \notin done[r]
      BY <1>9, <2>1, DueCalls
    <3> QED BY <1>9, <3>1 DEF CopyInv, Orderly, Due, CopyingOps
  <2>3. CASE Close(r, "refused")
    BY <1>12, <2>1, <2>2, <2>3
  <2>4. CASE ~Close(r, "refused")
    <3>1. done'[r] = done[r] \cup {"algorithms"} /\ UNCHANGED <<got, outcome>>
      BY <1>1, <1>15, <2>4 DEF ListAlgorithms, Called, TypeInv, TypeOK
    <3> QED BY <1>13, <2>1, <3>1
  <2> QED BY <2>3, <2>4
<1>16. CASE Copy(r)
  <2>1. copies'[k] = Result(q, got[r]) /\ UNCHANGED <<got, outcome>>
        /\ done'[r] = done[r] \cup {"copy"}
    BY <1>1, <1>2, <1>16 DEF Copy, PutCopy, Called, TypeInv, TypeOK
  <2>2. r \in Copied(k)'
    BY <1>9, <2>1 DEF Copied, Open
  <2>3. (copies[k] = Result(request[r], got[r]))'
    BY <1>9, <2>1 DEF Result
  <2> QED BY <2>2, <2>3 DEF Copying
<1>17. CASE Write(r)
  <2>1. CASE q.op = "runStored"
    <3>1. store'[k] = store[k] /\ copies'[k] = copies[k]
      BY <1>1, <1>17, <2>1, OtherPipelines DEF Write
    <3>2. r \notin Copied(k) /\ r \notin Copied(k)'
      <4>1. ~Open(r)'
        BY <1>1, <1>17 DEF Write, Close, TypeInv, TypeOK, Open
      <4> QED BY <2>1, <4>1 DEF Copied, CopyInv, Orderly, CopyingOps
    <3> QED BY <1>1, <1>5, <1>6, <3>1, <3>2, CopyingKept
  <2>2. CASE q.op # "runStored"
    BY <1>1, <1>17, <2>2, WriteCopying
  <2> QED BY <2>1, <2>2
<1> QED BY <1>11, <1>14, <1>15, <1>16, <1>17

\* A stored pipeline is as its copy, however many requests interleave and whatever fails,
\* unless one of the requests for it excuses it.
THEOREM CopiesFollow == Spec => []CopyIsOfStored
<1>1. Init => CopyInv
  BY InitCopy
<1>2. CopyInv /\ [Next]_vars => CopyInv'
  <2> SUFFICES ASSUME CopyInv, [Next]_vars PROVE CopyInv'
    OBVIOUS
  <2>1. TypeInv'
    BY TypeStep, ProgressStep DEF TypeInv, CopyInv
  <2> QED BY <2>1, OrderlyStep, CopyStep DEF CopyInv
<1>3. CopyInv => CopyIsOfStored
  <2> SUFFICES ASSUME CopyInv, NEW k \in PipelineKeys, store[k] # None, copies[k] # store[k]
               PROVE  \E r \in Requests :
                         /\ request[r] # None /\ request[r].key = k
                         /\ \/ Open(r) \/ outcome[r] = "failed" \/ r \in misled
                            \/ request[r].op = "insertPipeline" /\ outcome[r] = "refused"
                            \/ InsertedLate(r, k)
    BY DEF CopyIsOfStored
  <2>1. CASE \E r \in Requests : Excused(r, k)
    BY <2>1 DEF Excused
  <2>2. CASE Copied(k) # {}
    BY <2>2, OpenTyped DEF Copied, CopyInv
  <2> QED BY <2>1, <2>2 DEF CopyInv, Copying
<1> QED BY <1>1, <1>2, <1>3, PTL DEF Spec
=============================================================================
