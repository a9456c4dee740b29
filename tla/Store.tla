-------------------------------- MODULE Store --------------------------------
(***************************************************************************)
(* The services of the api-server that store algorithms, pipelines and     *)
(* builds (algorithms.js, builds.js, pipelines.js, cron.js), and the run   *)
(* of a stored pipeline up to the record of its run (execution.js).        *)
(*                                                                         *)
(* A request is served in a sequence of awaited calls to etcd and to the   *)
(* storage, and the calls of two requests interleave; nothing in etcd is   *)
(* locked and no write is conditional.  An action is one call, with the    *)
(* code that runs when it has returned.  A failed call, and an exit of the *)
(* process, ends the request after any of its calls.                       *)
(***************************************************************************)
EXTENDS StoreRecords, FiniteSets

CONSTANTS
    First,          \* the stores to begin with
    Asked,          \* the requests that clients make
    ListLimit,      \* 1000: a list of pipelines or of runs has no more of them
    MaxFailures     \* bound: failed calls

\* The stores to begin with hold records of their kind, and what is used exists.
ASSUME StoreAssumption ==
    /\ Asked \subseteq Request /\ None \notin Asked \cup Requests
    /\ ListLimit \in Nat /\ MaxFailures \in Nat
    /\ \A s \in First :
          /\ DOMAIN s = Keys /\ \A k \in Keys : s[k] \in Optional(RecordsOf(k))
          /\ \A k \in PipelineKeys \cup RunKeys :
                s[k] # None => ValidNodes(s[k].nodes) /\ AllExist(s, s[k].nodes)

VARIABLES
    store,      \* etcd: a record, or none, for every key
    copies,     \* the storage: the copies that are made of algorithms and pipelines
    request, outcome,
    done,       \* the calls that a request has made
    got,        \* the record it has read
    reads,      \* the keys that its next calls rely on
    misled,     \* the requests that rely on a key that another has written since
    nFailures

served == <<request, outcome, done, got, reads>>
vars == <<store, copies, served, misled, nFailures>>

Init ==
    /\ store \in First
    /\ copies = [k \in AlgorithmKeys \cup PipelineKeys |-> store[k]]
    /\ request = [r \in Requests |-> None] /\ outcome = [r \in Requests |-> "new"]
    /\ done = [r \in Requests |-> {}] /\ got = [r \in Requests |-> None]
    /\ reads = [r \in Requests |-> {}] /\ misled = {} /\ nFailures = 0

-----------------------------------------------------------------------------
(***************************************************************************)
(* The calls of a request: for each, the calls awaited before it.  A check *)
(* of an algorithm's users is two lists that are awaited together.         *)
(***************************************************************************)
\* mutants: an algorithm is inserted over one that is there; the runs are not looked at; a
\* cron job is switched in etcd only.
InsertOver == [copy |-> {}, write |-> {"copy"}]
DeleteRunning == [get |-> {}, pipelines |-> {"get"}, write |-> {"get", "pipelines"}]
ToggleStored == [get |-> {}, write |-> {"get"}]

InsertAlgorithm == [copy |-> {}, get |-> {"copy"}, write |-> {"get"}]
UpdateAlgorithm == [get |-> {}, write |-> {"get"}]
ApplyAlgorithm == [get |-> {}, build |-> {"get"}, write |-> {"get", "build"}]
DeleteAlgorithm == [get |-> {}, pipelines |-> {"get"}, running |-> {"get"},
                    write |-> {"get", "pipelines", "running"}]

InsertPipeline == [algorithms |-> {}, copy |-> {"algorithms"}, get |-> {"algorithms", "copy"},
                   write |-> {"algorithms", "get"}]
UpdatePipeline == [get |-> {}, algorithms |-> {"get"}, copy |-> {"get", "algorithms"},
                   write |-> {"get", "algorithms", "copy"}]
DeletePipeline == [get |-> {}, write |-> {"get"}]
ToggleCronJob == [get |-> {}, copy |-> {"get"}, write |-> {"get", "copy"}]
RunStored == [get |-> {}, algorithms |-> {"get"}, write |-> {"get", "algorithms"}]

StopBuild == [get |-> {}, write |-> {"get"}]
RerunBuild == [get |-> {}, write |-> {"get"}]

Calls(op) ==
    CASE op = "insertAlgorithm" -> InsertAlgorithm
      [] op = "updateAlgorithm" -> UpdateAlgorithm
      [] op = "applyAlgorithm" -> ApplyAlgorithm
      [] op = "deleteAlgorithm" -> DeleteAlgorithm
      [] op = "insertPipeline" -> InsertPipeline
      [] op = "updatePipeline" -> UpdatePipeline
      [] op = "deletePipeline" -> DeletePipeline
      [] op \in {"startCronJob", "stopCronJob"} -> ToggleCronJob
      [] op = "runStored" -> RunStored
      [] op = "stopBuild" -> StopBuild
      [] op = "rerunBuild" -> RerunBuild

Open(r) == outcome[r] \in {"open", "building"}

Due(r, call) ==
    /\ Open(r)
    /\ LET calls == Calls(request[r].op)
       IN  call \in DOMAIN calls \ done[r] /\ calls[call] \subseteq done[r]

-----------------------------------------------------------------------------
(***************************************************************************)
(* What a call does.                                                       *)
(***************************************************************************)
Called(r, calls, keys) ==
    /\ done' = [done EXCEPT ![r] = @ \cup calls]
    /\ reads' = [reads EXCEPT ![r] = @ \cup keys]

Close(r, o) ==
    /\ outcome' = [outcome EXCEPT ![r] = o]
    /\ done' = [done EXCEPT ![r] = {}] /\ reads' = [reads EXCEPT ![r] = {}]
    /\ got' = [got EXCEPT ![r] = None]

\* A key is written, by a request or from elsewhere.
Put(k, record, r) ==
    /\ store' = [store EXCEPT ![k] = record]
    /\ misled' = misled \cup {s \in Requests \ {r} : k \in reads[s]}

PutCopy(r) ==
    /\ copies' = [copies EXCEPT ![request[r].key] = Result(request[r], got[r])]
    /\ UNCHANGED <<store, misled>>

PutBuild(r) ==
    /\ \E k \in BuildKeys : store[k] = None /\ Put(k, NewBuild(request[r], got[r]), r)
    /\ UNCHANGED copies

\* stopBuild writes what it changes over the build as it is now; the others write the whole
\* record.
PutRecord(r) ==
    LET q == request[r]
        k == Target(r, q)
    IN  /\ Put(k, Result(q, IF q.op = "stopBuild" THEN store[k] ELSE got[r]), r)
        /\ UNCHANGED copies
-----------------------------------------------------------------------------
(***************************************************************************)
(* The steps of a request.                                                 *)
(***************************************************************************)
\* What is wrong in the request itself is found before the first call.
Ask(r) ==
    /\ outcome[r] = "new"
    /\ \E q \in Asked :
        /\ request' = [request EXCEPT ![r] = q]
        /\ outcome' = [outcome EXCEPT ![r] = IF ValidRequest(q) THEN "open" ELSE "refused"]
    /\ UNCHANGED <<store, copies, done, got, reads, misled, nFailures>>

\* The record is read and checked; applyAlgorithm goes on without a build if there is no
\* need of one.
Get(r) ==
    LET q == request[r]
        old == store[q.key]
    IN  /\ Due(r, "get")
        /\ IF Accepted(q, old)
           THEN /\ got' = [got EXCEPT ![r] = old] /\ UNCHANGED outcome
                /\ Called(r, IF q.op = "applyAlgorithm" /\ ~ShouldBuild(old, q.data)
                             THEN {"get", "build"} ELSE {"get"}, {q.key})
           ELSE Close(r, "refused")
        /\ UNCHANGED <<store, copies, request, misled, nFailures>>

\* validateAlgorithmName
ListAlgorithms(r) ==
    LET nodes == CheckedNodes(request[r], got[r])
    IN  /\ Due(r, "algorithms")
        /\ IF AllExist(store, nodes)
           THEN /\ Called(r, {"algorithms"}, {"algorithm"} \X Used(nodes))
                /\ UNCHANGED <<got, outcome>>
           ELSE Close(r, "refused")
        /\ UNCHANGED <<store, copies, request, misled, nFailures>>

\* _findAlgorithmDependencies: a list is cut at its limit, and then searched.
ListUsers(r, call, keys) ==
    LET all == {k \in keys : store[k] # None}
    IN  /\ Due(r, call)
        /\ \E listed \in SUBSET all :
            /\ Cardinality(listed) <= ListLimit
            /\ listed = all \/ Cardinality(listed) = ListLimit
            /\ IF UsersOf(store, listed, request[r].key[2]) = {}
               THEN /\ Called(r, {call}, keys) /\ UNCHANGED <<got, outcome>>
                    /\ misled' = IF listed = all THEN misled ELSE misled \cup {r}
               ELSE Close(r, "refused") /\ UNCHANGED misled
        /\ UNCHANGED <<store, copies, request, nFailures>>

Copy(r) ==
    /\ Due(r, "copy") /\ PutCopy(r) /\ Called(r, {"copy"}, {})
    /\ UNCHANGED <<request, outcome, got, nFailures>>

\* When the build has been stored, an image that comes with the file is an error.
StartBuild(r) ==
    /\ Due(r, "build") /\ PutBuild(r)
    /\ IF request[r].data.image THEN Close(r, "refused")
       ELSE /\ outcome' = [outcome EXCEPT ![r] = "building"]
            /\ Called(r, {"build"}, {}) /\ UNCHANGED got
    /\ UNCHANGED <<request, nFailures>>

Write(r) ==
    /\ Due(r, "write") /\ PutRecord(r) /\ Close(r, "ok")
    /\ UNCHANGED <<request, nFailures>>

\* A call fails, or the process exits: with the effect of the call or without.
Fail(r) ==
    /\ Open(r) /\ nFailures < MaxFailures /\ nFailures' = nFailures + 1
    /\ \/ UNCHANGED <<store, copies, misled>>
       \/ Due(r, "copy") /\ PutCopy(r)
       \/ Due(r, "build") /\ PutBuild(r)
       \/ Due(r, "write") /\ PutRecord(r)
    /\ Close(r, "failed") /\ UNCHANGED request

-----------------------------------------------------------------------------
(***************************************************************************)
(* Elsewhere: a builder takes a build and ends it, and sets the image of   *)
(* its algorithm; a run ends.                                              *)
(***************************************************************************)
BuildRuns(k) ==
    /\ store[k] # None
    /\ \E s \in {<<"pending", "active">>, <<"active", "completed">>, <<"active", "failed">>} :
          store[k].status = s[1] /\ Put(k, [store[k] EXCEPT !.status = s[2]], None)

ImageBuilt(k) ==
    /\ store[k] # None /\ store[k].status = "active"
    /\ LET a == <<"algorithm", store[k].algorithm>>
       IN  /\ store[a] # None
           /\ Put(a, [store[a] EXCEPT !.image = TRUE, !.pending = FALSE], None)

RunEnds(k) == store[k] # None /\ Put(k, None, None)

Elsewhere ==
    /\ \/ \E k \in BuildKeys : BuildRuns(k) \/ ImageBuilt(k)
       \/ \E k \in RunKeys : RunEnds(k)
    /\ UNCHANGED <<copies, served, nFailures>>

RequestStep(r) ==
    \/ Ask(r) \/ Get(r) \/ ListAlgorithms(r)
    \/ ListUsers(r, "pipelines", PipelineKeys) \/ ListUsers(r, "running", RunKeys)
    \/ Copy(r) \/ StartBuild(r) \/ Write(r) \/ Fail(r)

Next == Elsewhere \/ \E r \in Requests : RequestStep(r)

Spec == Init /\ [][Next]_vars

-----------------------------------------------------------------------------
(***************************************************************************)
(* Properties.                                                             *)
(***************************************************************************)
\* Every key holds a record of its kind or none, also what is copied and what a request has
\* read, and a request that is over holds nothing (state-manager.js).
TypeOK ==
    /\ DOMAIN store = Keys /\ \A k \in Keys : store[k] \in Optional(RecordsOf(k))
    /\ DOMAIN copies = AlgorithmKeys \cup PipelineKeys
    /\ \A k \in DOMAIN copies : copies[k] \in Optional(RecordsOf(k))
    /\ request \in [Requests -> Optional(Request)]
    /\ outcome \in [Requests -> {"new", "open", "building", "ok", "refused", "failed"}]
    /\ DOMAIN done = Requests /\ DOMAIN got = Requests
    /\ \A r \in Requests :
          IF Open(r)
          THEN /\ request[r] # None /\ done[r] \subseteq DOMAIN Calls(request[r].op)
               /\ got[r] \in Optional(RecordsOf(request[r].key))
          ELSE done[r] = {} /\ got[r] = None /\ reads[r] = {}
    /\ reads \in [Requests -> SUBSET Keys] /\ misled \subseteq Requests
    /\ nFailures \in 0..MaxFailures

\* What is stored, copied or run can run to the end: none of its nodes waits for another
\* that never comes.
StoredCanRun ==
    /\ \A k \in PipelineKeys \cup RunKeys : store[k] # None => Runnable(store[k].nodes)
    /\ \A k \in PipelineKeys : copies[k] # None => Runnable(copies[k].nodes)

\* The algorithms of every stored and every running pipeline exist, unless a misled request
\* has written: no sequence of requests, and no failure among them, deletes one in use.
UsedAlgorithmsExist ==
    (\A r \in misled : outcome[r] \notin {"ok", "failed"}) =>
        \A k \in PipelineKeys \cup RunKeys : store[k] # None => AllExist(store, store[k].nodes)

\* The requests that have done one of some operations on a key.
Fulfilled(ops, k) ==
    {r \in Requests : outcome[r] = "ok" /\ request[r].op \in ops /\ request[r].key = k}

CopyingOps == {"insertPipeline", "updatePipeline", "startCronJob", "stopCronJob"}

\* The copy of a new pipeline is made before it is looked up, so that another may have stored
\* the pipeline and copied it, and a third have deleted it, in between.
InsertedLate(r, k) ==
    /\ r \in Fulfilled({"insertPipeline"}, k)
    /\ Fulfilled(CopyingOps, k) \ {r} # {} /\ Fulfilled({"deletePipeline"}, k) # {}

\* A stored pipeline is as its copy, unless a request for it is under way, has failed or was
\* misled, or the pipeline was inserted once more or late.
CopyIsOfStored ==
    \A k \in PipelineKeys : store[k] # None /\ copies[k] # store[k] =>
        \E r \in Requests :
            /\ request[r] # None /\ request[r].key = k
            /\ \/ Open(r) \/ outcome[r] = "failed" \/ r \in misled
               \/ request[r].op = "insertPipeline" /\ outcome[r] = "refused"
               \/ InsertedLate(r, k)

\* The order of versions.
Later(v, w) ==
    \/ v[1] > w[1]
    \/ v[1] = w[1] /\ v[2] > w[2]
    \/ v[1] = w[1] /\ v[2] = w[2] /\ v[3] > w[3]

NextVersion(r, k) ==
    LET q == request[r]
        old == store[q.key]
    IN  /\ outcome[r] = "open" /\ outcome'[r] # "open" /\ r \notin misled
        /\ q.op = "applyAlgorithm" /\ store[k] = None /\ store'[k] # None
        /\ q.data.version = None /\ old # None /\ old.version \notin NotSemver \cup {None}
        /\ \E i \in 1..3 : old.version[i] < MaxPart
        => Later(store'[k].version, old.version)

\* A build of a request that is not misled has a later version than the algorithm has, if
\* the client gives none and not all of its parts are at their limit (_incVersion).
VersionsGrow == [][\A r \in Requests, k \in BuildKeys : NextVersion(r, k)]_vars

Atomic == INSTANCE AtomicStore

\* A request that is not misled is refused without an effect, or is allowed by the store as
\* it is and has its whole effect, at one moment.
AtomicSpec == Atomic!Spec
=============================================================================
