---------------------------- MODULE StoreRecords ----------------------------
(***************************************************************************)
(* The records that the services of the api-server keep in etcd, the       *)
(* requests that change them, what is checked of the record that a request *)
(* has read, and what is written in its place (algorithms.js, builds.js,   *)
(* pipelines.js, cron.js).                                                 *)
(***************************************************************************)
EXTENDS PipelineGraph

CONSTANTS
    Pipelines,      \* names of stored pipelines
    BuildIds,       \* ids of builds
    Requests,       \* the requests that are made
    Runs,           \* ids of runs; a request has one for the run it may start
    Files,          \* checksums of the files of code
    Envs,           \* environments the code is built for
    None,           \* no record, or no value in it
    NotSemver,      \* versions that semver does not parse
    MaxPart         \* 500: where the next part of a version is counted on

ASSUME RecordsAssumption ==
    /\ Requests \subseteq Runs
    /\ NotSemver \cap (Nat \X Nat \X Nat) = {} /\ None \notin NotSemver
    /\ None \notin Nat \X Nat \X Nat
    /\ MaxPart \in Nat

Version == (Nat \X Nat \X Nat) \cup NotSemver
Optional(S) == S \cup {None}

Algorithm == [image : BOOLEAN,              \* algorithmImage is there
              sum : Optional(Files),        \* fileInfo.checksum
              env : Optional(Envs), version : Optional(Version),
              pending : BOOLEAN]            \* options.pending
Pipeline == [nodes : NodeList, cron : {"none", "off", "on"}]
Run == [nodes : NodeList]
BuildStatus == {"pending", "active", "completed", "failed", "stopped"}
Build == [status : BuildStatus, algorithm : Algorithms, version : Optional(Version)]

ASSUME NoneAssumption == None \notin Algorithm \cup Pipeline \cup Run \cup Build

\* The keys of etcd.
AlgorithmKeys == {"algorithm"} \X Algorithms
PipelineKeys == {"pipeline"} \X Pipelines
BuildKeys == {"build"} \X BuildIds
RunKeys == {"run"} \X Runs
Keys == AlgorithmKeys \cup PipelineKeys \cup BuildKeys \cup RunKeys
RecordsOf(k) ==
    CASE k \in AlgorithmKeys -> Algorithm [] k \in PipelineKeys -> Pipeline
      [] k \in BuildKeys -> Build [] k \in RunKeys -> Run

\* What a client sends of an algorithm.  Its options are given by default, so that the
\* flag pending in them is false.
Payload == [image : BOOLEAN, file : Optional(Files), env : Optional(Envs),
            version : Optional(Version)]

Request ==
    [op : {"insertAlgorithm", "updateAlgorithm", "applyAlgorithm"},
     key : AlgorithmKeys, data : Payload]
    \cup [op : {"insertPipeline", "updatePipeline"}, key : PipelineKeys, data : Pipeline]
    \cup [op : {"deleteAlgorithm"}, key : AlgorithmKeys]
    \cup [op : {"deletePipeline", "startCronJob", "stopCronJob", "runStored"},
          key : PipelineKeys]
    \cup [op : {"stopBuild", "rerunBuild"}, key : BuildKeys]

\* What a request writes: its record, or for runStored a run.
Target(r, q) == IF q.op = "runStored" THEN <<"run", r>> ELSE q.key

-----------------------------------------------------------------------------
(***************************************************************************)
(* Builds.                                                                 *)
(***************************************************************************)
ResolveEnv(old, new) ==
    IF new.env # None THEN new.env ELSE IF old # None THEN old.env ELSE None

\* createBuild: a file is built if it is the first, or if it or the environment differs.
ShouldBuild(old, new) ==
    /\ new.file # None
    /\ old = None \/ old.sum # new.file \/ old.env # ResolveEnv(old, new)

\* mutant: the first part is not counted on when the others are at their limit.
IncrementedOn(v) ==
    CASE v[3] < MaxPart -> <<v[1], v[2], v[3] + 1>>
      [] v[3] >= MaxPart /\ v[2] < MaxPart -> <<v[1], v[2] + 1, 0>>
      [] OTHER -> <<v[1], 0, 0>>

\* semver.inc of the first part that may be counted on, from the right; none when all are
\* at their limit.
Incremented(v) ==
    CASE v[3] < MaxPart -> <<v[1], v[2], v[3] + 1>>
      [] v[3] >= MaxPart /\ v[2] < MaxPart -> <<v[1], v[2] + 1, 0>>
      [] v[3] >= MaxPart /\ v[2] >= MaxPart /\ v[1] < MaxPart -> <<v[1] + 1, 0, 0>>
      [] OTHER -> None

IncVersion(old, new) ==
    LET version == IF old = None THEN None ELSE old.version
    IN  CASE new.version # None -> new.version
          [] new.version = None /\ version = None -> <<1, 0, 0>>
          [] new.version = None /\ version \in NotSemver -> version
          [] OTHER -> Incremented(version)

\* mutant: startBuild stores the build without a status.
NewBuildUnset(q, old) ==
    [status |-> None, algorithm |-> q.key[2], version |-> IncVersion(old, q.data)]

NewBuild(q, old) ==
    [status |-> "pending", algorithm |-> q.key[2], version |-> IncVersion(old, q.data)]

ActiveStates == {"pending", "active"}

-----------------------------------------------------------------------------
(***************************************************************************)
(* What a request writes in place of the record it has read.               *)
(***************************************************************************)
Stored(new) == [image |-> new.image, sum |-> None, env |-> new.env,
                version |-> new.version, pending |-> FALSE]

\* applyAlgorithm: what is given goes over what was there.  A build sets the version, also
\* when there is no next one: the algorithm is then without.
Over(given, was) == IF given # None THEN given ELSE was

NoAlgorithm == Stored([image |-> FALSE, file |-> None, env |-> None, version |-> None])

Applied(old, new) ==
    LET was == IF old = None THEN NoAlgorithm ELSE old
        image == new.image \/ was.image
    IN  [image |-> image, sum |-> Over(new.file, was.sum), env |-> Over(new.env, was.env),
         version |-> IF ShouldBuild(old, new) THEN IncVersion(old, new)
                                              ELSE Over(new.version, was.version),
         pending |-> ~image /\ ShouldBuild(old, new)]

\* Switching a cron job, running a pipeline, stopping a build and running it again.
Toggled(old, toggle) == [old EXCEPT !.cron = toggle]
RunOf(old) == [nodes |-> old.nodes]
StoppedBuild(old) == [old EXCEPT !.status = "stopped"]
StartedAgain(old) == [old EXCEPT !.status = "pending"]

\* The record after a request that was allowed, where old is the one it replaces.
Result(q, old) ==
    CASE q.op \in {"insertAlgorithm", "updateAlgorithm"} -> Stored(q.data)
      [] q.op = "applyAlgorithm" -> Applied(old, q.data)
      [] q.op \in {"insertPipeline", "updatePipeline"} -> q.data
      [] q.op \in {"deleteAlgorithm", "deletePipeline"} -> None
      [] q.op = "startCronJob" -> Toggled(old, "on")
      [] q.op = "stopCronJob" -> Toggled(old, "off")
      [] q.op = "runStored" -> RunOf(old)
      [] q.op = "stopBuild" -> StoppedBuild(old)
      [] q.op = "rerunBuild" -> StartedAgain(old)

-----------------------------------------------------------------------------
(***************************************************************************)
(* What is checked of a request, and of the record when it has been read.  *)
(***************************************************************************)
ValidRequest(q) == q.op \in {"insertPipeline", "updatePipeline"} => ValidNodes(q.data.nodes)

\* applyAlgorithm: without a file there has to be an image, and with one an environment.
CanApply(old, new) ==
    IF new.file = None THEN new.image \/ (old # None /\ old.image) ELSE ResolveEnv(old, new) # None

CanStop(old) == old # None /\ old.status \in ActiveStates
CanRunAgain(old) == old # None /\ old.status \notin ActiveStates

Accepted(q, old) ==
    CASE q.op \in {"insertAlgorithm", "insertPipeline"} -> old = None
      [] q.op = "applyAlgorithm" -> CanApply(old, q.data)
      [] q.op = "stopBuild" -> CanStop(old)
      [] q.op = "rerunBuild" -> CanRunAgain(old)
      [] OTHER -> old # None

\* The nodes whose algorithms have to exist (validateAlgorithmName).
CheckedNodes(q, old) == IF q.op = "runStored" THEN old.nodes ELSE q.data.nodes

AllExist(store, nodes) == \A a \in Used(nodes) : store[<<"algorithm", a>>] # None

\* The pipelines and the runs that use an algorithm.
UsersOf(store, keys, a) == {k \in keys : store[k] # None /\ a \in Used(store[k].nodes)}
=============================================================================
