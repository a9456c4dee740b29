---------------------------- MODULE AtomicStore ----------------------------
(***************************************************************************)
(* What a client expects of the store of algorithms, pipelines and builds: *)
(* a request is refused, and changes nothing, or it is allowed by the      *)
(* store as it is and has its whole effect, at one moment.  Only applying  *)
(* an algorithm takes two moments, its build being stored before.          *)
(*                                                                         *)
(* The services promise that only to a request that nobody interferes      *)
(* with: one that is misled, because something it had read was written by  *)
(* another before it was served, may write what it likes in its own record.*)
(* A request that fails may have had its effect, or a part of it.          *)
(***************************************************************************)
EXTENDS StoreRecords

CONSTANTS
    First,      \* the stores to begin with
    Asked       \* the requests that clients make

VARIABLES store, request, outcome, misled

vars == <<store, request, outcome, misled>>

Init ==
    /\ store \in First
    /\ request = [r \in Requests |-> None] /\ outcome = [r \in Requests |-> "new"]
    /\ misled = {}

Allowed(q) ==
    /\ Accepted(q, store[q.key])
    /\ q.op \in {"insertPipeline", "updatePipeline", "runStored"} =>
           AllExist(store, CheckedNodes(q, store[q.key]))
    /\ q.op = "deleteAlgorithm" => UsersOf(store, PipelineKeys \cup RunKeys, q.key[2]) = {}

\* Something goes on, and more requests may be misled.
Outcome(r, o) ==
    /\ outcome' = [outcome EXCEPT ![r] = o]
    /\ misled \subseteq misled' /\ UNCHANGED request

Ask(r) ==
    /\ outcome[r] = "new"
    /\ \E q \in Asked :
        /\ request' = [request EXCEPT ![r] = q]
        /\ outcome' = [outcome EXCEPT ![r] = IF ValidRequest(q) THEN "open" ELSE "refused"]
    /\ UNCHANGED <<store, misled>>

Built(r) ==
    /\ outcome[r] = "open" /\ request[r].op = "applyAlgorithm"
    /\ LET q == request[r]
           old == store[q.key]
       IN  /\ Accepted(q, old) /\ ShouldBuild(old, q.data)
           /\ \E k \in BuildKeys :
                /\ store[k] = None
                /\ store' = [store EXCEPT ![k] = NewBuild(q, old)]

Served(r) ==
    LET q == request[r]
        old == store[q.key]
    IN  /\ Allowed(q)
        /\ q.op = "applyAlgorithm" => (outcome[r] = "building" <=> ShouldBuild(old, q.data))
        /\ store' = [store EXCEPT ![Target(r, q)] = Result(q, old)]

\* A file that is built for an algorithm with an image is refused when its build is stored.
StartBuild(r) ==
    /\ r \notin misled /\ Built(r)
    /\ Outcome(r, IF request[r].data.image THEN "refused" ELSE "building")

Serve(r) ==
    /\ r \notin misled /\ outcome[r] \in {"open", "building"}
    /\ Served(r) /\ Outcome(r, "ok")

Refuse(r) ==
    /\ r \notin misled /\ outcome[r] = "open"
    /\ ~Allowed(request[r])
    /\ UNCHANGED store /\ Outcome(r, "refused")

Fail(r) ==
    /\ r \notin misled /\ outcome[r] \in {"open", "building"}
    /\ Built(r) \/ Served(r) \/ UNCHANGED store
    /\ Outcome(r, "failed")

\* A misled request writes its own record or a new build.
Mislead(r) ==
    /\ r \in misled /\ outcome[r] \in {"open", "building"}
    /\ \/ UNCHANGED store
       \/ \E k \in {Target(r, request[r])} \cup {b \in BuildKeys : store[b] = None} :
             store' = [store EXCEPT ![k] = store'[k]]
    /\ \E o \in {"building", "ok", "refused", "failed"} : Outcome(r, o)

\* Builds go on and set the image of their algorithm, and runs end.
BuildRuns(k) ==
    /\ store[k] # None
    /\ \E s \in {<<"pending", "active">>, <<"active", "completed">>, <<"active", "failed">>} :
        /\ store[k].status = s[1]
        /\ store' = [store EXCEPT ![k].status = s[2]]

ImageBuilt(k) ==
    /\ store[k] # None /\ store[k].status = "active"
    /\ LET a == <<"algorithm", store[k].algorithm>>
       IN  /\ store[a] # None
           /\ store' = [store EXCEPT ![a].image = TRUE, ![a].pending = FALSE]

RunEnds(k) == store[k] # None /\ store' = [store EXCEPT ![k] = None]

Elsewhere ==
    /\ \/ \E k \in BuildKeys : BuildRuns(k) \/ ImageBuilt(k)
       \/ \E k \in RunKeys : RunEnds(k)
    /\ misled \subseteq misled' /\ UNCHANGED <<request, outcome>>

IsMisled == misled \subseteq misled' /\ UNCHANGED <<store, request, outcome>>

Next ==
    \/ \E r \in Requests :
          Ask(r) \/ StartBuild(r) \/ Serve(r) \/ Refuse(r) \/ Fail(r) \/ Mislead(r)
    \/ Elsewhere \/ IsMisled

Spec == Init /\ [][Next]_vars
=============================================================================
