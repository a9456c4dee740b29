---------------------------- MODULE WorkerStates ----------------------------
(***************************************************************************)
(* The finite state machine of a worker: its states, the transitions that  *)
(* stateManager.js configures, and the state a request for a transition    *)
(* leads to.  "shutdown" and "error" are configured although no code       *)
(* requests the transitions into them.                                     *)
(***************************************************************************)

States == {"bootstrap", "ready", "init", "working", "shutdown", "error",
           "stop", "results", "exit"}

\* Faulty variants: an answer is taken in results too; none is taken in init.
FromResultsToo ==
    [bootstrap |-> {"bootstrap"}, prepare |-> {"ready"}, start |-> {"init"},
     done |-> {"shutdown", "working", "stop", "init", "results"},
     cleanup |-> {"results"}, stop |-> States, exit |-> States]

FromWithoutInit ==
    [bootstrap |-> {"bootstrap"}, prepare |-> {"ready"}, start |-> {"init"},
     done |-> {"shutdown", "working", "stop"},
     cleanup |-> {"results"}, stop |-> States, exit |-> States]

\* The states each transition may start from ('*' is every state).
From == [bootstrap |-> {"bootstrap"},
         prepare   |-> {"ready"},
         start     |-> {"init"},
         done      |-> {"shutdown", "working", "stop", "init"},
         cleanup   |-> {"results"},
         stop      |-> States,
         exit      |-> States]

\* The state each transition ends in.
To == [bootstrap |-> "ready", prepare |-> "init", start |-> "working",
       done |-> "results", cleanup |-> "ready", stop |-> "stop", exit |-> "exit"]

Transitions == {"bootstrap", "prepare", "start", "done", "cleanup", "stop", "exit"}

\* Faulty variant: the machine takes the name of a transition it refuses for a state.
TargetByName(t, s, debug) ==
    IF s \in From[t] THEN To[t] ELSE IF debug THEN s ELSE t

\* Where requesting transition t in state s leads: onInvalidTransition exits
\* the worker when t is not configured for s, and does nothing in debug mode.
Target(t, s, debug) ==
    IF s \in From[t] THEN To[t] ELSE IF debug THEN s ELSE "exit"
=============================================================================
