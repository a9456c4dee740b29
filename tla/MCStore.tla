------------------------------ MODULE MCStore ------------------------------
(***************************************************************************)
(* The instance of Store that TLC checks: an algorithm that is there or    *)
(* not, a pipeline with one of two lists of nodes, a run and a build; parts*)
(* of a version are counted up to 1.                                       *)
(***************************************************************************)
EXTENDS Store, TLC

CONSTANTS r0, a1, a2, p1, b1, b2, f1, f2, e1, odd

Node1(inputs) == [name |-> "n1", inputs |-> inputs, algorithm |-> a1]
Node2(inputs) == [name |-> "n2", inputs |-> inputs, algorithm |-> a2]
Plain == <<Node1({})>>
Chain == <<Node1({"n2"}), Node2({})>>
Cycle == <<Node1({"n2"}), Node2({"n1"})>>

Alg(image, sum, version) ==
    [image |-> image, sum |-> sum, env |-> IF sum = None THEN None ELSE e1,
     version |-> version, pending |-> FALSE]

NoStore == [k \in Keys |-> None]

MCFirst ==
    {[NoStore EXCEPT ![<<"algorithm", a1>>] = a, ![<<"algorithm", a2>>] = Alg(TRUE, None, None),
                     ![<<"pipeline", p1>>] = p, ![<<"build", b1>>] = b] :
        a \in {Alg(TRUE, None, odd), Alg(FALSE, f1, <<0, 1, 1>>), Alg(TRUE, f1, <<1, 1, 1>>)},
        p \in {None, [nodes |-> Plain, cron |-> "off"]},
        b \in {None, [status |-> "active", algorithm |-> a1, version |-> <<0, 1, 1>>]}}
    \cup {[NoStore EXCEPT ![<<"algorithm", a2>>] = Alg(TRUE, None, None)],
          [NoStore EXCEPT ![<<"algorithm", a1>>] = Alg(TRUE, None, None),
                          ![<<"algorithm", a2>>] = Alg(TRUE, None, None),
                          ![<<"pipeline", p1>>] = [nodes |-> Plain, cron |-> "on"],
                          ![<<"run", r0>>] = [nodes |-> Chain]]}

Data(image, file, env, version) ==
    [image |-> image, file |-> file, env |-> env, version |-> version]

MCAsked ==
    {[op |-> "insertAlgorithm", key |-> <<"algorithm", a1>>, data |-> Data(TRUE, None, None, None)],
     [op |-> "updateAlgorithm", key |-> <<"algorithm", a1>>, data |-> Data(TRUE, None, None, None)]}
    \cup [op : {"deleteAlgorithm"}, key : {<<"algorithm", a1>>, <<"algorithm", a2>>}]
    \cup {[op |-> "applyAlgorithm", key |-> <<"algorithm", a1>>, data |-> d] :
            d \in {Data(FALSE, f2, e1, None), Data(TRUE, f2, e1, <<0, 0, 1>>),
                   Data(FALSE, None, None, None), Data(FALSE, f1, None, None)}}
    \cup [op : {"insertPipeline", "updatePipeline"}, key : PipelineKeys,
          data : {[nodes |-> Chain, cron |-> "none"], [nodes |-> Cycle, cron |-> "none"]}]
    \cup [op : {"deletePipeline", "startCronJob", "stopCronJob", "runStored"}, key : PipelineKeys]
    \cup [op : {"stopBuild", "rerunBuild"}, key : {<<"build", b1>>}]

Symmetry == Permutations(Requests)
=============================================================================
