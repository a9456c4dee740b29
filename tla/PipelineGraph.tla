---------------------------- MODULE PipelineGraph ----------------------------
(***************************************************************************)
(* The graph of a pipeline's nodes, and what the api-server accepts of it  *)
(* (_validateNodes, api-validator.js).  A node has a name, the algorithm   *)
(* that does its work, and the names of the nodes its input refers to.     *)
(***************************************************************************)
EXTENDS Naturals, Sequences

CONSTANTS NodeNames, Algorithms

Node == [name : NodeNames, inputs : SUBSET NodeNames, algorithm : Algorithms]
NodeList == Seq(Node)

Names(nodes) == {nodes[i].name : i \in DOMAIN nodes}
Used(nodes) == {nodes[i].algorithm : i \in DOMAIN nodes}

\* An edge from every node that an input refers to.
Links(nodes) == {l \in NodeNames \X NodeNames :
                    \E i \in DOMAIN nodes : nodes[i].name = l[2] /\ l[1] \in nodes[i].inputs}

\* graphlib's alg.isAcyclic: the nodes can be numbered along the edges.
IsAcyclic(nodes) ==
    \E rank \in [Names(nodes) -> DOMAIN nodes] : \A l \in Links(nodes) : rank[l[1]] < rank[l[2]]

\* mutant: cycles are not looked for.
ValidButCyclic(nodes) ==
    /\ \A i, k \in DOMAIN nodes : nodes[i].name = nodes[k].name => i = k
    /\ "flowInput" \notin Names(nodes)
    /\ \A i \in DOMAIN nodes : nodes[i].inputs \subseteq Names(nodes)

\* _validateNodes: no name is used twice or reserved, every node that an input refers to
\* exists, and there is no cycle.
ValidNodes(nodes) ==
    /\ \A i, k \in DOMAIN nodes : nodes[i].name = nodes[k].name => i = k
    /\ "flowInput" \notin Names(nodes)
    /\ \A i \in DOMAIN nodes : nodes[i].inputs \subseteq Names(nodes)
    /\ IsAcyclic(nodes)

\* Nodes that can run to the end: whichever of them are done, if some are left then all
\* that the input of one of these refers to is done.
Runnable(nodes) ==
    \A done \in SUBSET Names(nodes) :
        done # Names(nodes) =>
            \E i \in DOMAIN nodes : nodes[i].name \notin done /\ nodes[i].inputs \subseteq done
=============================================================================
