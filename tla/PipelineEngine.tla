--------------------------- MODULE PipelineEngine ---------------------------
(***************************************************************************)
(* execute_pipeline of backend/app/services/pipeline/engine.py: validate a *)
(* definition, sort its nodes with Kahn's algorithm, execute them in that  *)
(* order with the outputs of their upstream nodes.                         *)
(*                                                                         *)
(* A definition is the JSON a client saved: a list of nodes, whose ids may *)
(* repeat, and a list of edges, whose ends may name no node.  An edge has  *)
(* the keys of one of two vocabularies, "to" (templates, vertical packs)   *)
(* or "target" (the builder).  A node has at most one required input; an   *)
(* edge into the node is for that input or for another port.               *)
(***************************************************************************)
EXTENDS Integers, Sequences, FiniteSets

CONSTANTS
    Ids,           \* node ids
    Ghost,         \* an id no node has
    Vocabularies,  \* the edge keys that occur: a subset of {"to", "target"}
    Types,         \* the node types that occur
    MaxNodes,      \* bound: nodes of a definition
    MaxEdges       \* bound: edges of a definition

\* Bound: a definition has at most one oddity, a node that is not plain or an
\* edge that is not a "to" edge between ids; a needy node may come with one edge
\* for another port.  Loops, parallel edges and repeated ids are not counted.

\* "needy" has a required input that params leave out; "unknown" is not in
\* NODE_REGISTRY.
ASSUME EngineAssumption ==
    /\ Ghost \notin Ids
    /\ Vocabularies \subseteq {"to", "target"}
    /\ Types \subseteq {"plain", "needy", "unknown"}
    /\ MaxNodes \in Nat
    /\ MaxEdges \in Nat

VARIABLES
    nodes,    \* definition["nodes"]
    edges,    \* definition["edges"]
    phase,    \* where execute_pipeline is
    degree,   \* in_degree
    queue,    \* the deque of nodes without an unsorted predecessor
    order,    \* the nodes sorted so far
    results   \* node_results: what each executed node returned

vars == <<nodes, edges, phase, degree, queue, order, results>>

Nodes == [id : Ids, type : Types]
Edges == [src : Ids \cup {Ghost}, dst : Ids \cup {Ghost}, keys : Vocabularies,
          port : {"required", "other"}]

SeqsUpTo(S, n) == UNION {[1 .. k -> S] : k \in 0 .. n}
WithOne(odd, S, n) ==
    {[s EXCEPT ![i] = x] : s \in SeqsUpTo(S, n), i \in 1 .. n, x \in odd}

PlainNodes == {node \in Nodes : node.type = "plain"}
NeedyNodes == {node \in Nodes : node.type = "needy"}
OrdinaryEdges == {e \in Edges : e.keys = "to" /\ Ghost \notin {e.src, e.dst}}
PlainEdges == {e \in OrdinaryEdges : e.port = "required"}
Misdirected == OrdinaryEdges \ PlainEdges
OddEdges == {e \in Edges \ OrdinaryEdges : e.port = "required"}
Elements(seq) == {seq[i] : i \in DOMAIN seq}
NodeIds == {node.id : node \in Elements(nodes)}

(***************************************************************************)
(* Validation other than the sort                                          *)
(***************************************************************************)
EdgesKnown == \A e \in Elements(edges) : {e.src, e.dst} \subseteq NodeIds

TypesKnown == \A node \in Elements(nodes) : node.type # "unknown"

\* Mutant of Feeds: the edges out of the node count.
FeedsBackwards(e, id) == e.keys = "to" /\ e.src = id /\ e.port = "required"

\* has_incoming_edge looks for the key "to" alone, and for the input's port.
Feeds(e, id) == e.keys = "to" /\ e.dst = id /\ e.port = "required"

RequiredFilled ==
    \A node \in Elements(nodes) :
        node.type = "needy" => \E e \in Elements(edges) : Feeds(e, node.id)

(***************************************************************************)
(* Kahn's algorithm                                                        *)
(***************************************************************************)
Indegree(id) == Cardinality({i \in DOMAIN edges : edges[i].dst = id})

InDict == NodeIds \cup {e.dst : e \in Elements(edges)}

\* A set of positions as a sequence, in ascending order.
InOrder(I) ==
    [k \in 1 .. Cardinality(I) |->
        CHOOSE i \in I : Cardinality({j \in I : j <= i}) = k]

\* The ids without a predecessor in the dict's order: by the first node that has
\* the id.  A target no node has was added by its edge and has a predecessor.
RootAt(i, d) ==
    /\ d[nodes[i].id] = 0
    /\ \A j \in 1 .. i - 1 : nodes[j].id # nodes[i].id

Roots(d) ==
    LET at == InOrder({i \in DOMAIN nodes : RootAt(i, d)})
    IN  [k \in DOMAIN at |-> nodes[at[k]].id]

Count(src, dst, upto) ==
    Cardinality({i \in 1 .. upto : edges[i].src = src /\ edges[i].dst = dst})

\* The edge whose decrement brings its target to zero frees the target.
FreedBy(i, id) ==
    edges[i].src = id /\ degree[edges[i].dst] = Count(id, edges[i].dst, i)

\* Mutant of Freed: a target is queued by its first edge.
FreedByFirstEdge(id) ==
    LET at == InOrder({i \in DOMAIN edges :
                           edges[i].src = id /\ Count(id, edges[i].dst, i) = 1})
    IN  [k \in DOMAIN at |-> edges[at[k]].dst]

Freed(id) ==
    LET at == InOrder({i \in DOMAIN edges : FreedBy(i, id)})
    IN  [k \in DOMAIN at |-> edges[at[k]].dst]

Sort ==
    /\ phase = "sorting"
    /\ queue # <<>>
    /\ LET id == Head(queue)
       IN  /\ order' = Append(order, id)
           /\ queue' = Tail(queue) \o Freed(id)
           /\ degree' = [n \in DOMAIN degree |->
                            degree[n] - Count(id, n, Len(edges))]
    /\ UNCHANGED <<nodes, edges, phase, results>>

\* Mutants of Cyclic: ids are counted once, and the check dropped.
IdLeftOver == Len(order) < Cardinality(NodeIds)
NeverCyclic == FALSE

\* A cycle is inferred from the length of the order alone.
Cyclic == Len(order) # Len(nodes)

\* validate_pipeline returns; execute_pipeline sorts again, to the same order,
\* and builds the incoming edges by the key "to", which raises KeyError for an
\* edge of the other vocabulary.
Validate ==
    /\ phase = "sorting"
    /\ queue = <<>>
    /\ phase' = CASE Cyclic -> "cyclic"
                  [] ~Cyclic /\ ~(EdgesKnown /\ TypesKnown /\ RequiredFilled)
                         -> "invalid"
                  [] ~Cyclic /\ EdgesKnown /\ TypesKnown /\ RequiredFilled
                         -> IF \E e \in Elements(edges) : e.keys # "to"
                            THEN "KeyError" ELSE "executing"
    /\ UNCHANGED <<nodes, edges, degree, queue, order, results>>

(***************************************************************************)
(* Execution.  A node returns outputs or an "error"; an exception ends the *)
(* run.                                                                    *)
(***************************************************************************)
\* Mutants of Current: the loop does not advance; it goes over the definition.
FirstOfOrder == order[1]
InDefinitionOrder == nodes[Cardinality(DOMAIN results) + 1].id

Current == order[Cardinality(DOMAIN results) + 1]

ExecuteNode ==
    /\ phase = "executing"
    /\ Cardinality(DOMAIN results) < Len(order)
    /\ \E result \in {"outputs", "error"} :
           results' = [id \in DOMAIN results \cup {Current} |->
                          IF id = Current THEN result ELSE results[id]]
    /\ UNCHANGED <<nodes, edges, phase, degree, queue, order>>

NodeRaises ==
    /\ phase = "executing"
    /\ Cardinality(DOMAIN results) < Len(order)
    /\ phase' = "raised"
    /\ UNCHANGED <<nodes, edges, degree, queue, order, results>>

Return ==
    /\ phase = "executing"
    /\ Cardinality(DOMAIN results) = Len(order)
    /\ phase' = IF "error" \in Elements(results) THEN "failed" ELSE "completed"
    /\ UNCHANGED <<nodes, edges, degree, queue, order, results>>

(***************************************************************************)
(* A definition with no nodes is refused before anything else.             *)
(***************************************************************************)
Init ==
    /\ \/ /\ nodes \in SeqsUpTo(PlainNodes, MaxNodes)
          /\ edges \in SeqsUpTo(PlainEdges, MaxEdges)
       \/ /\ nodes \in WithOne(Nodes \ PlainNodes, PlainNodes, MaxNodes)
          /\ edges \in SeqsUpTo(PlainEdges, MaxEdges)
       \/ /\ nodes \in SeqsUpTo(PlainNodes, MaxNodes)
          /\ edges \in WithOne(OddEdges, PlainEdges, MaxEdges)
       \/ /\ nodes \in WithOne(NeedyNodes, PlainNodes, MaxNodes)
          /\ edges \in WithOne(Misdirected, PlainEdges, MaxEdges)
    /\ phase = IF nodes = <<>> THEN "invalid" ELSE "sorting"
    /\ degree = [id \in InDict |-> Indegree(id)]
    /\ queue = Roots(degree)
    /\ order = <<>>
    /\ results = [id \in {} |-> "outputs"]

Next == Sort \/ Validate \/ ExecuteNode \/ NodeRaises \/ Return

Spec == Init /\ [][Next]_vars /\ WF_vars(Next)

(***************************************************************************)
(* Properties                                                              *)
(***************************************************************************)
Ended == {"invalid", "cyclic", "KeyError", "raised", "failed", "completed"}

TypeOK ==
    /\ phase \in Ended \cup {"sorting", "executing"}
    /\ DOMAIN degree \subseteq Ids \cup {Ghost}
    /\ \A id \in DOMAIN degree : degree[id] \in Nat
    /\ Elements(queue) \cup Elements(order) \subseteq DOMAIN degree \cup {Ghost}
    /\ Elements(results) \subseteq {"outputs", "error"}

Distinct == \A i, j \in DOMAIN nodes : nodes[i].id = nodes[j].id => i = j

\* Reference definition of a cycle: nodes that all have a predecessor among
\* them.
HasCycle ==
    \E S \in SUBSET NodeIds : /\ S # {}
                             /\ \A id \in S : \E e \in Elements(edges) :
                                    e.dst = id /\ e.src \in S

\* Of the definitions in the "to" vocabulary the engine executes exactly those
\* that satisfy the reference definition of a valid pipeline: known types and
\* ends, distinct ids, no cycle, every required input fed (validate_pipeline).
Acceptable ==
    /\ nodes # <<>> /\ Distinct /\ ~HasCycle
    /\ TypesKnown /\ EdgesKnown
    /\ \A i \in DOMAIN nodes :
           nodes[i].type = "needy" =>
               \E j \in DOMAIN edges : /\ edges[j].dst = nodes[i].id
                                       /\ edges[j].port = "required"
Verdict == IF phase \in {"invalid", "cyclic"} THEN "refused" ELSE "accepted"
VerdictIsRight ==
    /\ \A e \in Elements(edges) : e.keys = "to"
    /\ phase # "sorting"
    => Verdict = IF Acceptable THEN "accepted" ELSE "refused"

\* A node runs after every node it takes an input from, so its inputs hold
\* their outputs (execute_pipeline, "overlay upstream outputs").
UpstreamFirst ==
    phase = "executing" /\ Cardinality(DOMAIN results) < Len(order) =>
        \A e \in Elements(edges) : e.dst = Current => e.src \in DOMAIN results

\* A run that completed has executed every node without an error, and one that
\* failed has executed every node too: one node's error stops no other.
EveryNodeExecuted ==
    phase \in {"completed", "failed"} =>
        /\ DOMAIN results = NodeIds
        /\ phase = "completed" <=> \A id \in NodeIds : results[id] = "outputs"

\* execute_pipeline returns or raises for every definition.
Terminates == <>(phase \in Ended)

\* "Two vocabularies reach this engine" (_edge_endpoints): neither makes it
\* fail on its keys.
BothVocabularies == phase # "KeyError"
=============================================================================
