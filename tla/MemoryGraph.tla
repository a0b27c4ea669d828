---------------------------- MODULE MemoryGraph -----------------------------
(***************************************************************************)
(* The graph over the memories of one database: typed edges that agents    *)
(* link and unlink, and their traversal (graph.py); and the graph channel  *)
(* of search, which ranks memories by their distance from the entities of  *)
(* a query (graph_channel.py).                                             *)
(*                                                                         *)
(* Each call reads and writes in one go: the tools of a process do not     *)
(* overlap, and no other process writes while one of them runs.  Texts are *)
(* reduced to which entities a query names and which mentions contain one  *)
(* of its words.  Which extraction and which dedup pass wrote mentions,    *)
(* relations and canonical_id is in Entities.                              *)
(***************************************************************************)
EXTENDS Integers, FiniteSets, FiniteSetsExt

CONSTANTS
    Memory, Entity, None,
    Relation,              \* names of relations, of edges and between entities
    Weight, TypeBonus,     \* RELATION_WEIGHTS, AUTO_TYPE_BONUS, in tenths
    Curve,                 \* "linear", "harmonic" or "type-weighted"
    Named, Heard,          \* entities the query names; mentions with a word of it
    Mentions,              \* the mentions the extractions have written
    DepthCap, MaxDepth,    \* DEFAULT_DEPTH_CAP; the depth a traversal may ask for
    Start, MaxFacts        \* bounds: where traversals start, changes of the graph

ASSUME Graphs == /\ Named \subseteq Entity /\ Heard \subseteq Mentions
                 /\ Mentions \subseteq Memory \X Entity
                 /\ Curve \in {"linear", "harmonic", "type-weighted"}
ASSUME Ranked == /\ IsFiniteSet(Memory) /\ IsFiniteSet(Relation) /\ DepthCap \in Nat
                 /\ {Weight, TypeBonus} \subseteq [Relation -> Nat \ {0}]
                 /\ None \notin [distance : Nat, table : {"seed", "edges", "relations"},
                                type : Relation \cup {None}]

VARIABLES
    rows,        \* memories that exist
    edges,       \* edges: <<source, relation, target>>
    relations,   \* relations between entities, likewise
    canon,       \* entities.canonical_id
    found,       \* what the last traversal was asked and what it found, or None
    facts

graphVars == <<rows, edges, relations, canon>>
vars      == <<graphVars, found, facts>>

\* ON DELETE CASCADE: a memory's mentions go with it.
mentions == {x \in Mentions : x[1] \in rows}

Init ==
    /\ rows = Memory /\ edges = {} /\ relations = {}
    /\ canon = [e \in Entity |-> None]
    /\ found = None /\ facts = 0

-----------------------------------------------------------------------------
(* Changes of the graph *)

Change == facts < MaxFacts /\ facts' = facts + 1 /\ found' = None

\* link: both ends exist and differ; an edge that exists is updated.
Link(s, r, t) ==
    /\ Change
    /\ {s, t} \subseteq rows /\ s # t
    /\ edges' = edges \cup {<<s, r, t>>}
    /\ UNCHANGED <<rows, relations, canon>>

\* link(delete=True)
Unlink(x) ==
    /\ Change
    /\ edges' = edges \ {x}
    /\ UNCHANGED <<rows, relations, canon>>

\* delete of a memory: its edges and mentions cascade.
Delete(m) ==
    /\ Change
    /\ rows' = rows \ {m}
    /\ edges' = {x \in edges : m \notin {x[1], x[3]}}
    /\ UNCHANGED <<relations, canon>>

\* An extraction relates two entities; a dedup pass merges one into another.
Relate(e, r, f) ==
    /\ Change
    /\ relations' = relations \cup {<<e, r, f>>}
    /\ UNCHANGED <<rows, edges, canon>>
Merge(e, f) ==
    /\ Change
    /\ e # f /\ canon[e] = None
    /\ canon' = [canon EXCEPT ![e] = f]
    /\ UNCHANGED <<rows, edges, relations>>

-----------------------------------------------------------------------------
(* sage_memory_graph *)

\* The edges read at a node.  AND binds tighter than OR in the SQL for "both".
Incident(n, dir, r) ==
    {x \in edges : CASE dir = "outbound" -> x[1] = n /\ r \in {None, x[2]}
                     [] dir = "inbound"  -> x[3] = n /\ r \in {None, x[2]}
                     [] dir = "both"     -> x[1] = n \/ (x[3] = n /\ r \in {None, x[2]})}

OtherEnd(x, n, dir) ==
    CASE dir = "outbound" -> x[3] [] dir = "inbound" -> x[1]
      [] dir = "both" -> IF x[1] = n THEN x[3] ELSE x[1]

\* The queue, level by level: nodes seen, edges seen, and the nodes of the last
\* level, which are looked at once.
Level(at, dir, r) ==
    LET next == UNION {{OtherEnd(x, n, dir) : x \in Incident(n, dir, r) \ at.edges} : n \in at.level}
    IN  [seen  |-> at.seen \cup next,
         edges |-> at.edges \cup UNION {Incident(n, dir, r) : n \in at.level},
         level |-> next \ at.seen]
Walk(m, dir, r) ==
    LET W[d \in Nat] == IF d = 0 THEN [seen |-> {m}, edges |-> {}, level |-> {m}]
                        ELSE Level(W[d - 1], dir, r)
    IN  W

\* Mutant: a node at the depth asked for is still expanded.
GraphTooDeep(m, dir, r, depth) ==
    /\ m \in rows
    /\ found' = [from |-> m, dir |-> dir, relation |-> r, depth |-> depth,
                 nodes |-> Walk(m, dir, r)[depth + 1].seen \ {m},
                 edges |-> Walk(m, dir, r)[depth + 1].edges]
    /\ UNCHANGED <<graphVars, facts>>

\* graph(): what it returns; the access counters of the nodes go up.
Graph(m, dir, r, depth) ==
    /\ m \in rows
    /\ found' = [from |-> m, dir |-> dir, relation |-> r, depth |-> depth,
                 nodes |-> Walk(m, dir, r)[depth].seen \ {m},
                 edges |-> Walk(m, dir, r)[depth].edges]
    /\ UNCHANGED <<graphVars, facts>>

-----------------------------------------------------------------------------
(* The graph channel *)

C(e) == IF canon[e] = None THEN e ELSE canon[e]

\* _seed_entities_from_query, by name and by surface form.
Seeds == {C(e) : e \in Named} \cup {C(x[2]) : x \in mentions \cap Heard}
Mentioning(s) == {x[1] : x \in {y \in mentions : C(y[2]) = s}}

\* One hop by a relation of entities, or along an edge: where to, and by what.
Mediated(m) ==
    UNION {{<<y[1], x[2]>> : y \in {y \in mentions : y[1] # m /\ y[2] \in {C(x[3]), x[3]}}} :
       x \in {x \in relations : \E e \in Entity : <<m, e>> \in mentions /\ x[1] \in {C(e), e}}}
Direct(m) == {<<x[3], x[2]>> : x \in {y \in edges : y[1] = m}}

\* _rank_for in thousandths: the distance, and the last hop's weight.
Cost(d, tenths) == ((IF Curve = "harmonic" THEN MapThenSumSet(LAMBDA i : 1000 \div i, 1..d)
                     ELSE 1000 * d) * 100) \div tenths
RankOf(h) ==
    IF h.distance = 0 THEN 1000
    ELSE 1000 + Cost(h.distance,
           CASE h.table = "edges" -> IF Curve = "type-weighted" THEN 12 * 15 ELSE 120
             [] h.table = "relations" ->
                  Weight[h.type] * (IF Curve = "type-weighted" THEN TypeBonus[h.type] ELSE 10))

\* Mutant: any better rank replaces the record, whatever the distance.
ConsiderRank(visited, m, h) ==
    IF visited[m] = None THEN [visited EXCEPT ![m] = h]
    ELSE IF RankOf(h) < RankOf(visited[m]) THEN [visited EXCEPT ![m] = h] ELSE visited

\* _consider_candidate: the shorter way, then the better rank; first come stays.
Consider(visited, m, h) ==
    IF visited[m] = None THEN [visited EXCEPT ![m] = h]
    ELSE IF h.distance < visited[m].distance THEN [visited EXCEPT ![m] = h]
    ELSE IF h.distance > visited[m].distance THEN visited
    ELSE IF RankOf(h) < RankOf(visited[m]) THEN [visited EXCEPT ![m] = h] ELSE visited

\* The hops out of the memories at distance d - 1, as records of the search.
Hops(visited, d) ==
    LET frontier == {m \in Memory : IF visited[m] = None THEN FALSE
                                    ELSE visited[m].distance = d - 1}
        by(table, S(_)) == UNION {{[to |-> n[1], how |-> [distance |-> d, table |-> table,
                                       type |-> n[2]]] : n \in S(m)} : m \in frontier}
    IN  <<by("relations", Mediated), by("edges", Direct)>>

Expanded(visited, d) ==
    LET take(v, H) == FoldSet(LAMBDA h, acc : Consider(acc, h.to, h.how), v, H)
    IN  take(take(visited, Hops(visited, d)[1]), Hops(visited, d)[2])

\* graph_proximity: breadth first to the cap, from the memories that mention a seed.
Visited ==
    LET seed == [m \in Memory |->
                   IF \E s \in Seeds : m \in Mentioning(s)
                     THEN [distance |-> 0, table |-> "seed", type |-> None] ELSE None]
        V[d \in 0..DepthCap] == IF d = 0 THEN seed ELSE Expanded(V[d - 1], d)
    IN  V[DepthCap]

-----------------------------------------------------------------------------
Next ==
    \/ \E s, t \in Memory, r \in Relation : Link(s, r, t)
    \/ \E x \in edges : Unlink(x)
    \/ \E m \in rows : Delete(m)
    \/ \E e, f \in Entity : Merge(e, f) \/ \E r \in Relation : Relate(e, r, f)
    \/ \E m \in Start, dir \in {"outbound", "inbound", "both"},
          r \in Relation \cup {None}, depth \in 1..MaxDepth : Graph(m, dir, r, depth)

Spec == Init /\ [][Next]_vars

-----------------------------------------------------------------------------
(* Properties *)

\* The nodes a path of at most d edges leads to, when every edge taken has the
\* relation asked for: the reference for the two searches.
OneEdge(n, q, dir, r) ==
    \E x \in edges : /\ r \in {None, x[2]}
                     /\ \/ dir # "inbound"  /\ x[1] = n /\ x[3] = q
                        \/ dir # "outbound" /\ x[3] = n /\ x[1] = q
Within(m, dir, r, d) ==
    {q \in rows : \E k \in 0..d, p \in [0..d -> rows] :
        p[0] = m /\ p[k] = q /\ \A i \in 0..k-1 : OneEdge(p[i], p[i+1], dir, r)}

\* graph(): it finds the memories within the depth and no other, and the edges at
\* those it went through -- except for "both" with a relation.
TraversalIsExact ==
    (found # None /\ ~(found.dir = "both" /\ found.relation # None)) =>
       /\ found.nodes = Within(found.from, found.dir, found.relation, found.depth) \ {found.from}
       /\ found.edges = {x \in edges : /\ found.relation \in {None, x[2]}
              /\ \E n \in Within(found.from, found.dir, found.relation, found.depth - 1) :
                    \/ found.dir # "inbound" /\ x[1] = n
                    \/ found.dir # "outbound" /\ x[3] = n}

\* graph.py:103: a relation asked for is the relation of every edge returned.
RelationFilterHolds ==
    (found # None /\ found.relation # None) => \A x \in found.edges : x[2] = found.relation

\* The channel gives a memory its shortest distance from the query's entities and
\* the best rank among the ways of that length (graph_proximity, ADR-004).
Hop(n, m) == m \in {x[1] : x \in Mediated(n) \cup Direct(n)}
Layer(d) ==
    {m \in Memory : \E p \in [0..d -> Memory] :
        /\ \E s \in Seeds : p[0] \in Mentioning(s)
        /\ p[d] = m /\ \A i \in 0..d-1 : Hop(p[i], p[i+1])}
Distance(m) == IF \E d \in 0..DepthCap : m \in Layer(d)
               THEN Min({d \in 0..DepthCap : m \in Layer(d)}) ELSE -1
NearestByBestHop ==
    found = None => \A m \in Memory :
       IF Distance(m) = -1 THEN Visited[m] = None
       ELSE /\ Visited[m] # None /\ Visited[m].distance = Distance(m)
            /\ Distance(m) > 0 => RankOf(Visited[m]) = Min(
                 UNION {{RankOf([distance |-> Distance(m), table |-> "relations", type |-> x[2]]) :
                            x \in {y \in Mediated(n) : y[1] = m}}
                   \cup {RankOf([distance |-> Distance(m), table |-> "edges", type |-> x[2]]) :
                            x \in {y \in Direct(n) : y[1] = m}} :
                        n \in {q \in Memory : Distance(q) = Distance(m) - 1}})
=============================================================================
