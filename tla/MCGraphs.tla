------------------------------ MODULE MCGraphs ------------------------------
\* For TLC, three models of reading in one run: traversals of the graph of memories
\* (MemoryGraph: three memories, two entities, two relations), the extraction of texts
\* (CodeText: three nodes, eight languages, a second file), and queries of the code graph
\* (CodeQueries: any native graph of three symbols, two tools, two imports).  One moves
\* while the others are where they started, and beside one of their initial states, so
\* that the states add up.
EXTENDS MemoryGraph, Sequences, TLC

CONSTANTS m1, m2, m3, e1, e2, t1, t2, f1
CONSTANTS Lang, Name, Src, Self, Opaque, Dot, DotDot, Index, Library, MaxNodes
CONSTANTS Tool, Native, Like, File, Symbol, Artifact, Nobody, DepthOf, MaxImports

VARIABLES lang, text, other
VARIABLES defined, refs, registered, imports
textVars  == <<lang, text, other>>
queryVars == <<defined, refs, registered, imports>>
graphsVars == <<graphVars, found, facts, textVars, queryVars>>

Code    == INSTANCE CodeText
Queries == INSTANCE CodeQueries

MCMentions == {<<m1, e1>>, <<m2, e2>>, <<m3, e2>>}
MCHeard    == {<<m1, e1>>}
MCWeight   == [r \in Relation |-> IF r = "mentions" THEN 7 ELSE 10]
MCBonus    == [r \in Relation |-> IF r = "mentions" THEN 6 ELSE 10]

Declares(up, w, n, word) ==
    [up |-> up, what |-> w, names |-> <<n>>, word |-> word, colons |-> FALSE, fresh |-> TRUE]
Function1 == <<Declares(0, "function", 1, <<>>)>>
Class1(w) == <<Declares(0, "class", 1, <<>>), Declares(1, w, 2, <<>>)>>
Struct1   == <<Declares(0, "struct", 1, <<>>), Declares(0, "method", 2, <<1>>),
               Declares(0, "function", 2, <<>>)>>
Files(P, T) == [path : P, text : {T}]
MCLibrary ==
    [l \in Lang |->
        CASE l = "py"   -> Files({<<Src, 2>>, <<2, Index>>}, Function1)
          [] l = "ts"   -> Files({<<Src, 2, Index>>, <<2>>}, Function1)
          [] l = "rs"   -> Files({<<Src, 2>>}, Function1)
          [] l = "go"   -> Files({<<Src, 2>>}, Struct1)
          [] l = "java" -> Files({<<Src, 2>>, <<2>>}, Class1("method"))
          [] l = "c"    -> Files({<<Src, 2>>}, Class1("function"))
          [] OTHER      -> Files({<<Src, 2>>}, Class1("method"))]

\* The pattern of the first tool matches the other's name ('code_graph' and 'code-graph').
MCLike == (t1 :> {t1, t2} \X {f1}) @@ (t2 :> {t2} \X {f1})

\* Three artifacts over one file: a symbol the project has too, a chain with a guess
\* and missing ends, of which the project has one, and a cycle.
Of(n) == <<f1, n>>
Edge(a, b, n, exact) == [from |-> Of(a), to |-> b, name |-> n, exact |-> exact]
MCArtifact ==
    {[nodes |-> {Of(1), Of(4)}, edges |-> {Edge(1, Of(4), 4, TRUE)}],
     [nodes |-> {Of(4), Of(5)},
      edges |-> {Edge(4, Of(5), 5, FALSE), Edge(5, Nobody, 4, FALSE), Edge(5, Nobody, 3, FALSE)}],
     [nodes |-> {Of(4), Of(5), Of(6)},
      edges |-> {Edge(4, Of(5), 5, TRUE), Edge(5, Of(6), 6, TRUE), Edge(6, Of(4), 4, TRUE)}]}

GraphAtRest   == facts = 0 /\ found = None
TextAtRest    == text = <<>> /\ lang = "c"
QueriesAtRest == refs = {}

MCInit == Init /\ Code!Init /\ Queries!Init /\ (TextAtRest \/ QueriesAtRest)
MCNext ==
    \/ TextAtRest /\ QueriesAtRest /\ Next /\ UNCHANGED <<textVars, queryVars>>
    \/ GraphAtRest /\ QueriesAtRest /\ Code!Next /\ UNCHANGED <<graphVars, found, facts, queryVars>>
    \/ GraphAtRest /\ TextAtRest /\ Queries!Next /\ UNCHANGED <<graphVars, found, facts, textVars>>
MCSpec == MCInit /\ [][MCNext]_graphsVars

\* MemoryGraph's NearestByBestHop, where the memories' graph is what moves.
BestHopFirst == TextAtRest /\ QueriesAtRest => NearestByBestHop
\* CodeText: a symbol's parent is inserted before it.
ParentsGoFirst == Code!ParentsGoFirst
\* CodeText: a name resolves to what is written.
ResolvedAsWritten == Code!ResolvedAsWritten
\* CodeQueries: what an answer does not say is not there.
AnswersAreHonest == ~QueriesAtRest => Queries!AnswersAreHonest
\* CodeQueries: an import leaves the rows of others alone.
OthersAreLeftAlone == Queries!OthersAreLeftAlone
=============================================================================
