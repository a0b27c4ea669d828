---------------------------- MODULE CodeQueries -----------------------------
(***************************************************************************)
(* What is asked of the code graph (codebase/queries.py), while artifacts  *)
(* of other tools are imported into it (codebase/importer.py) and scans    *)
(* resolve again what is unresolved.                                       *)
(*                                                                         *)
(* The rows of the project's own files are given, CodeGraph has how they   *)
(* change.  A file memory is <<owner, path>>: the sentinel hash of an      *)
(* import is salted with the tool and the path.  An artifact is its        *)
(* well-formed nodes, <<path, name>>, and edges; one whose endpoint is not *)
(* among its nodes still has a name.  Paths of artifacts are relative (the *)
(* absolute path of a scanned file would take over the scan's own row).    *)
(* The caps on visited symbols and on listed results are not reached.      *)
(***************************************************************************)
EXTENDS Naturals, FiniteSets, FiniteSetsExt

CONSTANTS
    Tool, Native,             \* who owns rows: the tools, and the scan
    Like,                     \* [Tool -> SUBSET memories]: whose sentinels match LIKE 'import:<tool>:%'
    File, Symbol,             \* paths; names of symbols
    Artifact,                 \* [nodes, edges] with edges [from, to, name, exact]
    Nobody,                   \* the missing target, NULL
    DepthOf,                  \* the depths asked for, within _PATH_MAX_DEPTH
    MaxImports                \* bound of the model

VARIABLES
    defined,     \* code_symbols: [mem, name]
    refs,        \* code_relations: [src, tgt, name, exact, fact, owner]
    registered,  \* codebase_scans of relative paths: their memories
    imports

queryVars == <<defined, refs, registered, imports>>

Own(n) == [mem |-> <<Native, Native>>, name |-> n]
Ref(s, t, n, exact, owner) == [src |-> s, tgt |-> t, name |-> n, exact |-> exact,
                               fact |-> exact /\ t # Nobody, owner |-> owner]

\* The project's own graph: any resolved references, and unresolved ones.
Init ==
    /\ defined = {Own(n) : n \in Symbol}
    /\ \E R \in SUBSET {q \in Symbol \X Symbol : q[1] # q[2]}, U \in SUBSET {Max(Symbol)} :
          refs = {Ref(Own(q[1]), Own(q[2]), q[2], TRUE, Native) : q \in R}
                   \cup {Ref(Own(Min(Symbol)), Nobody, n, FALSE, Native) : n \in U}
    /\ registered = [p \in File |-> Nobody]
    /\ imports = 0

-----------------------------------------------------------------------------
(* Changes *)

\* What an import of tool t takes for that of the last one: the symbols of the file
\* memories that are registered with a sentinel its pattern matches, be it another tool's
\* (LIKE ignores case, _ and % are wildcards, and 'a' matches 'a:b').
Previous(t) == {s \in defined : s.mem \in Like[t] /\ \E p \in File : registered[p] = s.mem}

\* The rows of artifact a as tool t's.
Rows(t, a) == {[mem |-> <<t, x[1]>>, name |-> x[2]] : x \in a.nodes}
Edges(t, a) ==
    LET row(x) == [mem |-> <<t, x[1]>>, name |-> x[2]] IN
    {Ref(row(e.from), IF e.to \in a.nodes THEN row(e.to) ELSE Nobody, e.name, e.exact, t) :
        e \in {e \in a.edges : e.from \in a.nodes}}

\* As Import, but what is there of the artifact's files goes, whoever's it is.
ImportOverFiles(t, a) ==
    LET old == {s \in defined : s.mem[2] \in {x[1] : x \in a.nodes}} IN
    /\ imports < MaxImports /\ imports' = imports + 1
    /\ defined' = (defined \ old) \cup Rows(t, a)
    /\ refs' = {r \in refs : r.owner # t /\ r.src \notin old /\ r.tgt \notin old} \cup Edges(t, a)
    /\ registered' = [p \in File |-> IF p \in {x[1] : x \in a.nodes} THEN <<t, p>> ELSE registered[p]]

\* import_graph, one transaction: the relations of exactly this tool and the symbols it
\* takes for the tool's go, with their relations of whatever owner; the artifact's come,
\* and its files are registered as the tool's.
Import(t, a) ==
    LET old == Previous(t) IN
    /\ imports < MaxImports /\ imports' = imports + 1
    /\ defined' = (defined \ old) \cup Rows(t, a)
    /\ refs' = {r \in refs : r.owner # t /\ r.src \notin old /\ r.tgt \notin old} \cup Edges(t, a)
    /\ registered' = [p \in File |-> IF p \in {x[1] : x \in a.nodes} THEN <<t, p>> ELSE registered[p]]

\* What the language of row r's source may find for it: a symbol of that name in the same
\* file, or in one of the scan's (a Python import); imported files are in no module's or
\* directory's list.
Found(r) == {s \in defined : s.name = r.name /\ s.mem \in {r.src.mem, <<Native, Native>>}}

\* A scan's last step resolves every row without a target once more, imported ones too;
\* a language without a resolver, or that looks elsewhere, leaves the row as it is.
Reresolve ==
    LET late == {r \in refs : r.tgt = Nobody}
        edge(r, s) == [Ref(r.src, s, r.name, r.exact, r.owner) EXCEPT !.fact = TRUE] IN
    \E F \in SUBSET {q \in late \X defined : q[2] \in Found(q[1])} :
        /\ F # {} /\ \A p, q \in F : p[1] = q[1] => p = q
        /\ refs' = (refs \ {q[1] : q \in F}) \cup {edge(q[1], q[2]) : q \in F}
        /\ UNCHANGED <<defined, registered, imports>>

Next == Reresolve \/ \E t \in Tool, a \in Artifact : Import(t, a)

Spec == Init /\ [][Next]_queryVars

-----------------------------------------------------------------------------
(* Queries *)

\* _symbol_candidates: a query answers only for a name that means one symbol.
Candidates(n) ==
    {s \in defined : s.name = n /\ (s.mem[1] = Native \/ \E p \in File : registered[p] = s.mem)}

\* "Resolved" edges are those with a target, whatever their confidence says.
Out(s) == {r.tgt : r \in {r \in refs : r.src = s /\ r.tgt # Nobody}}
In(s)  == {r.src : r \in {r \in refs : r.tgt = s}}

\* A search breadth first with a visited set: what it has seen after k levels.
Ahead  == [x \in defined |-> Out(x)]
Behind == [x \in defined |-> In(x)]
Spread(E, s, d) ==
    LET seen[k \in 0..d] == IF k = 0 THEN {s} ELSE seen[k-1] \cup UNION {E[x] : x \in seen[k-1]}
    IN  seen

\* The symbols seen at depth d, which the cap keeps from being looked at.
Last(seen, d) == seen[d] \ (IF d = 0 THEN {} ELSE seen[d-1])

\* As FindPath, but the cap ends the search without a word.
FindPathSilent(s, g, d) ==
    LET seen == Spread(Ahead, s, d)
        at   == {k \in 0..d : g \in seen[k]}
    IN  [found |-> at # {}, hops |-> IF at = {} THEN 0 ELSE Min(at), truncated |-> FALSE]

\* find_path: breadth first along resolved edges; the cap is reported when a symbol at
\* that depth is taken off the queue.
FindPath(s, g, d) ==
    LET seen == Spread(Ahead, s, d)
        at   == {k \in 0..d : g \in seen[k]}
    IN  [found |-> at # {}, hops |-> IF at = {} THEN 0 ELSE Min(at),
         truncated |-> at = {} /\ Last(seen, d) # {}]

\* affected: breadth first against the edges; each symbol taken lists its resolved
\* inbound edges, which lead on, and those that only match its name.
Affected(s, d, resolvedOnly) ==
    LET seen  == Spread(Behind, s, d)
        taken == seen[d] \ Last(seen, d)
    IN  [facts |-> UNION {In(x) : x \in taken},
         guesses |-> IF resolvedOnly THEN {}
                     ELSE {r.src : r \in {r \in refs : r.tgt = Nobody /\ \E x \in taken : x.name = r.name}},
         truncated |-> Last(seen, d) # {}]

-----------------------------------------------------------------------------
(* Properties *)

\* A chain of n resolved edges leads from s to g.
Chained(s, g, n) ==
    IF n = 0 THEN s = g
    ELSE \E p \in [1..n-1 -> defined] :
            LET q == [i \in 0..n |-> IF i = 0 THEN s ELSE IF i = n THEN g ELSE p[i]]
            IN  \A i \in 0..n-1 : q[i+1] \in Out(q[i])

\* Every set that holds s and all that its members lead to holds g.
Leads(s, g) ==
    \A C \in SUBSET defined : s \in C /\ (\A x \in C : Out(x) \subseteq C) => g \in C

\* queries.py:13-15, "an honest truncated signal": a path found is a shortest one, and
\* when nothing is found and nothing truncated there is none of any length; an answer of
\* affected that is not truncated lists every symbol that reaches the one asked for.
AnswersAreHonest ==
    \A s, g \in {s \in defined : Candidates(s.name) = {s}}, d \in DepthOf :
        LET path == FindPath(s, g, d)
            all  == Affected(g, d, TRUE)
        IN  /\ path.found => /\ Chained(s, g, path.hops)
                             /\ \A n \in 0..path.hops-1 : ~Chained(s, g, n)
            /\ ~path.found /\ ~path.truncated => ~Leads(s, g)
            /\ ~all.truncated /\ s # g => (s \in all.facts <=> Leads(s, g))

\* Whose rows an import of tool t has no way of taking for its own.
Others(t) == {Native} \cup {u \in Tool \ {t} : \A p \in File : <<u, p>> \notin Like[t]}

\* importer.py:17-19, 103-107: an import leaves the rows of the scan, and of the tools
\* whose sentinels its pattern does not match, as they are: symbols of the same files, and
\* references, which scans resolve across files and owners (Reresolve) but never to a
\* symbol that an import of another tool takes away.
OthersAreLeftAlone ==
    [][\A t \in Tool, a \in Artifact : Import(t, a) =>
          /\ {s \in defined : s.mem[1] \in Others(t)} \subseteq defined'
          /\ {r \in refs : r.owner \in Others(t)} \subseteq refs']_queryVars

-----------------------------------------------------------------------------
(* What the comments of the importer say and the code does not keep *)

\* "Native and other tools' rows are never touched": not those of a tool whose name the
\* pattern matches either.
ToolsAreApart ==
    [][\A t \in Tool, a \in Artifact : Import(t, a) => {s \in defined : s.mem[1] # t} \subseteq defined']_queryVars

\* "Idempotent per-source replace": after an import the tool's symbols are the artifact's.
\* When another tool registered the file since, the old ones stay.
ReplaceIsComplete ==
    [][\A t \in Tool, a \in Artifact : Import(t, a) => {s \in defined' : s.mem[1] = t} = Rows(t, a)]_queryVars

\* "native rows are never touched", and so are those of other tools: an import does not
\* take a file's registration from another tool, for whose symbols queries then are blind.
RegistrationsStay ==
    [][\A p \in File : registered[p] # Nobody => registered'[p][1] = registered[p][1]]_queryVars

\* "No silent confidence upgrades": only an explicit label makes an imported edge a fact.
NoSilentUpgrades == \A r \in refs : r.owner \in Tool /\ r.fact => r.exact

\* queries.py:8-12: a path takes no edge that is not a fact.
PathsAreFacts == \A r \in refs : r.tgt # Nobody => r.fact
=============================================================================
