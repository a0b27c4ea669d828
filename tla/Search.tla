------------------------------- MODULE Search -------------------------------
(***************************************************************************)
(* sage_memory_search in one server process (search.py, with the LLM       *)
(* stages of expand.py and rerank.py), the access counters it keeps, and   *)
(* the hub's search over several databases (hub/search.py).                *)
(*                                                                         *)
(* A call visits the project database and then the global one; in each it  *)
(* runs its legs one after the other.  What a leg matches is any order of  *)
(* some of the rows it may return: text, vectors and thresholds are not    *)
(* modelled, which rows a statement can see is.  Other processes change    *)
(* rows between two statements.  Calls of one process do not overlap: the  *)
(* handlers are synchronous (server_fastmcp._wrap_handler).                *)
(***************************************************************************)
EXTENDS Integers, Sequences, FiniteSetsExt, SequencesExt

CONSTANTS
    Row, Db, Global, Home,    \* memories; databases; the global one; where a row is
    Hash,                     \* content_hash of a row
    Tagged,                   \* rows that have every filter tag of the query
    Chunked,                  \* rows with chunks
    Request,                  \* the calls that are made: what they ask for
    Bonus,                    \* tag boost and recency of a row, in thousandths
    None,
    Quality,                  \* of the embedder, in tenths
    Limit, TopK, FlushSize,   \* the request's limit, _TOP_K_DEFAULT, _ACCESS_FLUSH_SIZE
    MaxCalls, MaxChanges      \* bounds of the model

Channel == {"bm25", "vector", "graph"}

ASSUME Asks == Request \subseteq
    {c \in [scope : {"project", "global"}, filter : BOOLEAN, channels : (SUBSET Channel) \ {{}},
            expand : BOOLEAN, rerank : BOOLEAN] : c.expand => "bm25" \in c.channels}
ASSUME Rows == Global \in Db /\ Home \in [Row -> Db] /\ None \notin Db \cup Row /\ IsFiniteSet(Row)
ASSUME Numbers == /\ Bonus \in [Row -> Int] /\ Quality \in Nat /\ Limit \in Nat /\ TopK \in Nat
                  /\ FlushSize \in Nat \ {0}

VARIABLES
    active,     \* rows whose status is active; the others exist, and are hidden
    project,    \* the project database of the session, or None
    pc, call,   \* where the call is, and what was asked
    at,         \* which of its databases it is in
    lists,      \* the ranked lists of this database
    cached,     \* row_cache
    cands,      \* all_candidates, with the order they came in
    results,    \* rows of the last answer, in order
    buffer,     \* _access_buffer
    open,       \* access updates executed and not committed, per row
    count,      \* memories.access_count, committed
    asked,      \* history: rows active at some time of the call
    hits,       \* history: how often a row was in an answer
    calls, changes

stage   == <<pc, call, at, lists, cached, cands>>
access  == <<buffer, open, count>>
vars    == <<active, project, stage, results, access, hits, asked, calls, changes>>

Lists   == [fts : Seq(Row), chunkFts : Seq(Row), vec : Seq(Row),
            chunkVec : Seq(Row), graph : Seq(Row)]
NoLists == [fts |-> <<>>, chunkFts |-> <<>>, vec |-> <<>>, chunkVec |-> <<>>, graph |-> <<>>]
Idle    == [scope |-> "global", filter |-> FALSE, channels |-> {}, expand |-> FALSE,
            rerank |-> FALSE]
In(d)   == {r \in Row : Home[r] = d}

\* get_all_dbs: the project's first; scope "global" asks for that one alone.
Searched == IF call.scope = "global" \/ project = None THEN <<Global>> ELSE <<project, Global>>
Here     == Searched[at]

Init ==
    /\ active = Row /\ project = None
    /\ pc = "idle" /\ call = Idle /\ at = 1
    /\ lists = NoLists /\ cached = {} /\ cands = {} /\ results = <<>>
    /\ buffer = <<>>
    /\ open = [r \in Row |-> 0] /\ count = [r \in Row |-> 0]
    /\ asked = {} /\ hits = [r \in Row |-> 0] /\ calls = 0 /\ changes = 0

-----------------------------------------------------------------------------
(* The legs *)

\* What the SQL of an indexed leg may return: active rows, filtered by tag.
Visible(d) == {r \in In(d) \cap active : call.filter => r \in Tagged}
Orders     == [R \in SUBSET Row |-> SetToAllKPermutations(R)]
SomeOf(R)  == Orders[R]
Variant(R) == {<<>>} \cup {<<r>> : r \in IF call.expand THEN R ELSE {}}

\* search(), up to the first database.  A query too short or an empty channel
\* list answers nothing and changes nothing.
Begin(c) ==
    /\ pc = "idle" /\ calls < MaxCalls /\ calls' = calls + 1
    /\ call' = c /\ asked' = active /\ results' = <<>>
    /\ pc' = "bm25"
    /\ UNCHANGED <<active, project, at, lists, cached, cands, access, hits, changes>>

\* The query itself cannot be embedded: the exception leaves search().
EmbedRaises ==
    /\ pc = "bm25" /\ at = 1 /\ "vector" \in call.channels
    /\ pc' = "idle" /\ call' = Idle
    /\ UNCHANGED <<active, project, at, lists, cached, cands, results, access, hits, asked, calls, changes>>

\* The BM25 legs; an expansion adds the hits of a variant behind the query's.
\* A failure leaves all of them empty.
Bm25(failed) ==
    /\ pc = "bm25"
    /\ IF failed \/ "bm25" \notin call.channels
         THEN lists' = NoLists /\ cached' = {}
         ELSE \E f \in SomeOf(Visible(Here)), v \in Variant(Visible(Here)),
                 k \in SomeOf(Visible(Here) \cap Chunked) :
                /\ lists' = [NoLists EXCEPT !.fts = f \o v, !.chunkFts = k]
                /\ cached' = ToSet(f \o v \o k)
    /\ pc' = "vector"
    /\ UNCHANGED <<active, project, call, at, cands, results, access, hits, asked, calls, changes>>

\* The vector legs, with a second list for the expansion's document.  What they
\* cached before a failure stays cached.
Vector(failed) ==
    /\ pc = "vector"
    /\ IF "vector" \notin call.channels THEN UNCHANGED <<lists, cached>>
         ELSE \E f \in SomeOf(Visible(Here)), v \in Variant(Visible(Here)),
                 k \in SomeOf(Visible(Here) \cap Chunked) :
                /\ cached' = cached \cup ToSet(f \o v \o k)
                /\ lists' = IF failed THEN lists
                            ELSE [lists EXCEPT !.vec = f \o v, !.chunkVec = k]
    /\ pc' = "graph"
    /\ UNCHANGED <<active, project, call, at, cands, results, access, hits, asked, calls, changes>>

\* The graph channel knows neither status nor tags; a failure leaves it empty.
Graph(failed) ==
    /\ pc = "graph"
    /\ IF failed \/ "graph" \notin call.channels THEN UNCHANGED lists
         ELSE \E g \in SomeOf(In(Here)) : lists' = [lists EXCEPT !.graph = g]
    /\ pc' = "backfill"
    /\ UNCHANGED <<active, project, call, at, cached, cands, results, access, hits, asked, calls, changes>>

\* Mutant: rows only the graph channel found are fetched whatever their status.
BackfillAll ==
    /\ pc = "backfill"
    /\ cached' = cached \cup ToSet(lists.graph)
    /\ pc' = "fuse"
    /\ UNCHANGED <<active, project, call, at, lists, cands, results, access, hits, asked, calls, changes>>

\* Rows only the graph channel found are read, if they are active.
Backfill ==
    /\ pc = "backfill"
    /\ cached' = cached \cup (ToSet(lists.graph) \cap active)
    /\ pc' = "fuse"
    /\ UNCHANGED <<active, project, call, at, lists, cands, results, access, hits, asked, calls, changes>>

-----------------------------------------------------------------------------
(* Scores, in fixed point *)

Larger(a, b)  == IF a > b THEN a ELSE b
Smaller(a, b) == IF a < b THEN a ELSE b

\* weight / (_RRF_K + rank), for each place a list has the row in: an expansion
\* may list it twice.
Ranks(s, r)     == {i \in DOMAIN s : s[i] = r}
Share(w, s, r)  ==
    LET upto[n \in 0..Len(s)] ==
            IF n = 0 THEN 0 ELSE upto[n - 1] + IF s[n] = r THEN (w * 100000) \div (60 + n) ELSE 0
    IN  upto[Len(s)]
VectorWeight    == Larger(5, Quality)

\* Mutant: a list's contribution replaces that of the lists before it.
LastOnly(L, r) ==
    LET in(s) == Ranks(s, r) # {}
    IN  IF in(L.graph) THEN Share(7, L.graph, r)
        ELSE IF in(L.chunkVec) THEN Share(VectorWeight, L.chunkVec, r)
        ELSE IF in(L.vec) THEN Share(VectorWeight, L.vec, r)
        ELSE Share(10, L.chunkFts \o L.fts, r)

\* Reciprocal-rank fusion over the lists; chunks weigh what memories do.
Fused(L, r) ==
    Share(10, L.fts, r) + Share(10, L.chunkFts, r) + Share(7, L.graph, r)
      + Share(VectorWeight, L.vec, r) + Share(VectorWeight, L.chunkVec, r)

\* Every list in the order the scores are summed up; the rows it names.
Joined(L) == L.fts \o L.chunkFts \o L.vec \o L.chunkVec \o L.graph
Named(L)  == ToSet(Joined(L))

\* Relevance within this database in thousandths, and the boosts on top.
Score(L, r, d) ==
    LET f  == [q \in Named(L) |-> Fused(L, q)]
        lo == Min({f[q] : q \in Named(L)})
        hi == Max({f[q] : q \in Named(L)})
    IN  ((f[r] - lo) * 1000) \div (IF hi > lo THEN hi - lo ELSE 100000)
          + Bonus[r] + (IF d = Global THEN 0 ELSE 100)

\* The members of a set one after the other.
InOrder(S, before(_, _)) ==
    [i \in 1..Cardinality(S) |-> CHOOSE c \in S : Cardinality({b \in S : before(b, c)}) = i - 1]

\* By score, and as they came among equals (the sort is stable): by database, and
\* by place in it.
Earlier(x, y) == x[1] < y[1] \/ (x[1] = y[1] /\ x[2] < y[2])
Before(b, c)  == b.score > c.score \/ (b.score = c.score /\ Earlier(b.came, c.came))
Sorted(C)     == InOrder(C, Before)

\* The candidates of this database: named rows that were also read.
Fuse ==
    /\ pc = "fuse"
    /\ cands' = cands \cup
         {[row |-> r, score |-> Score(lists, r, Here), came |-> <<at, Min(Ranks(Joined(lists), r))>>] :
             r \in Named(lists) \cap cached}
    /\ lists' = NoLists /\ cached' = {}
    /\ IF at < Len(Searched) THEN pc' = "bm25" /\ at' = at + 1 ELSE pc' = "rank" /\ at' = 1
    /\ UNCHANGED <<active, project, call, results, access, hits, asked, calls, changes>>

-----------------------------------------------------------------------------
(* The answer *)

Blend(pos) == IF pos <= 3 THEN 75 ELSE IF pos <= 10 THEN 60 ELSE 40

\* rerank() scored some of the head, or none (-1).  Unless half of the head is
\* scored the order stays as it was; an unscored row keeps its score.
Reranked(s, llm) ==
    LET n     == Smaller(TopK, Len(s))
        mixed == {[row |-> s[i].row, came |-> <<at, i>>,
                   score |-> IF llm[i] = -1 THEN s[i].score
                             ELSE (Blend(i) * s[i].score + (100 - Blend(i)) * llm[i]) \div 100] :
                     i \in 1..n}
    IN  IF 2 * Cardinality({i \in 1..n : llm[i] # -1}) < n \/ Len(s) < 2 THEN s
        ELSE Sorted(mixed) \o SubSeq(s, n + 1, Len(s))

\* One row per content, the first of each.
Answer(s) ==
    LET first == InOrder({i \in DOMAIN s : \A j \in 1..i-1 : Hash[s[j].row] # Hash[s[i].row]}, <)
    IN  [i \in 1..Smaller(Limit, Len(first)) |-> s[first[i]].row]

Times(b) == [r \in Row |-> Cardinality(Ranks(b, r))]

\* The UPDATEs of the buffered ids that a database executes: each but the lost ones,
\* which raised.  Only a row's own database has it.
Updated(b, lost) == [r \in Row |-> Cardinality(Ranks(b, r) \ lost)]

\* A commit in the databases C counts n and what an earlier flush left open.
Counted(C, n) == [r \in Row |-> count[r] + IF Home[r] \in C THEN open[r] + n[r] ELSE 0]

\* Mutant: the buffer is kept for another flush when a commit failed.
FlushRetries(D, b) ==
    \E lost \in SUBSET DOMAIN b, failed \in SUBSET D :
        /\ count' = Counted(D \ failed, Updated(b, lost))
        /\ open'  = [r \in Row |-> IF Home[r] \in D \ failed THEN 0
                        ELSE open[r] + IF Home[r] \in D THEN Updated(b, lost)[r] ELSE 0]
        /\ buffer' = IF failed = {} THEN <<>> ELSE b

\* _flush_access over the databases D: the UPDATEs, then a commit, in each.  Any of
\* them may fail on its own; an update that is not committed stays open.  Whatever
\* fails, the buffer is emptied.
Flush(D, b) ==
    \E lost \in SUBSET DOMAIN b, failed \in SUBSET D :
        /\ count' = Counted(D \ failed, Updated(b, lost))
        /\ open'  = [r \in Row |-> IF Home[r] \in D \ failed THEN 0
                        ELSE open[r] + IF Home[r] \in D THEN Updated(b, lost)[r] ELSE 0]
        /\ buffer' = <<>>

\* The end of search(), with the rerank's scores: the answer is buffered, and flushed
\* to the databases of this call once the buffer is full.
Finish ==
    /\ pc = "rank"
    /\ \E llm \in [1..Smaller(TopK, Cardinality(cands)) -> {-1, 0, 1000}] :
          /\ call.rerank \/ \A i \in DOMAIN llm : llm[i] = -1
          /\ results' = Answer(Reranked(Sorted(cands), llm))
    /\ hits' = [r \in Row |-> hits[r] + Times(results')[r]]
    /\ LET b == buffer \o results'
       IN  IF Len(b) < FlushSize
             THEN buffer' = b /\ UNCHANGED <<open, count>>
             ELSE Flush(ToSet(Searched), b)
    /\ pc' = "idle" /\ call' = Idle /\ cands' = {}
    /\ UNCHANGED <<active, project, at, lists, cached, asked, calls, changes>>

-----------------------------------------------------------------------------
(* The rest of the session, and other processes *)

\* set_project, between two calls; the buffer stays.
SetProject(d) ==
    /\ pc = "idle" /\ d \notin {Global, project} /\ calls < MaxCalls
    /\ project' = d /\ results' = <<>>
    /\ UNCHANGED <<active, stage, access, asked, hits, calls, changes>>

\* Another call on the connection that the process keeps for a database commits
\* what the flush left open, with its own writes, or rolls it back; a call routed
\* to another project closes the connection, which drops it as well.
OtherCall(d, commits) ==
    /\ pc = "idle" /\ \E r \in In(d) : open[r] > 0
    /\ open' = [r \in Row |-> IF Home[r] = d THEN 0 ELSE open[r]]
    /\ count' = [r \in Row |-> count[r] + IF Home[r] = d /\ commits THEN open[r] ELSE 0]
    /\ UNCHANGED <<active, project, stage, results, buffer, hits, asked, calls, changes>>

\* The lifespan's end: flush_all_access to the session's databases, if anything is
\* buffered; close_all drops the connections with what is open, and the project.
Shutdown ==
    /\ pc = "idle" /\ (buffer # <<>> \/ \E r \in Row : open[r] > 0)
    /\ \E lost \in SUBSET DOMAIN buffer, C \in SUBSET {Global, project} :
          count' = Counted(IF buffer = <<>> THEN {} ELSE C, Updated(buffer, lost))
    /\ open' = [r \in Row |-> 0] /\ buffer' = <<>>
    /\ project' = None /\ results' = <<>>
    /\ UNCHANGED <<active, stage, hits, asked, calls, changes>>

\* The process dies, with its buffer and its open transactions.
Die ==
    /\ buffer # <<>> \/ \E r \in Row : open[r] > 0
    /\ buffer' = <<>> /\ open' = [r \in Row |-> 0]
    /\ project' = None /\ results' = <<>>
    /\ pc' = "idle" /\ call' = Idle /\ at' = 1
    /\ lists' = NoLists /\ cached' = {} /\ cands' = {}
    /\ UNCHANGED <<active, count, hits, asked, calls, changes>>

\* Another process hides a row (update(status=...), delete) or shows it again.
Toggle(r) ==
    /\ changes < MaxChanges /\ changes' = changes + 1
    /\ active' = IF r \in active THEN active \ {r} ELSE active \cup {r}
    /\ asked' = asked \cup active'
    /\ UNCHANGED <<project, stage, results, access, hits, calls>>

-----------------------------------------------------------------------------
(* Search across the hub *)

\* fan_out_search: the BM25 leg of each project named and of the global database,
\* filtered by the tags; fused by rank, the same weight for each.  Contents may
\* repeat, and no access is counted.
FanOut(D, filter) ==
    /\ pc = "idle" /\ calls < MaxCalls /\ calls' = calls + 1
    /\ \E L \in [D \cup {Global} -> UNION {SomeOf(In(d)) : d \in D \cup {Global}}] :
          /\ \A d \in DOMAIN L : ToSet(L[d]) \subseteq
                  {r \in In(d) \cap active : filter => r \in Tagged}
          /\ LET found == UNION {ToSet(L[d]) : d \in DOMAIN L}
                 Place(r) == CHOOSE i \in DOMAIN L[Home[r]] : L[Home[r]][i] = r
             IN  \E s \in SetToSeqs(found) :
                    /\ \A i, j \in DOMAIN s : i < j => Place(s[i]) <= Place(s[j])
                    /\ results' = SubSeq(s, 1, Smaller(Limit, Len(s)))
    /\ asked' = active
    /\ UNCHANGED <<active, project, stage, access, hits, changes>>

-----------------------------------------------------------------------------
Next ==
    \/ \E c \in Request : Begin(c)
    \/ EmbedRaises
    \/ \E failed \in BOOLEAN : Bm25(failed) \/ Vector(failed) \/ Graph(failed)
    \/ Backfill
    \/ Fuse
    \/ Finish \/ Shutdown
    \/ \E d \in Db : SetProject(d) \/ \E commits \in BOOLEAN : OtherCall(d, commits)
    \/ Die
    \/ \E r \in Row : Toggle(r)
    \/ \E D \in SUBSET (Db \ {Global}) \ {{}}, filter \in BOOLEAN : FanOut(D, filter)

Spec == Init /\ [][Next]_vars

-----------------------------------------------------------------------------
(* Properties *)

\* Every variable has its type, and an answer shows what it may: no more rows
\* than asked for, and only rows that were active at some time of the call.
TypeOK ==
    /\ active \subseteq Row /\ project \in Db \cup {None}
    /\ at \in DOMAIN Searched
    /\ \A c \in DOMAIN lists : ToSet(lists[c]) \subseteq In(Here)
    /\ cached \subseteq In(Here)
    /\ Len(results) <= Limit /\ ToSet(results) \subseteq asked
    /\ Len(buffer) < FlushSize
    /\ \A r \in Row : open[r] \in Nat /\ count[r] \in Nat

\* a is ahead of b in a list: at every length of it, it was listed as often.
Listed(s, r, n) == Cardinality({i \in 1..n : s[i] = r})
Ahead(s, a, b)  == \A n \in DOMAIN s : Listed(s, b, n) <= Listed(s, a, n)

\* A row that is ahead of another in every list that has the other, and boosted
\* as much, scores at least as high (search, "Weighted RRF").
AheadEverywhereIsHigher ==
    pc = "fuse" => \A a, b \in Named(lists) :
        (Bonus[a] >= Bonus[b] /\ \A c \in DOMAIN lists : Ahead(lists[c], a, b))
            => Score(lists, a, Here) >= Score(lists, b, Here)

\* An answer counts an access of a row at most once, whichever flush, commit or
\* shutdown carries it, and whichever UPDATE of a row or commit of a database fails
\* on the way (_flush_access, flush_all_access).
CountedAtMostOnce == \A r \in Row : count[r] + open[r] + Times(buffer)[r] <= hits[r]

\* README.md:299, search.py:170: only rows with all filter tags are returned.
FilterTagsHold == \A c \in cands : call.filter => c.row \in Tagged
=============================================================================
