------------------------------ MODULE Reindex -------------------------------
(***************************************************************************)
(* sage-memory reindex (cli_reindex.py), the resolver that picks a         *)
(* server's embedder and the probe that decides whether it has a worker    *)
(* (embedder.resolve, server_fastmcp.server_lifespan,                      *)
(* server._needs_worker), and the embedding runs of the workers            *)
(* (store.embed_pending, embed_pending_chunks), over one project database. *)
(*                                                                         *)
(* An item is a memory or one of its chunks; Parent says of which memory.  *)
(* A vector is the embedder that computed it, and so is a meta row: only   *)
(* name, version and dimension are compared.  Nothing is updated or        *)
(* deleted here (MemoryStore); the queue is reduced to the number of open  *)
(* reembed tasks of a memory (WorkQueue), which saturates.                 *)
(***************************************************************************)
EXTENDS Naturals, FiniteSets

CONSTANTS
    Memory, Chunk, Parent,
    Embedder, Local,     \* Local is always there
    Dim, Tier,           \* native dimension; a lower tier is preferred
    Weak,                \* embedders below _EMBED_QUALITY_THRESHOLD
    Server, None,
    MaxReindex, MaxStarts, MaxFails, MaxTasks        \* bounds of the model

Item == Memory \cup Chunk

ASSUME Tiers == /\ Local \in Embedder /\ Weak \subseteq Embedder
                /\ None \notin Embedder \cup Item
                /\ \A i \in Memory : Parent[i] = i
                /\ \A i \in Chunk : Parent[i] \in Memory

ASSUME BoundsAreNumbers ==
    /\ IsFiniteSet(Item)
    /\ MaxReindex \in Nat /\ MaxStarts \in Nat /\ MaxFails \in Nat /\ MaxTasks \in Nat

VARIABLES
    stored,      \* memories that have a row (with their chunks)
    tableDim,    \* float[n] of memories_vec and chunks_vec
    corpusDim,   \* corpus_meta.vec_dim
    vec,         \* memories_vec, chunks_vec: the embedder of an item's vector
    meta,        \* memory_embedding_meta, chunk_embedding_meta
    embedded,    \* memories.embedded = 1
    backups,     \* how many timestamps have backup tables
    todo,        \* open reembed tasks of a memory
    emb,         \* a server's embedder; None: not running
    worker,      \* where its worker is
    on, hand, did,   \* its task, the rows it has selected, n > 0 this round
    kept,        \* history: items that lost a vector but kept a row of that dimension
    reindexed, starts, fails

corpus == <<stored, tableDim, corpusDim, vec, meta, embedded, backups>>
thread == <<on, hand, did>>
vars   == <<corpus, todo, emb, worker, thread, kept, reindexed, starts, fails>>

Stored   == {i \in Item : Parent[i] \in stored}
ItemsOf(m, K) == {i \in K : Parent[i] = m}

\* Every variable has its type.  A vector has the dimension of its table, which
\* is the one corpus_meta has, and its meta row names the embedder it is from.
TypeOK ==
    /\ stored \subseteq Memory
    /\ tableDim = corpusDim
    /\ vec \in [Item -> Embedder \cup {None}]
    /\ meta \in [Item -> Embedder \cup {None}]
    /\ \A i \in Item : vec[i] # None =>
          i \in Stored /\ Dim[vec[i]] = tableDim /\ meta[i] = vec[i]
    /\ embedded \subseteq stored
    /\ backups \in 0..MaxReindex
    /\ todo \in [Memory -> 0..MaxTasks]
    /\ emb \in [Server -> Embedder \cup {None}]
    /\ worker \in [Server -> {"none", "poll", "memory", "embed", "chunks", "embedChunks"}]
    /\ on \in [Server -> Memory \cup {None}]
    /\ hand \in [Server -> SUBSET Item]
    /\ did \in [Server -> BOOLEAN]
    /\ kept \subseteq Item
    /\ reindexed \in 0..MaxReindex /\ starts \in 0..MaxStarts /\ fails \in 0..MaxFails

\* A new database: migration 004's vec_dim, no rows.
Init ==
    /\ stored = {} /\ tableDim = Dim[Local] /\ corpusDim = Dim[Local]
    /\ vec = [i \in Item |-> None] /\ meta = [i \in Item |-> None]
    /\ embedded = {} /\ backups = 0
    /\ todo = [m \in Memory |-> 0]
    /\ emb = [s \in Server |-> None] /\ worker = [s \in Server |-> "none"]
    /\ on = [s \in Server |-> None] /\ hand = [s \in Server |-> {}]
    /\ did = [s \in Server |-> FALSE]
    /\ kept = {} /\ reindexed = 0 /\ starts = 0 /\ fails = 0

-----------------------------------------------------------------------------
(* The queue *)

\* _enqueue_reembed_tasks: a task for each item, in the order given, up to limit.
Capped(n) == IF n > MaxTasks THEN MaxTasks ELSE n
Enqueued(I) == [m \in Memory |-> Capped(todo[m] + Cardinality(ItemsOf(m, I)))]

\* What a limit lets through: any number of memories, then any number of chunks.
Cut(I) == {J \in SUBSET I : (J \cap Chunk # {}) => I \cap Memory \subseteq J}

-----------------------------------------------------------------------------
(* sage-memory reindex *)

\* Mutant: corpus_meta is not brought up to date.
FullReembedKeepsDim(e, I, J) ==
    /\ reindexed < MaxReindex /\ reindexed' = reindexed + 1
    /\ J \in Cut(I)
    /\ backups' = backups + 1
    /\ vec' = [i \in Item |-> None]
    /\ tableDim' = Dim[e] /\ UNCHANGED corpusDim
    /\ kept' = kept \cup {i \in Stored : meta[i] # None /\ Dim[meta[i]] = Dim[e]}
    /\ todo' = Enqueued(J)
    /\ UNCHANGED <<stored, meta, embedded, emb, worker, thread, starts, fails>>

\* _do_full_reembed, one BEGIN IMMEDIATE transaction (rolled back as a whole when
\* it raises): both tables are copied to backups and created anew with e's
\* dimension, vec_dim follows, and tasks are queued for the items I -- all, or
\* those of one memory -- as far as the limit goes.  Meta rows stay as they are.
FullReembed(e, I, J) ==
    /\ reindexed < MaxReindex /\ reindexed' = reindexed + 1
    /\ J \in Cut(I)
    /\ backups' = backups + 1
    /\ vec' = [i \in Item |-> None]
    /\ tableDim' = Dim[e] /\ corpusDim' = Dim[e]
    /\ kept' = kept \cup {i \in Stored : meta[i] # None /\ Dim[meta[i]] = Dim[e]}
    /\ todo' = Enqueued(J)
    /\ UNCHANGED <<stored, meta, embedded, emb, worker, thread, starts, fails>>

\* The rows _do_partial_reembed selects: no meta row, or one of another dimension.
Found(i) == meta[i] = None \/ Dim[meta[i]] # corpusDim

\* _do_partial_reembed and _do_single_memory: tasks for the items found, or for
\* all of one memory's.
Partial(I, J) ==
    /\ reindexed < MaxReindex /\ reindexed' = reindexed + 1
    /\ I # {} /\ J \in Cut(I)
    /\ todo' = Enqueued(J)
    /\ UNCHANGED <<corpus, emb, worker, thread, kept, starts, fails>>

\* _backup_drop.
BackupDrop ==
    /\ backups > 0 /\ backups' = backups - 1
    /\ UNCHANGED <<stored, tableDim, corpusDim, vec, meta, embedded, todo, emb, worker,
                   thread, kept, reindexed, starts, fails>>

Reindexing ==
    \/ \E e \in Embedder, m \in Memory \cup {None}, J \in SUBSET Stored :
          FullReembed(e, {i \in Stored : m \in {None, Parent[i]}}, J)
    \/ \E J \in SUBSET Stored : Partial({i \in Stored : Found(i)}, J)
    \/ \E m \in stored : Partial(ItemsOf(m, Stored), ItemsOf(m, Stored))
    \/ BackupDrop

-----------------------------------------------------------------------------
(* Servers: server_lifespan *)

\* resolve: of the embedders the environment allows, the best of the corpus's
\* dimension.
Fitting(env) == {e \in env : Dim[e] = corpusDim}
Resolved(env) == {e \in Fitting(env) : \A d \in Fitting(env) : Tier[e] <= Tier[d]}

\* embed_pending's and _needs_worker's staleness.
Stale(i, e) == meta[i] # e

\* _needs_worker: an LLM key and a matching dimension, a memory that was embedded
\* and is stale, or a stale chunk.
NeedsWorker(e, llm) ==
    \/ llm /\ Dim[e] = corpusDim
    \/ \E m \in embedded : Stale(m, e)
    \/ \E i \in Chunk \cap Stored : Stale(i, e)

Launch(s, e, llm) ==
    /\ emb[s] = None /\ starts < MaxStarts /\ starts' = starts + 1
    /\ emb' = [emb EXCEPT ![s] = e]
    /\ worker' = [worker EXCEPT ![s] = IF NeedsWorker(e, llm) THEN "poll" ELSE "none"]
    /\ UNCHANGED <<corpus, todo, thread, kept, reindexed, fails>>

\* With no embedder of the dimension the start is refused.
Start(s, env, llm) == \E e \in Resolved(env) : Launch(s, e, llm)

\* Any other failure of the bootstrap: LocalEmbedder, whatever the dimension is.
StartFallback(s, llm) == Launch(s, Local, llm)

\* The process ends; a task its worker had is given back (WorkQueue's recovery).
Stop(s) ==
    /\ emb[s] # None
    /\ emb' = [emb EXCEPT ![s] = None]
    /\ worker' = [worker EXCEPT ![s] = "none"]
    /\ on' = [on EXCEPT ![s] = None] /\ hand' = [hand EXCEPT ![s] = {}]
    /\ did' = [did EXCEPT ![s] = FALSE]
    /\ todo' = IF on[s] = None THEN todo ELSE [todo EXCEPT ![on[s]] = Capped(@ + 1)]
    /\ UNCHANGED <<corpus, kept, reindexed, starts, fails>>

\* store(): the row; its vector if the embedder is good and the table takes it
\* (what _try_embed raises is swallowed); chunk rows and their task.
Store(s, m) ==
    LET e == emb[s] IN
    /\ e # None /\ m \notin stored
    /\ stored' = stored \cup {m}
    /\ IF e \notin Weak /\ Dim[e] = tableDim
       THEN /\ vec' = [vec EXCEPT ![m] = e] /\ meta' = [meta EXCEPT ![m] = e]
            /\ embedded' = embedded \cup {m}
       ELSE UNCHANGED <<vec, meta, embedded>>
    /\ todo' = [todo EXCEPT ![m] = IF ItemsOf(m, Chunk) = {} THEN @ ELSE Capped(@ + 1)]
    /\ UNCHANGED <<tableDim, corpusDim, backups, emb, worker, thread, kept,
                   reindexed, starts, fails>>

-----------------------------------------------------------------------------
(* Workers: _do_reembed *)

At(s, l) == worker' = [worker EXCEPT ![s] = l]

Claim(s, m) ==
    /\ worker[s] = "poll" /\ todo[m] > 0
    /\ todo' = [todo EXCEPT ![m] = @ - 1]
    /\ on' = [on EXCEPT ![s] = m]
    /\ At(s, "memory")
    /\ UNCHANGED <<corpus, emb, hand, did, kept, reindexed, starts, fails>>

\* The stale rows of the kind in turn are selected; the model calls come next.
Select(s) ==
    LET K    == IF worker[s] = "memory" THEN Memory ELSE Chunk
        rows == {i \in ItemsOf(on[s], K) : i \in Stored /\ Stale(i, emb[s])}
    IN  /\ worker[s] \in {"memory", "chunks"}
        /\ hand' = [hand EXCEPT ![s] = IF emb[s] \in Weak THEN {} ELSE rows]
        /\ At(s, IF worker[s] = "memory" THEN "embed" ELSE "embedChunks")
        /\ UNCHANGED <<corpus, todo, emb, on, did, kept, reindexed, starts, fails>>

\* After a kind: chunks after the memory; another round while rows were written;
\* else the task is done.
Turn(s, n) ==
    LET last  == worker[s] = "embedChunks"
        again == n \/ did[s]
    IN  /\ hand' = [hand EXCEPT ![s] = {}]
        /\ did' = [did EXCEPT ![s] = ~last /\ again]
        /\ At(s, CASE ~last -> "chunks" [] last /\ again -> "memory" [] OTHER -> "poll")
        /\ on' = [on EXCEPT ![s] = IF last /\ ~again THEN None ELSE @]

\* Mutant: the meta rows of the whole batch are written, whichever vectors were.
WriteMetaOfAll(s, W) ==
    LET e == emb[s] IN
    /\ worker[s] \in {"embed", "embedChunks"}
    /\ W \subseteq hand[s] /\ (Dim[e] # tableDim => W = {})
    /\ W # hand[s] /\ Dim[e] = tableDim => fails < MaxFails
    /\ fails' = IF W # hand[s] /\ Dim[e] = tableDim THEN fails + 1 ELSE fails
    /\ vec' = [i \in Item |-> IF i \in W THEN e ELSE vec[i]]
    /\ meta' = [i \in Item |-> IF i \in hand[s] THEN e ELSE meta[i]]
    /\ embedded' = embedded \cup (W \cap Memory)
    /\ kept' = kept \ W
    /\ Turn(s, W # {})
    /\ UNCHANGED <<stored, tableDim, corpusDim, backups, todo, emb, reindexed, starts>>

\* The rows are written, vector and meta row together, until one fails: the model
\* raises, or the table refuses a vector of another dimension.  What was written
\* is committed, the rest is given up and the task still ends as done.
Write(s, W) ==
    LET e == emb[s] IN
    /\ worker[s] \in {"embed", "embedChunks"}
    /\ W \subseteq hand[s] /\ (Dim[e] # tableDim => W = {})
    /\ W # hand[s] /\ Dim[e] = tableDim => fails < MaxFails
    /\ fails' = IF W # hand[s] /\ Dim[e] = tableDim THEN fails + 1 ELSE fails
    /\ vec' = [i \in Item |-> IF i \in W THEN e ELSE vec[i]]
    /\ meta' = [i \in Item |-> IF i \in W THEN e ELSE meta[i]]
    /\ embedded' = embedded \cup (W \cap Memory)
    /\ kept' = kept \ W
    /\ Turn(s, W # {})
    /\ UNCHANGED <<stored, tableDim, corpusDim, backups, todo, emb, reindexed, starts>>

WorkerStep(s) ==
    \/ \E m \in Memory : Claim(s, m)
    \/ Select(s)
    \/ \E W \in SUBSET hand[s] : Write(s, W)

Next ==
    \/ Reindexing
    \/ \E s \in Server :
          \/ \E env \in {E \in SUBSET Embedder : Local \in E}, llm \in BOOLEAN : Start(s, env, llm)
          \/ \E llm \in BOOLEAN : StartFallback(s, llm)
          \/ Stop(s)
          \/ \E m \in Memory : Store(s, m)
          \/ WorkerStep(s)

Spec == Init /\ [][Next]_vars

-----------------------------------------------------------------------------
\* cli_reindex.py:219-336, 367-385: an item without a vector is one that
\* `reindex --embeddings` finds, whatever re-embeds, embedding runs with an old
\* embedder, swallowed failures and lost tasks it went through -- unless a re-embed
\* dropped its vector for one of the dimension its meta row already has.
LostVectorsAreFound ==
    \A i \in Stored \ kept : vec[i] = None => Found(i)

-----------------------------------------------------------------------------
(* What the help text says and the code does not keep *)

\* "--embeddings ... Used to finish a previously-interrupted reindex": it finds
\* every item without a vector.  The meta rows survive the tables, so after a
\* re-embed to a dimension they already have it finds nothing -- nor do the tasks.
PartialFindsAll == \A i \in Stored : vec[i] = None => Found(i)

=============================================================================
