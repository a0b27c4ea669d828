---------------------------- MODULE MemoryStore -----------------------------
(***************************************************************************)
(* store(), update() and delete() of store.py in several server processes, *)
(* and the `reembed` tasks their worker threads run, over one project      *)
(* database: the memories table and the rows that have to keep in step     *)
(* with it, namely memories_vec, memory_embedding_meta, chunks with        *)
(* chunks_vec and chunk_embedding_meta, and the reembed rows of the queue. *)
(*                                                                         *)
(* One action is one committed transaction, or one read that a later       *)
(* transaction relies on.  SQLite hides an open transaction from everyone  *)
(* else and lets one connection write at a time, so nothing finer can be   *)
(* observed; a call that raises (SQLITE_BUSY, a UNIQUE or FOREIGN KEY      *)
(* error) or whose process dies stops between two of them.                 *)
(*                                                                         *)
(* The embedder passes the quality gate and is the same in all processes;  *)
(* memory_embedding_meta is then a set: the memories that count as fresh.  *)
(* The chunk rows of one split live and go together, and get their vectors *)
(* in one order, batch by batch.  The queue is that of TaskPool: a claimed *)
(* task is run once, or given back.  Extract tasks, mentions and vectors   *)
(* that outlive their row are left out.                                    *)
(***************************************************************************)
EXTENDS Naturals, FiniteSets

CONSTANTS
    Memory,      \* ids of memories rows (uuid4: never reused)
    Title, Text, \* titles and contents
    Long,        \* contents above CHUNK_THRESHOLD characters
    Short,       \* contents below HYSTERESIS_LOW characters
    Split,       \* ids of the results of chunker.split (uuid4 chunk ids)
    Rows,        \* Rows[k]: how many chunk rows split k has
    Batch,       \* batch_size of embed_pending_chunks (50)
    MaxRounds,   \* _REEMBED_MAX_BATCHES: rounds of one reembed task (32)
    Client,      \* server processes: one call at a time each
    Worker,      \* worker threads
    Unborn, Gone,      \* no row yet, row deleted
    None,              \* nothing: no vector, no chunks, argument not passed
    MaxCalls,    \* bound: calls of store, update and delete
    MaxTasks,    \* bound: open reembed tasks of one memory
    MaxDeaths    \* bound: worker threads that die with a task

ASSUME Lengths == Long \subseteq Text /\ Short \subseteq Text /\ Long \cap Short = {}
ASSUME Sizes == /\ Rows \in [Split -> Nat \ {0}]
                /\ Batch \in Nat \ {0} /\ MaxRounds \in Nat \ {0}
ASSUME Bounds == MaxCalls \in Nat /\ MaxTasks \in Nat /\ MaxDeaths \in Nat

\* What is left for a memory: f"{title}. {content}".
Doc == [title : Title, content : Text]

ASSUME Nulls == /\ {Unborn, Gone} \cap Doc = {} /\ Unborn # Gone
                /\ None \notin Doc \cup Split \cup Title \cup Text

VARIABLES
    row,         \* memories: the title and content of m
    vec,         \* memories_vec: the document m's vector was computed from
    meta,        \* memory_embedding_meta rows naming the active embedder
    chunks,      \* chunks: the split whose rows m has
    textOf,      \* the content split k was made from; None: k not used yet
    left,        \* left[k]: its rows without chunks_vec and chunk_embedding_meta
    todo,        \* todo[m]: pending reembed tasks of m
    pc,          \* where client c's call is
    mem,         \* the memory it is about
    new,         \* the document it stores
    gave,        \* arguments of update: {"title", "content"} passed or not
    saw,         \* update: the SELECT found chunk rows
    job,         \* where worker w is in _do_reembed
    on,          \* memory_id of its task
    doc,         \* the document it has read and embeds
    split,       \* the split it has read rows of and embeds
    due,         \* how many of that split's rows had no vector then
    did,         \* n_mem of this round was not 0
    round,       \* which round of the task it is in
    calls, deaths,
    lapses       \* history: what happened to m that the code has no answer to

data   == <<row, vec, meta, chunks, textOf, left, todo>>
call   == <<pc, mem, new, gave, saw, calls>>
thread == <<job, on, doc, split, due, did, round, deaths>>
vars   == <<data, call, thread, lapses>>

Lapse == {"overlap",   \* a write while another call or run had m in hand
          "cut",       \* a call on m raised or died
          "vector",    \* update() deleted the vector and the embedder raised
          "chunks",    \* the embedder raised on m's chunks
          "stop",      \* a worker was stopped and m's task counted as done
          "rounds"}    \* a task's last round was over before m's chunks were

Exists == {m \in Memory : row[m] \in Doc}
Busy(c) == pc[c] # "idle"

\* Every variable has its type; a call past its first step has a memory and a
\* document in hand, and a job past its reads what it read.
TypeOK ==
    /\ row \in [Memory -> Doc \cup {Unborn, Gone}]
    /\ vec \in [Memory -> Doc \cup {None}]
    /\ meta \subseteq Memory
    /\ chunks \in [Memory -> Split \cup {None}]
    /\ textOf \in [Split -> Text \cup {None}]
    /\ left \in [Split -> Nat]
    /\ todo \in [Memory -> 0..MaxTasks]
    /\ pc \in [Client -> {"idle", "insert", "embed", "chunk", "write", "look",
                          "rechunk", "enqueue"}]
    /\ mem \in [Client -> Memory \cup {None}]
    /\ new \in [Client -> Doc \cup {None}]
    /\ gave \in [Client -> SUBSET {"title", "content"}]
    /\ saw \in [Client -> BOOLEAN]
    /\ \A c \in Client : Busy(c) => mem[c] \in Memory /\ new[c] \in Doc
    /\ job \in [Worker -> {"idle", "memory", "embed", "chunks", "embedChunks"}]
    /\ on \in [Worker -> Memory \cup {None}]
    /\ doc \in [Worker -> Doc \cup {None}]
    /\ split \in [Worker -> Split \cup {None}]
    /\ due \in [Worker -> Nat]
    /\ did \in [Worker -> BOOLEAN]
    /\ round \in [Worker -> 0..MaxRounds]
    /\ \A w \in Worker : /\ job[w] # "idle" => on[w] \in Memory
                         /\ job[w] = "embed" => doc[w] \in Doc
                         /\ job[w] = "embedChunks" => split[w] \in Split /\ due[w] > 0
    /\ calls \in 0..MaxCalls
    /\ deaths \in 0..MaxDeaths
    /\ lapses \in [Memory -> SUBSET Lapse]

\* An empty project database, migrated; servers up, queue empty.
Init ==
    /\ row = [m \in Memory |-> Unborn]
    /\ vec = [m \in Memory |-> None]
    /\ meta = {}
    /\ chunks = [m \in Memory |-> None]
    /\ textOf = [k \in Split |-> None]
    /\ left = Rows
    /\ todo = [m \in Memory |-> 0]
    /\ pc = [c \in Client |-> "idle"]
    /\ mem = [c \in Client |-> None]
    /\ new = [c \in Client |-> None]
    /\ gave = [c \in Client |-> {}]
    /\ saw = [c \in Client |-> FALSE]
    /\ job = [w \in Worker |-> "idle"]
    /\ on = [w \in Worker |-> None]
    /\ doc = [w \in Worker |-> None]
    /\ split = [w \in Worker |-> None]
    /\ due = [w \in Worker |-> 0]
    /\ did = [w \in Worker |-> FALSE]
    /\ round = [w \in Worker |-> 0]
    /\ calls = 0
    /\ deaths = 0
    /\ lapses = [m \in Memory |-> {}]

-----------------------------------------------------------------------------
(* Helpers *)

\* c's call goes on at step l; when it returns it has nothing in hand.
Goto(c, l) ==
    /\ pc' = [pc EXCEPT ![c] = l]
    /\ mem' = [mem EXCEPT ![c] = IF l = "idle" THEN None ELSE @]
    /\ new' = [new EXCEPT ![c] = IF l = "idle" THEN None ELSE @]
    /\ gave' = [gave EXCEPT ![c] = IF l = "idle" THEN {} ELSE @]
    /\ saw' = [saw EXCEPT ![c] = IF l = "idle" THEN FALSE ELSE @]

Note(m, L) == lapses' = [lapses EXCEPT ![m] = @ \cup L]

\* Why chunk rows may be left without vectors and without a task.
Excuses == {"cut", "chunks", "stop", "rounds"}

\* A complete write of m's chunk rows makes up for what happened to the old ones.
NoteRechunk(m, L) ==
    lapses' = [lapses EXCEPT ![m] = L \cup
                   IF chunks'[m] = chunks[m] THEN @ ELSE @ \ Excuses]

\* Somebody else is in the middle of something with m as it was.
Overlap(c, m) ==
    \/ \E d \in Client \ {c} : Busy(d) /\ mem[d] = m
    \/ \E w \in Worker : job[w] = "embed" /\ on[w] = m

Overlaps(c, m) == IF Overlap(c, m) THEN {"overlap"} ELSE {}

\* The UNIQUE index on content_hash.
Taken(x, m) == \E n \in Exists \ {m} : row[n].content = x

\* New chunk rows of content x for m, under ids never used before.
Resplit(m, x) ==
    \E k \in Split :
        /\ textOf[k] = None
        /\ textOf' = [textOf EXCEPT ![k] = x]
        /\ chunks' = [chunks EXCEPT ![m] = k]

-----------------------------------------------------------------------------
(* store() *)

\* The duplicate check finds nothing; m is the new uuid.
StoreLook(c, m, d) ==
    /\ ~Busy(c) /\ calls < MaxCalls
    /\ row[m] = Unborn /\ \A b \in Client : mem[b] # m
    /\ ~Taken(d.content, m)
    /\ pc' = [pc EXCEPT ![c] = "insert"]
    /\ mem' = [mem EXCEPT ![c] = m]
    /\ new' = [new EXCEPT ![c] = d]
    /\ gave' = [gave EXCEPT ![c] = {"title", "content"}]
    /\ saw' = [saw EXCEPT ![c] = FALSE]
    /\ calls' = calls + 1
    /\ UNCHANGED <<data, thread, lapses>>

\* Phase 1: INSERT and commit, unless the content has appeared since.
StoreInsert(c) ==
    /\ pc[c] = "insert"
    /\ ~Taken(new[c].content, mem[c])
    /\ row' = [row EXCEPT ![mem[c]] = new[c]]
    /\ Goto(c, "embed")
    /\ UNCHANGED <<vec, meta, chunks, textOf, left, todo, calls, thread, lapses>>

\* Phase 2, _try_embed: vector and meta in one commit.  The plain INSERT fails
\* when m has a vector, the meta row when m is gone; that is swallowed too.
StoreEmbed(c) ==
    LET m == mem[c] IN
    /\ pc[c] = "embed"
    /\ m \in Exists /\ vec[m] = None
    /\ vec' = [vec EXCEPT ![m] = new[c]]
    /\ meta' = meta \cup {m}
    /\ Note(m, Overlaps(c, m))
    /\ Goto(c, "chunk")
    /\ UNCHANGED <<row, chunks, textOf, left, todo, calls, thread>>

StoreEmbedFails(c) ==
    /\ pc[c] = "embed"
    /\ Goto(c, "chunk")
    /\ UNCHANGED <<data, calls, thread, lapses>>

\* Phase 3: the chunk rows of a long content, committed before their task is.
\* They fail on FOREIGN KEY when m is gone and on UNIQUE when it has chunks.
StoreChunk(c) ==
    LET m == mem[c] IN
    /\ pc[c] = "chunk"
    /\ new[c].content \in Long
    /\ m \in Exists /\ chunks[m] = None
    /\ Resplit(m, new[c].content)
    /\ Goto(c, "enqueue")
    /\ Note(m, Overlaps(c, m))
    /\ UNCHANGED <<row, vec, meta, left, todo, calls, thread>>

StoreUnchunked(c) ==
    /\ pc[c] = "chunk"
    /\ new[c].content \notin Long
    /\ Goto(c, "idle")
    /\ UNCHANGED <<data, calls, thread, lapses>>

\* Mutant: no second task for a memory that has one open.
EnqueueUnlessOpen(c) ==
    /\ pc[c] = "enqueue"
    /\ mem[c] \in Exists
    /\ todo[mem[c]] < MaxTasks
    /\ todo' = [todo EXCEPT ![mem[c]] =
                    IF \E w \in Worker : on[w] = mem[c] THEN @ ELSE @ + 1]
    /\ Goto(c, "idle")
    /\ UNCHANGED <<row, vec, meta, chunks, textOf, left, calls, thread, lapses>>

\* Phase 4b, and the end of update(): a reembed task, if m still exists.
Enqueue(c) ==
    /\ pc[c] = "enqueue"
    /\ mem[c] \in Exists
    /\ todo[mem[c]] < MaxTasks
    /\ todo' = [todo EXCEPT ![mem[c]] = @ + 1]
    /\ Goto(c, "idle")
    /\ UNCHANGED <<row, vec, meta, chunks, textOf, left, calls, thread, lapses>>

-----------------------------------------------------------------------------
(* update() *)

\* Mutant: a content that is not passed is written as NULL.
UpdateReadNull(c, m, t, x) ==
    LET d == [title |-> IF t = None THEN row[m].title ELSE t, content |-> x] IN
    /\ ~Busy(c) /\ calls < MaxCalls
    /\ m \in Exists
    /\ ~Taken(d.content, m)
    /\ pc' = [pc EXCEPT ![c] = "write"]
    /\ mem' = [mem EXCEPT ![c] = m]
    /\ new' = [new EXCEPT ![c] = d]
    /\ gave' = [gave EXCEPT ![c] = {f \in {"title", "content"} :
                    IF f = "title" THEN t # None ELSE x # None}]
    /\ saw' = [saw EXCEPT ![c] = FALSE]
    /\ calls' = calls + 1
    /\ UNCHANGED <<data, thread, lapses>>

\* The row is read and the duplicate check finds nothing.  What is not passed
\* (t or x None) is taken from the row as it was read.  With neither, the call
\* is about tags or status.
UpdateRead(c, m, t, x) ==
    LET d == [title   |-> IF t = None THEN row[m].title ELSE t,
              content |-> IF x = None THEN row[m].content ELSE x]
    IN
    /\ ~Busy(c) /\ calls < MaxCalls
    /\ m \in Exists
    /\ ~Taken(d.content, m)
    /\ pc' = [pc EXCEPT ![c] = "write"]
    /\ mem' = [mem EXCEPT ![c] = m]
    /\ new' = [new EXCEPT ![c] = d]
    /\ gave' = [gave EXCEPT ![c] = {f \in {"title", "content"} :
                    IF f = "title" THEN t # None ELSE x # None}]
    /\ saw' = [saw EXCEPT ![c] = FALSE]
    /\ calls' = calls + 1
    /\ UNCHANGED <<data, thread, lapses>>

\* Every column is written, the ones not passed too.
Rewrite(c) ==
    /\ pc[c] = "write"
    /\ mem[c] \in Exists
    /\ ~Taken(new[c].content, mem[c])
    /\ row' = [row EXCEPT ![mem[c]] = new[c]]

\* UPDATE of tags or status: no embedding, no chunks.
UpdateTags(c) ==
    /\ gave[c] = {}
    /\ Rewrite(c)
    /\ Note(mem[c], Overlaps(c, mem[c]))
    /\ Goto(c, "idle")
    /\ UNCHANGED <<vec, meta, chunks, textOf, left, todo, calls, thread>>

\* Mutant: the text read before the change is left.
UpdateEmbedOld(c) ==
    LET m == mem[c] IN
    /\ gave[c] # {}
    /\ Rewrite(c)
    /\ vec' = [vec EXCEPT ![m] = row[m]]
    /\ meta' = meta \cup {m}
    /\ lapses' = [lapses EXCEPT ![m] = (@ \ {"vector"}) \cup Overlaps(c, m)]
    /\ Goto(c, IF "content" \in gave[c] THEN "look" ELSE "idle")
    /\ UNCHANGED <<chunks, textOf, left, todo, calls, thread>>

\* UPDATE, the old vector deleted, the new one written, and all of it committed
\* by _try_embed.
UpdateEmbed(c) ==
    LET m == mem[c] IN
    /\ gave[c] # {}
    /\ Rewrite(c)
    /\ vec' = [vec EXCEPT ![m] = new[c]]
    /\ meta' = meta \cup {m}
    /\ lapses' = [lapses EXCEPT ![m] = (@ \ {"vector"}) \cup Overlaps(c, m)]
    /\ Goto(c, IF "content" \in gave[c] THEN "look" ELSE "idle")
    /\ UNCHANGED <<chunks, textOf, left, todo, calls, thread>>

\* Mutant: a content between the thresholds leaves the chunk rows alone.
HysteresisSkipsBand(m, x, had, follows) ==
    \/ x \in Long /\ follows /\ Resplit(m, x)
    \/ /\ had /\ x \in Short
       /\ ~follows
       /\ chunks' = [chunks EXCEPT ![m] = None]
       /\ UNCHANGED textOf
    \/ /\ x \notin Long /\ ~(had /\ x \in Short)
       /\ ~follows
       /\ UNCHANGED <<chunks, textOf>>

\* _update_chunks_hysteresis, given whether m had chunk rows: it leaves m's
\* chunk rows as x asks for and returns whether a task is to follow (k: yes).
Hysteresis(m, x, had, follows) ==
    \/ /\ had \/ x \in Long
       /\ ~(had /\ x \in Short)
       /\ follows
       /\ Resplit(m, x)
    \/ /\ had /\ x \in Short
       /\ ~follows
       /\ chunks' = [chunks EXCEPT ![m] = None]
       /\ UNCHANGED textOf
    \/ /\ ~had /\ x \notin Long
       /\ ~follows
       /\ UNCHANGED <<chunks, textOf>>

\* The same when the embedder raises: the transaction stays open, and the
\* hysteresis below runs and commits inside it.  The meta row stays.
UpdateEmbedFails(c) ==
    LET m == mem[c] IN
    /\ gave[c] # {}
    /\ Rewrite(c)
    /\ vec' = [vec EXCEPT ![m] = None]
    /\ \/ /\ "content" \notin gave[c]
          /\ Goto(c, "idle")
          /\ UNCHANGED <<chunks, textOf>>
       \/ /\ "content" \in gave[c]
          /\ \E follows \in BOOLEAN :
                /\ Hysteresis(m, new[c].content, chunks[m] # None, follows)
                /\ Goto(c, IF follows THEN "enqueue" ELSE "idle")
    /\ NoteRechunk(m, Overlaps(c, m) \cup {"vector"})
    /\ UNCHANGED <<meta, left, todo, calls, thread>>

\* The row went away since it was read: UPDATE changes nothing, the vector is
\* refused by the meta row's foreign key, and the call goes on.
UpdateNothing(c) ==
    /\ pc[c] = "write"
    /\ mem[c] \notin Exists
    /\ Goto(c, IF "content" \in gave[c] THEN "look" ELSE "idle")
    /\ UNCHANGED <<data, calls, thread, lapses>>

\* The hysteresis asks whether m has chunk rows ...
UpdateLook(c) ==
    /\ pc[c] = "look"
    /\ pc' = [pc EXCEPT ![c] = "rechunk"]
    /\ saw' = [saw EXCEPT ![c] = chunks[mem[c]] # None]
    /\ UNCHANGED <<data, mem, new, gave, calls, thread, lapses>>

\* ... and acts on the answer.  New rows need m; without a DELETE before them
\* they also need it to have none.
UpdateRechunk(c) ==
    LET m == mem[c] IN
    /\ pc[c] = "rechunk"
    /\ \E follows \in BOOLEAN :
          /\ Hysteresis(m, new[c].content, saw[c], follows)
          /\ follows => m \in Exists /\ (saw[c] \/ chunks[m] = None)
          /\ Goto(c, IF follows THEN "enqueue" ELSE "idle")
    /\ NoteRechunk(m, Overlaps(c, m))
    /\ UNCHANGED <<row, vec, meta, left, todo, calls, thread>>

-----------------------------------------------------------------------------
(* delete(), and calls that do not return *)

\* The vector, then the row, with everything that cascades from it.
Delete(c, m) ==
    /\ ~Busy(c) /\ calls < MaxCalls
    /\ m \in Exists
    /\ row' = [row EXCEPT ![m] = Gone]
    /\ vec' = [vec EXCEPT ![m] = None]
    /\ meta' = meta \ {m}
    /\ chunks' = [chunks EXCEPT ![m] = None]
    /\ todo' = [todo EXCEPT ![m] = 0]
    /\ calls' = calls + 1
    /\ UNCHANGED <<textOf, left, pc, mem, new, gave, saw, thread, lapses>>

\* The call raises or its process dies.
Cut(c) ==
    /\ Busy(c)
    /\ Note(mem[c], {"cut"})
    /\ Goto(c, "idle")
    /\ UNCHANGED <<data, calls, thread>>

-----------------------------------------------------------------------------
(* _do_reembed *)

Work(w, l) == job' = [job EXCEPT ![w] = l]

Claim(w, m) ==
    /\ job[w] = "idle"
    /\ todo[m] > 0
    /\ todo' = [todo EXCEPT ![m] = @ - 1]
    /\ on' = [on EXCEPT ![w] = m]
    /\ Work(w, "memory")
    /\ UNCHANGED <<row, vec, meta, chunks, textOf, left, call, doc, split, due, did,
                   round, deaths, lapses>>

\* A round is over and what it read forgotten; there is another one if it did
\* anything, up to MaxRounds, and else the task is marked done.
EndRound(w, something) ==
    LET again == something /\ round[w] < MaxRounds IN
    /\ Work(w, IF again THEN "memory" ELSE "idle")
    /\ on' = [on EXCEPT ![w] = IF again THEN @ ELSE None]
    /\ round' = [round EXCEPT ![w] = IF again THEN @ ELSE 0]
    /\ doc' = [doc EXCEPT ![w] = None]
    /\ split' = [split EXCEPT ![w] = None]
    /\ due' = [due EXCEPT ![w] = 0]
    /\ did' = [did EXCEPT ![w] = FALSE]

Finish(w) == EndRound(w, FALSE)

\* The stop event is set before a round: the task counts as done all the same.
Stop(w) ==
    /\ job[w] = "memory" /\ round[w] < MaxRounds
    /\ Finish(w)
    /\ Note(on[w], {"stop"})
    /\ UNCHANGED <<data, call, deaths>>

\* A round begins: embed_pending reads the row if it has no fresh meta row ...
ReadMemory(w) ==
    LET m == on[w]
        stale == m \in Exists \ meta
    IN
    /\ job[w] = "memory" /\ round[w] < MaxRounds
    /\ Work(w, IF stale THEN "embed" ELSE "chunks")
    /\ doc' = [doc EXCEPT ![w] = IF stale THEN row[m] ELSE None]
    /\ did' = [did EXCEPT ![w] = FALSE]
    /\ round' = [round EXCEPT ![w] = @ + 1]
    /\ UNCHANGED <<data, call, on, split, due, deaths, lapses>>

\* ... and later replaces the vector by that of what it read.
WriteVector(w) ==
    LET m == on[w] IN
    /\ job[w] = "embed"
    /\ m \in Exists
    /\ vec' = [vec EXCEPT ![m] = doc[w]]
    /\ meta' = meta \cup {m}
    /\ did' = [did EXCEPT ![w] = TRUE]
    /\ doc' = [doc EXCEPT ![w] = None]
    /\ Work(w, "chunks")
    /\ UNCHANGED <<row, chunks, textOf, left, todo, call, on, split, due, round,
                   deaths, lapses>>

\* The embedder raised, or the memory is gone.
NoVector(w) ==
    /\ job[w] = "embed"
    /\ doc' = [doc EXCEPT ![w] = None]
    /\ Work(w, "chunks")
    /\ UNCHANGED <<data, call, on, split, due, did, round, deaths, lapses>>

Unembedded(m) == chunks[m] # None /\ left[chunks[m]] > 0

\* embed_pending_chunks reads a batch of the rows without fresh meta ...
ReadChunks(w) ==
    /\ job[w] = "chunks"
    /\ Unembedded(on[w])
    /\ split' = [split EXCEPT ![w] = chunks[on[w]]]
    /\ due' = [due EXCEPT ![w] = left[chunks[on[w]]]]
    /\ Work(w, "embedChunks")
    /\ UNCHANGED <<data, call, on, doc, did, round, deaths, lapses>>

\* ... and there are none.
NoChunks(w) ==
    /\ job[w] = "chunks"
    /\ ~Unembedded(on[w])
    /\ EndRound(w, did[w])
    /\ UNCHANGED <<data, call, deaths, lapses>>

Smaller(a, b) == IF a <= b THEN a ELSE b

\* Mutant: one batch, without the loop around it.
WriteOneBatch(w) ==
    LET k == split[w] IN
    /\ job[w] = "embedChunks"
    /\ chunks[on[w]] = k
    /\ \E n \in 1..Smaller(Batch, due[w]) :
          left' = [left EXCEPT ![k] = Smaller(@, due[w] - n)]
    /\ Finish(w)
    /\ UNCHANGED <<row, vec, meta, chunks, textOf, todo, call, deaths, lapses>>

\* ... and commits the vectors of the whole batch, or of the rows before the one
\* on which the embedder raised.  Another worker may have written them before.
WriteChunks(w) ==
    LET k == split[w] IN
    /\ job[w] = "embedChunks"
    /\ chunks[on[w]] = k
    /\ \E n \in 1..Smaller(Batch, due[w]) :
          left' = [left EXCEPT ![k] = Smaller(@, due[w] - n)]
    /\ EndRound(w, TRUE)
    /\ Note(on[w], IF round[w] = MaxRounds /\ left'[k] > 0 THEN {"rounds"} ELSE {})
    /\ UNCHANGED <<row, vec, meta, chunks, textOf, todo, call, deaths>>

\* The rows were replaced or deleted meanwhile (the meta row's foreign key fails),
\* or the embedder raised on the first one.
NoChunkVectors(w) ==
    /\ job[w] = "embedChunks"
    /\ EndRound(w, did[w])
    /\ Note(on[w], IF chunks[on[w]] = split[w] THEN {"chunks"} ELSE {})
    /\ UNCHANGED <<data, call, deaths>>

\* The thread dies; a later startup recovery finds its row, if it still exists.
Die(w) ==
    /\ job[w] # "idle"
    /\ deaths < MaxDeaths
    /\ deaths' = deaths + 1
    /\ on[w] \in Exists => todo[on[w]] < MaxTasks
    /\ todo' = [todo EXCEPT ![on[w]] = IF on[w] \in Exists THEN @ + 1 ELSE @]
    /\ Finish(w)
    /\ UNCHANGED <<row, vec, meta, chunks, textOf, left, call, lapses>>

-----------------------------------------------------------------------------
Store(c) == StoreInsert(c) \/ StoreEmbed(c) \/ StoreEmbedFails(c) \/ StoreChunk(c)
            \/ StoreUnchunked(c)

Update(c) == UpdateTags(c) \/ UpdateEmbed(c) \/ UpdateEmbedFails(c)
             \/ UpdateNothing(c) \/ UpdateLook(c) \/ UpdateRechunk(c)

\* What call c does next, and what worker w does next.
Proceed(c) == Store(c) \/ Update(c) \/ Enqueue(c)
Run(w) == ReadMemory(w) \/ WriteVector(w) \/ NoVector(w) \/ ReadChunks(w)
          \/ NoChunks(w) \/ WriteChunks(w) \/ NoChunkVectors(w)

Call(c) ==
    \E m \in Memory :
        \/ \E d \in Doc : StoreLook(c, m, d)
        \/ \E t \in Title \cup {None}, x \in Text \cup {None} : UpdateRead(c, m, t, x)
        \/ Delete(c, m)

Next ==
    \/ \E c \in Client : Call(c) \/ Proceed(c) \/ Cut(c)
    \/ \E w \in Worker : Run(w) \/ Stop(w) \/ Die(w) \/ \E m \in Memory : Claim(w, m)

Spec == Init /\ [][Next]_vars

\* A call goes on until it returns or raises; worker threads poll and run what
\* they claim.  Nobody has to make a call, to stop or to die.
Fairness ==
    /\ \A c \in Client : WF_vars(Proceed(c))
    /\ \A w \in Worker : WF_vars(Run(w)) /\ WF_vars(\E m \in Memory : Claim(w, m))

FairSpec == Spec /\ Fairness

-----------------------------------------------------------------------------
(* Properties *)

\* A memory that counts as embedded under the active model has the vector of
\* its present title and content, unless calls or runs on it overlapped, or the
\* embedder raised in the last update() that changed them.
VectorIsCurrent ==
    \A m \in Exists \cap meta :
        lapses[m] \cap {"overlap", "vector"} = {} => vec[m] = row[m]

\* Between calls, a memory's chunk rows are those of its present content, there
\* are some if it is long, and none if it is short, unless calls on it overlapped
\* or one was cut short.
ChunksFollowContent ==
    \A m \in Exists :
        /\ \A c \in Client : mem[c] # m
        /\ lapses[m] \cap {"overlap", "cut"} = {}
        => IF chunks[m] = None THEN row[m].content \notin Long
           ELSE /\ textOf[chunks[m]] = row[m].content
                /\ row[m].content \notin Short

\* Chunk rows without vectors have a reembed task that is open, or about to be
\* enqueued by the call that wrote them, however calls, runs and deletes overlap;
\* except that such a call was cut, or that a run of the task was stopped, had the
\* embedder raise on them, or used up its rounds (_REEMBED_MAX_BATCHES) before them.
ChunksAreQueued ==
    \A m \in Exists :
        Unembedded(m) =>
            \/ todo[m] > 0
            \/ \E w \in Worker : on[w] = m
            \/ \E c \in Client : pc[c] = "enqueue" /\ mem[c] = m
            \/ lapses[m] \cap Excuses # {}

\* The workers get there, batch by batch: all chunk rows receive their vectors, or go
\* away, or one of the same exceptions happens.
ChunksGetVectors ==
    \A m \in Memory :
        [](Unembedded(m) => <>(~Unembedded(m)
                               \/ lapses[m] \cap Excuses # {}))

\* "Partial update by ID": only a call that passes a content changes the content
\* of a memory.  This does not hold.
PartialUpdate ==
    [][\A m \in Exists :
          (m \in Exists' /\ row'[m].content # row[m].content) =>
              \E c \in Client : /\ mem[c] = m /\ "content" \in gave[c]
                                /\ pc[c] = "write" /\ pc'[c] # "write"]_vars

\* "Content changes trigger re-embedding": once a call is over, a memory either
\* has its vector or counts as stale.  This does not hold.
VectorOrStale ==
    \A m \in Exists \cap meta :
        (\A c \in Client : mem[c] # m) => vec[m] # None
=============================================================================
