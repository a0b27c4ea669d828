# A TLA+ model of sage-memory

sage-memory is an MCP server that keeps an agent's memories in SQLite databases,
one per project and one global.  Several server processes may work on one database
at the same time; each may have a background worker thread; command-line tools and
other projects' servers ("hub" routing) write to it too.  Nothing coordinates them
but SQLite's locking, a queue table, and a JSON file.  This directory models that
coordination, checks it with TLC and proves parts of it with TLAPS.

Source paths are relative to `src/sage_memory/` of the repository.

    tlc -config MCWorkQueue.cfg MCWorkQueue      # and so on for every MC*.cfg
    tlapm WorkQueueProofs.tla                    # and the other *Proofs.tla

## 1. Inventory

| component | state it keeps | operations | what makes it hard | what makes it correct |
|---|---|---|---|---|
| Work queue and worker (`worker.py`, `cli_queue.py`, `cli_dedup.py`) | `extraction_queue`, `worker_state` | enqueue, claim, run, mark, startup recovery, prune | several workers, death between any two commits, recovery by age alone | one runner per task, no work dropped, none reported done that was not |
| Migration runner (`db._migrate`) | `user_version`, schema | open a connection | every process and thread runs it; no lock around it | a connection never sees half a schema; a database stays openable |
| Hub ownership (`hub/ownership.py`, `hub/store.py`, `hub/importer.py`) | `.hub-owner.json`, a cache of refusals per process | acquire, reclaim, release, check | read-then-replace on a file, clocks, dead owners | one owner; a live claim stands; a dead one is taken over |
| Memory store (`store.py`, `chunker.py`) | `memories`, `memories_vec`, `memory_embedding_meta`, `chunks`, `chunks_vec`, `chunk_embedding_meta` | store, update, delete, embed_pending | each call is several transactions around a slow embedder; overlapping calls; swallowed errors | vectors and chunks are those of the present content; nothing waits without a task |
| Extraction (`extractor.py`, `extraction_write.py`) | `entities`, `mentions`, `relations` | worker extraction, agent-provided REPLACE | a queued extraction lands after an agent's replacement | the last writer is the one the caller meant; every text left to the worker is read |
| Entity dedup (`dedup.py`) | `entities.canonical_id` | a merge pass | stale candidate list, uncommitted merges when a pass raises | merges are confirmed ones, without cycles |
| Reindex (`cli_reindex.py`, `cli_embedder.py`) | vector tables, `corpus_meta` | full and partial re-embed | drops tables under running servers | what lost its vector is found stale |
| Search (`search.py`, `graph_channel.py`, `rerank.py`, `expand.py`) | access buffer | channels, fusion, traversal, flush | buffered counters, cycles, ties | fusion and traversal compute their definition; no access counted twice |
| Memory graph (`graph.py`, `suggested_links.py`, `semantic_dedup.py`) | `edges` | link, unlink, traverse | cycles | each node once, within the depth |
| Code graph (`codebase/`) | `code_symbols`, `code_relations`, `codebase_scans`, `scan_locks` | scan, resolve, import, query | files change between phases; lock with an expiry | rows describe the files last scanned; one scan at a time |
| Connections (`db.py`) | connection cache, active project | get, override, close | transactions left open by a failed call | a failed call leaves nothing behind |
| Servers (`server.py`, `server_fastmcp.py`, `cli_serve.py`) | worker handle | dispatch, lifespan | decides once whether a worker runs | a worker runs when there is work |
| OAuth tokens (`auth/`) | credentials file | login, refresh | two processes, a rotating refresh token | a refreshed token is not lost |
| Hub configuration, embedder and LLM clients, CLI, skill installer | files | parse, call, print | little | parsing |

How they interact: `store`, `update` and `delete` write rows and enqueue tasks; the
worker claims tasks and writes vectors, entities and mentions through its own
connection; all connections pass through the migration runner; a hub-routed store
overrides the active project, takes the ownership token of that project, and calls
the same `store`; plain calls ask the ownership cache first.  Within one server
process tool calls are serialised by the event loop, so the concurrency is between
processes and with worker threads.

`PROJECT.json` lists every component with its files and status, and the hazards at
their lines.

## 2. The modules

| module | role |
|---|---|
| `TaskPool` | abstract: what the queue promises (submit, take, close, give back, discard) |
| `WorkQueue` | the queue table, the worker's loop, recovery, pruning, the dedup command; implements `TaskPool` |
| `Migrations` | `_migrate` run by any number of openers |
| `HubOwnership` | acquire / reclaim / release over the owner file, and the calls that consult it |
| `MemoryStore` | store, update, delete and the worker's reembed runs over the rows they share |
| `Entities` | the entity graph under agent calls, the worker's extractions and dedup passes |
| `Reindex` | re-embeds, servers with different embedders, and the embedding runs they race with |
| `Search` | one process's searches over two databases, their scores, and the access counters; the hub's fan-out |
| `MemoryGraph` | links between memories, their traversal, and the graph channel of search |
| `CodeGraph` | scans of a tree that changes, the scan lock, the rows scans leave behind |
| `CodeText` | what a scan reads out of a text in each language, and what the names resolve to |
| `CodeQueries` | path and impact queries, imports of other tools' graphs |
| `MC*` | constants for TLC; `MCGraphs` runs `MemoryGraph`, `CodeText` and `CodeQueries` side by side |
| `SharedFileProofs` | theorems about `HubOwnership` and `Migrations`, whose processes share a file |
| `ReadingProofs` | theorems about `MemoryGraph`, `CodeQueries` and `CodeText` |
| other `*Proofs` | theorems about the module of that name |

The dependencies between components are cut at one row or one file: `WorkQueue` has the
interleavings of the queue, so `MemoryStore`, `Entities` and `Reindex` keep only the
tasks their properties need; `Entities` writes the `canonical_id`s that `MemoryGraph`
reads; `CodeText` has the rules by which `CodeGraph`'s texts define and refer, and
`CodeGraph` the changes of the rows `CodeQueries` asks about.

### WorkQueue

`status`, `kind`, `mem` and `age` are the columns of `extraction_queue` (`age` is the
age of whichever timestamp the status makes matter); `pc`, `sel`, `runFor`,
`stopping` are a worker thread; `looking` is a `sage-memory dedup` between its SELECT
and its INSERT.  A claim is two actions, `Select` and `Claim`, because the code's
SELECT and conditional UPDATE are two statements; `ClaimLost` is the UPDATE that
changes no row.  Running a task is `Apply` (its effects are committed), then
`MarkDone` or `MarkFailed` by id only.  `Recover` is the startup recovery,
`MaybePrune` and `CliPrune` the two retention paths, `DeleteMemory` the cascade.
`Kill` may come at any point.  Time is a `Tick` that ages rows and runs; ages
saturate one above the threshold they are compared with.

### Migrations

One file has two effects with a possible crash between them: PHASE A (virtual
tables, autocommit) and PHASE B (everything else with the bump of `user_version`).
`version` is read once per open (`ReadVersion`).  `Once` is the set of files that fail when
executed twice, those with ALTER TABLE ADD COLUMN (in the repository: 3, 11, 13 of
13).  `alone` is chosen initially: in behaviours where it is TRUE opens do not overlap.

### HubOwnership

`owner`, `filled`, `age` are the file: `open(O_EXCL)` and the write of the JSON are two
steps, so an empty file is observable.  `pc[p]` walks through `acquire`; `Replace` and
`Verify` are `_reclaim_stale`; `RoutedStore` and `Import` hold the token while they
work.  `cached` is the process's `_disabled_writes` entry.  `overrun` records that a
reclaim replaced the claim of a process that was alive.  `OperatorRemoves` is the
`rm` the documentation recommends.

### MemoryStore

`row`, `vec`, `meta`, `chunks`, `textOf`, `left` are the tables; `todo[m]` counts
pending reembed tasks; `pc`, `mem`, `new`, `gave`, `saw` are a call in progress, `job`,
`on`, `doc`, `split`, `due`, `did`, `round` a worker inside `_do_reembed`.  One action is one committed
transaction or one read that a later transaction relies on: the embedder is called
between two transactions of `store` and of the worker, but inside the first one of
`update`, where nobody else can write; when it raises there, the chunk changes and the
deleted vector are committed together (`UpdateEmbedFails`).  `Cut` is a call that
raises or dies between two of its transactions.  `lapses[m]` is history: overlapping
calls, cut calls, failed embeddings, stopped workers, tasks that ran out of rounds.  The
properties name exactly the lapses they need, so each says what the code guards against
and what it does not.  The chunk rows of one split are one id with `Rows[k]` rows, which are
written and deleted together; of these `left[k]` have no vector yet.  A round reads at most `Batch` of
them (`ReadChunks`) and commits the vectors of all of those, or of the ones before the row on which
the embedder raised (`WriteChunks`); two workers may be at the same rows, which go in one order.  After
`MaxRounds` rounds the task is marked done whatever is left (`EndRound`).  A worker's death gives its
task back at once, which is `TaskPool`'s `GiveBack`; when the queue really does so is
`WorkQueue`'s subject.

Left out of `MemoryStore`: an embedder below the quality gate (then nothing is embedded
or enqueued), processes with different embedders, the `embedded` column (only read at
start-up and by the hub importer), vectors whose row is gone, tags, status and FTS
rows (kept by triggers).

### Entities

`mentions`, `relations` and `canonical` are the tables, `queue` the extract and dedup rows.
A client's call is the row's transaction, the agent's payload and the enqueueing,
each its own action because each commits; `CallCut` ends it anywhere; two clients may work on one memory.  A worker reads the
text (`ReadText`) and later writes the answer (`Extract`), validated by `WorkerCleans`; the agent's
payload goes through `AgentAccepts`, which refuses where the worker's drops.  A pass reads its candidates
once (`Begin`) and decides pair after pair; the merges of a --sync pass are one
transaction, those of the worker's stay open until the mark, also when the pass raises.
`replaced`, `read` and `confirmed` are history; `replaced` is set only by a payload that meets neither a task nor
another call on its memory (`Shared`): a store() that has written its row and not yet enqueued would otherwise
enqueue an extraction behind another process's REPLACE, and did so when the proof was first tried.

### Reindex

A vector is the embedder that computed it.  `FullReembed` drops the vector tables and keeps the
meta rows; `Partial` goes by the meta rows alone.  A server resolves its embedder once (`Start`)
from what the environment has, which may differ from the corpus; a worker selects stale items
(`Select`) and writes those whose dimension the table accepts (`Write`), others fail and are swallowed.  `kept` is
history: items dropped by a re-embed to the dimension they had.

### Search

`pc` goes through the legs of one database after the other; what a leg returns is any
sequence of the rows its SQL may return at that moment (`Visible`), so indices and distances
are free.  `Fuse` computes scores in fixed point, `Answer` blends with a rerank's order if there is
one.  `buffer`, `open`, `count` are the access counters, uncommitted updates included: another call
on the cached connection commits or rolls back what is open (`OtherCall`, for instance `acquire_scan_lock`).  In a
flush each row's UPDATE in each database fails or not (`Updated`), and then each database's commit (`Counted`): what
was updated and not committed stays open on that connection, and the buffer is emptied either way.  `Shutdown`
closes the connections and with them whatever is open.

### MemoryGraph, CodeText, CodeQueries

State machines only in that rows or texts grow; what is checked are functions, against definitions
that do not search: `Within` and `Layer` quantify over paths.  `CodeText` writes a text node by node, so that a
run goes through every text of that size, in each of py, ts/js, go, rs, java, rb, php and c/c++; the
grammar's nestings are `Inside`, an abstraction of tree-sitter.  `Walk` is the traversal's queue, one `Level`
after the other, with the sets of visited nodes and edges; in `CodeQueries` the two searches are `Spread`, what is
visited after so many levels.  An import takes for its own what its pattern matches (`Like`, as SQLite's LIKE is: without
case, with wildcards, and `a` matching `a:b`), so `Previous` may hold another tool's symbols; `Others` are the owners it
cannot reach.  `Reresolve` is the last step of a scan over imported and other rows without a target: any of them
may find a symbol of its name in its own file or in one of the scan's, which is how references come to cross
owners.

### CodeGraph

`symbols`, `relations`, `scans` are the tables and `orphans` the temporary one of a connection.  A file's
transaction is `Read`, then `Rescan` with the cascade it triggers and `Write`, since the bytes are read
twice and extraction fails in between (`FileFails`).  The definitions are read in two statements outside a transaction
(`ReadSymbols`, `ReadScans`: `defs`), then one transaction goes by them (`Resolve`, `ResolveFull`): the new
relations, the orphans, everything unresolved.  Another scan, after a lost lock, may delete symbols in
between.  A new row whose target or source is gone is dropped (`Sound`; `Lost` are those whose source is
there), an orphan whose source is gone makes the scan raise (`RestoreRaises`), and so does an unresolved row for which
step 3 finds a target that is gone (`UpdateRaises`); a scan that raises here has committed what it did before.  `owed` is
history: the files of which a scan had references in hand when it died or raised, or lost one in
`Lost`, until a scan that saw all the symbols of the file puts them back (`Settled`).

## 3. What the runs check

Symmetry is used for ids and processes in safety runs only.  `CHECK_DEADLOCK FALSE`
appears where the bound on calls or ids, or all workers having stopped, ends a
behaviour legitimately.

| run | instance | shows |
|---|---|---|
| `workqueue` | 2 tasks, 2 workers, 1 memory, 1 dedup command, 1 stop or death | at most one runner; closed rows stay closed; rows leave only with their memory or after retention; `done` means applied; one open dedup task; refinement of `TaskPool`.  `MaxRun = Stale`: no run outlasts the recovery limit |
| `workqueue_live` | 2 tasks, 2 workers, fair | pending tasks are served; orphans run again after a late enough restart |
| `migrations` | 3 openers, 4 files of both kinds, every start version, 2 failures | what is safe under any overlap, and what needs opens not to overlap |
| `migrations_race` | the same, no failure | **violated**: `RestsReopenable` |
| `hub` | 2 processes, 3 tries, 1 crash, operations up to twice the limit, fair | one holder and standing claims until a live claim is reclaimed; a dead process's claim is taken over |
| `memory` | 1 memory, 3 content lengths, 2 processes, 2 workers, 3 calls, 2 splits of 3 rows, batches of 2, 2 rounds, 1 death | vectors and chunks follow the content; unembedded chunks have a task, or one of the named lapses |
| `memory_live` | 2 memories, 2 processes, 1 worker, 2 calls, splits of 3 and of 5 rows, batches of 2, 2 rounds, 1 death, fair | chunk rows get their vectors, or one of the named lapses; two stores of one content meet the UNIQUE index |
| `entities` | 2 memories, 2 texts, 3 entities of one type, 2 clients, 1 worker, 1 --sync process, 2 calls, 2 passes, 1 failure or death, fair | merges are confirmed ones; a payload stands; texts left to the worker are extracted |
| `codegraph` | 2 files, 2 texts, 2 scanners, 2 scans, 1 edit after the initial texts, 1 failure or death | symbols match the registered text; references have rows, but for those `owed`; one scan unless overrun |
| `reindex` | 2 memories, one with a chunk, 3 embedders of 2 dimensions, 2 servers, 2 reindex commands, 1 swallowed failure | what has no vector is found by the partial reindex |
| `search` | 2 project rows, 1 global row, buffer and answers of 2, 2 calls, 1 change between statements | answers show active rows; fusion is monotone in the lists; accesses are counted at most once |
| `graphs` | 3 memories, 2 entities, depth 2, 3 changes; texts of 3 nodes and a second file, 8 languages; code graphs of 3 symbols, 2 tools of which one's pattern matches the other, 3 artifacts, 2 imports, depths 0 to 2 | the two traversals compute their definition; parents are inserted first; names resolve to what is written; path and impact answers are honest; imports leave alone the rows of whoever their pattern does not match |

Why the bounds are enough.  *Queue*: the interactions are between two workers at one
row, or one worker and a delete, prune or recovery of its row; a second task lets the
order of selection matter.  Thresholds of one time unit keep every "before" and
"after".  *Migrations*: a slow opener, a fast one and a third that finds the result;
four files give a repeatable file before, between and after unrepeatable ones.
*Hub*: a dead owner and one who retries; the safety properties are proved for any number.  *Memory*: three calls are a store and two
overlapping updates, or update and delete; the three lengths are above, between
and below the two thresholds; two splits are an old and a new set of chunk rows, with a
worker still holding the old one.  A split of three rows takes two batches, as many as a task has rounds, so that a
failing embedder or a second worker in between matters; one of five is beyond them.  A second memory adds only the UNIQUE
index on content, which `memory_live` has.  *Entities*: a chain or a cycle of merges needs three
entities and two passes; a REPLACE against a queued or running extraction needs two calls.
*Code graph*: an edge needs two files, its loss a rescan of either; two scanners
overrun the lock, and one text that refers and one that defines let a scan read definitions that the other
deletes before the insert.  *Reindex*: two embedders with one dimension, one with another, the weak one
that never embeds; two re-embeds to go there and back.  *Search*: a row in both lists, one only the graph has, one of the other database; two rows in a
buffer and two databases let each of the four UPDATEs and two commits of a flush fail on its own.
*Graphs*: a cycle and two ways of different length need three nodes, a symbol in a symbol
with a call in it three declarations.

Fairness.  A worker thread that is running takes its next step, since it polls and
its SQLite calls return after at most the busy timeout; a migration or an `acquire` in
progress goes on; calls return or raise, and a call to the language model ends with an answer or by its
timeout (`Entities`).  `Start` of a worker is assumed in
`workqueue_live` and a worker in `memory_live` and `entities`: the server decides this in
`_needs_worker`, once, and not always in favour (see the findings).  In `hub` each
process keeps trying to acquire, up to its bound (weak fairness on `Begin`): that a dead claim is
taken over needs somebody who asks for the token, as every routed store does.  In
`migrations` somebody keeps opening the database (weak fairness on some `ReadVersion`), since
every session does: that a death between the phases is made good needs a later opener.  In the
other runs nobody is assumed to make calls, and in none to die or be stopped; time passes.

Each property of a passing run has a mutant: an operator beside the original, named
in PROJECT.json, that changes one definition as a plausible bug would and makes TLC
refute the property.

The type invariants of `WorkQueue`, `Migrations`, `HubOwnership` and `MemoryStore` are not in the runs:
they are proved for every instance.

## 4. What is proved

All for every value of the constants, from the assumptions named in the modules.

*WorkQueue.*  `TypeCorrect`; `OneRunner` and `ClosedStays` under `MaxRun <= Stale`;
`RowsLeave` and `DoneIsTrue` without it; `OneOpenDedup` for a single invocation.
`AtMostOneRunner` is not inductive: that two workers do not run one row depends on the
row still saying `running`, with an age equal to the time its runner has spent.  That is
`HolderRuns`, and with it a recovery that respects `Stale` cannot touch a held row
because its runner has been at it for at most `MaxRun`.  `DoneIsTrue` rests on the effects
being committed by the run that marks (`AppliedIsApplied`), `OneOpenDedup` on the look
being still true at the insert (`LookIsFresh`).

*Migrations* (SharedFileProofs).  `SchemaTypeCorrect`; `VersionCovered` and `SchemaIsThere` through `Passed`: whatever an opener skipped or went through is
in `applied` and `tables`, which only grow.  `FilesInOrder` follows.  `AloneStaysOpenable` and
`AloneAdvances` through `Sequential`: without overlap the opener's `next` is `version + 1`
and nothing beyond `version` has been applied.

*HubOwnership* (SharedFileProofs).  `TypeCorrect`; `HolderIsUnique` and `ClaimStands` through `ClaimsAreOnFile`: as long as no live
claim was replaced, a process that has or is about to have the token is the file's
owner.  `PunctualOneHolder`: if no operation outlasts the limit and nobody dies there is
one holder throughout; there the invariant is `NothingStale`: a claim on file is as old as its owner's
clock, so nobody ever gets as far as replacing it.

*MemoryStore.*  `TypeCorrect`; `ChunksQueued` and `VectorsCurrent`, for any sizes of splits, batches and rounds.
`ChunksAreQueued` alone is not inductive, for a worker that has read an older split of
the memory's chunks holds its task but will not embed the present one.  `ChunksServed`
counts only workers that will read the chunks or have read the present ones
(`WillEmbed`): such a worker has rounds to come, or is in its last one, whose end marks what
it leaves as a lapse; whoever replaced a split still has to enqueue, or has.  A memory without a
row has no chunks, which is why a dead worker's row lost with its memory loses nothing.
`VectorIsCurrent` needs `VectorsKept`: as long as nothing overlapped, the document a call or a run has
in hand for a memory is the memory's row (`InHand`), and a store() that has not inserted
is alone with its id (`InsertOK`).

`ChunksFollow` needs to know what a call between its look and its writes knows: `ChunksDue` says that a
memory's chunk rows are those its content asks for (`Fits`), or a call in progress owes the change and holds what it
takes to make it (`Owes`, `Knows`).  Alone with its memory, the call then finds the rows it read.

*WorkQueue refines TaskPool.*  `QueueIsPool`: under `MaxRun <= Stale` every step of the queue is a step of the pool or
none.  A claim is the pool's take, a mark its close, a recovery its give-back, for which nobody may hold the
row: `AtMostOneRunner`'s invariant again, on which the refinement therefore rests.  `FreshIsUnbound`, that a row not
yet inserted belongs to no memory, is needed because a delete would otherwise discard ids
that were never submitted.

*Entities.*  `MergesConfirmed` through `PassesAreConfirmed`: what a pass has in hand as confirmed stays confirmed and
ordered, since a pass reads its candidates once and entities never change type or age; the ordering excludes cycles for any number of
overlapping passes.  `ReplacementStands` through `ReplaceInv`: while a payload stands no task of its memory is
pending or running and no call is about to enqueue one.

*CodeGraph.*  `OneScan`: every scan running beyond the first is one whose lock was taken over after the threshold.
`SymbolsMatch` rests on what each scan has in hand (`FileInHand`) and on every registration naming a memory of its
own file (`OwnMemory`), so that a rescan of one file cannot touch another's symbols.  `ReferencesStay` adds, for every
reference of a registered text, that its row is there (`Has`), or a scan will insert it (`Will`), or it is `owed`.  A scan with
the file's references in its sink will, as long as the definitions it has read or is yet to read hold the file's symbols (`Knows`):
of a row it then makes the source is there, so either the row is inserted or its target is gone and `Lost` has the
file (`SinkHas`).  A rescan of the file in between leaves the older scan without the new symbols, and has the references in a sink
of its own.

*Reindex.*  `LostVectorsFound`: an item without a vector has no meta row naming the corpus's embedder, except those a
re-embed to the same dimension dropped (`kept`).

*Reading.*  `TraversalExact`, `AnswersHonest` and `OthersUntouched` (ReadingProofs).  The first two are about searches
that compute by recursion.  The library's induction theorems cannot be used (their parameter is an operator), but that
`<` is well founded on the naturals can: `LeastNumber` follows, from it induction over a set of numbers
(`AllNumbers`), and from that functions defined by recursion from one state to the next (`Recursion`).  The walk over
memories then has, after `d` levels, seen what paths of `d` edges lead to, and read the edges at all of it but the last
level (`Walked`); the delicate point is an edge read at one end and met again at the other (`ReadTwice`).  `AnswersHonest` says
of `find_path` that a path found is shortest and silence means there is none, of `affected` that it is complete
unless truncated; both rest on `AllAnchored`, that references have their ends in the table, which imports and scans
preserve.  The same invariant, with a reference's source being of its owner and its target of its owner or the
scan's, gives `OthersUntouched`: what an import takes away with the symbols its pattern matches is of owners
the pattern matches, although scans resolve references across files.  Their hypothesis `Given` says that names of symbols and depths
are numbers, NULL is not a row, and no pattern matches the hash of a scanned file.

`HopsAreBest`: the graph channel gives each memory its shortest distance from the query's entities and the best rank among the
hops onto it from the memories one nearer, for any finite number of memories, weights and cap (`Ranked`, which TLC evaluates) and
any edges, relations and merges.  Python takes the hops in the order SQLite returns them, the model in one a fold chooses.  A fold
over a finite set is a function on its subsets (`Folding`, `AllSubsets`), and taking a hop keeps at each memory the best
of those taken (`StepExtends`, `TakeExtends`), whatever the order.  A level therefore adds the best of all hops out of the last
(`ExpandedIs`).  That a memory reached at one level is never overwritten at a later one is `Extends`, and that the last level is
the set of memories at that distance is `Searched`, which each level keeps (`SearchedStep`).

`ParentsFirst` and `NamesResolve`, of `CodeText`, are about any text that has grown node by node (`Grown`, kept by
`Write`: `Growth`) and a second file that has too; TLC's library is checked to be such.  The symbols around a node
are computed by recursion from node to node; that there is such a function (`Descent`), and that the last
of them is captured with the rest of them around it (`AroundIs`), is all the rest needs.  Languages fall in two groups: those that nest
names (`NestedIs`), where a parent's qualified name is the chain's, and Go and Rust, which put a type before the
name (`OfTypeIs`), where the parent is the last symbol before with that name.  A parent's line is not later (`LinesGoUp`), and
its name is a prefix, hence it sorts first.  `NamesResolve` rests on what each resolver asks for
being a stored row of that name and file (`DefIs`: of rows with one name there is a last one, `LastRow`), and on the source
symbol being one (`SourceIs`); then each language has its lemma.  `Distinct` says that `self` is not a declared name and NULL
not a row, `Elsewhere` that no path contains "..": with such a path TypeScript's "../" imports would resolve.

*Search.*  `TypeCorrect`: an answer has no more rows than asked for, and only such as were active at some time of the
call.  It needs what each stage of the call has in hand (`Stage`): the lists and the candidates hold rows the call has seen
active, and candidates differ in the place they came at.  Hence the order by score and place is total on
them, and picking for each place the candidate with so many before it (`InOrder`) lists each once (`EachPlace`,
`SortedIs`); reranking, the back-fill and the hub's fan-out keep that.  `CountedOnce` holds what is counted, about to
be committed or buffered against what was shown, through a flush of which any UPDATE and any database's commit may fail (`UpdatedAre`), a commit or
rollback that another call makes, a shutdown and death (`FlushCounts`, `FinishCounts`, `ShutdownCounts`, `OtherCounts`); it rests on an answer
showing a row once.  `AheadIsHigher`: of two rows, one ahead of the other in every list scores at least as high, in every database and
for any lists.  A place's share falls with the place (`SharesFall`), so by induction over the places of a list a row that has always
been listed as often as the other has as large a sum (`LeadStep`, `AheadGetsMore`); fusion, the division by the
spread of the scores and the boosts keep it (`FusedIsHigher`, `ScoreIs`).

The type invariants of all eight components with processes are proved.

Only model-checked: liveness and fairness (`PendingIsServed`, `LateRestartRecovers`,
`AloneMigrates`, `DeadClaimIsReclaimed`, `ChunksGetVectors`, `EveryTextIsRead`), which the provers do not
handle.  Every invariant and action property of a passing run is stated by a theorem.

## 5. Findings

In PROJECT.json, each at its line.  `migrations_race` runs one: user_version moved backwards by
overlapping opens.  For most of the others a module states what a comment or the documentation says, under "what the code
does not keep", and TLC refutes that definition when it is given as an INVARIANT (or PROPERTY) in place of
those of the module's cfg:

| definition | module and cfg | what happens |
|---|---|---|
| `AtMostOneRunner` | `WorkQueue`, MCWorkQueue with `MaxRun = 2` | recovery resets a live run |
| `OneHolder` | `HubOwnership`, `Proc <- MCProc`, `MaxOp = 1` | two reclaimers of one dead claim |
| `HolderMayWrite` | `HubOwnership`, `MaxCrash = 0` | a holder refused by its own cache |
| `VectorOrStale`, `PartialUpdate` | `MemoryStore` | a vector lost by a failed re-embedding; a lost update |
| `CanonicalIsRoot`, `ReplaceIsFinal` | `Entities` | chains of merges; an extraction after a REPLACE |
| `TargetsAreCurrent`, `OrphansRestore`, `NothingIsLost` | `CodeGraph` | edges into old versions; a restore that raises; a reference dropped with its target |
| `PartialFindsAll` | `Reindex` | vectors lost at an unchanged dimension |
| `FilterTagsHold` | `Search` | graph-only rows without the tags |
| `RelationFilterHolds` | `MemoryGraph`, MCGraphs | `OR` and `AND` without parentheses |
| `EveryTextIsStored`, `CallersAreAround`, `ImportsLeaveTheFile`, `ParentImportsResolve` | `CodeText`, MCGraphs | files rejected, calls and imports attributed wrongly |
| `ReplaceIsComplete`, `RegistrationsStay`, `ToolsAreApart`, `NoSilentUpgrades`, `PathsAreFacts` | `CodeQueries`, MCGraphs | imports of two tools, one with the other's name for its pattern; guesses taken for facts |

(A definition of `CodeText` or `CodeQueries` is reached in MCGraphs as `Code!` or `Queries!`, under a name of
its own.)

Seen while reading and not run: tasks enqueued with no worker to run them, chunk vectors
that outlive their chunks, `embedder use` failing with a TypeError, re-embedding to the same model losing all
vectors, tasks that a worker with an old embedder marks done, failed calls that leave a transaction open, relations lost between a scan's
two commits, `--force` without the full resolution it promises, a query embedding outside every
`try`, a second copy of the fusion, access counts of a project that was left, memories of more than 1600
chunks whose last ones stay without vectors, chunks past the cap that are embedded although they are said to be deferred, and
a scan that raises on a target deleted since it read the definitions.

## 6. Not modelled, and the plan

What remains, in order of worth:

1. **Connections**: transactions left open by a failed call, and what the next call of
   that and of other processes sees.
2. **Token refresh** of two processes; what a spent refresh token is answered with is the provider's, so
   there is little the code could be held to.
3. **Code graph**: the walker's ignore rules and limits, `hubs`, the caps on visited symbols.
4. **Text edits** of the skill installer, as a function at most.

The benchmark scripts under `evaluation/` are not part of the program.  Out of reach or out of scope: FTS5, vector distance and tree-sitter parsing (libraries);
the wording of prompts and reports; HTTP.
