------------------------------ MODULE Entities ------------------------------
(***************************************************************************)
(* The entity graph of a project database: the rows of entities, mentions  *)
(* and relations, and everything that writes them -- the agent's payload   *)
(* in store() and update(), the worker's extract tasks, and the dedup      *)
(* passes of the worker and of `sage-memory dedup --sync`.                 *)
(*                                                                         *)
(* An entity stands for its key (name_normalized, type); entities are      *)
(* numbered in the order (type, name) in which a pass reads them.  A       *)
(* memory has one mention row per entity (the surface form is left out).   *)
(* Every text is long enough to be extracted and a language model is       *)
(* configured.  WorkQueue has the queue's own interleavings; here its      *)
(* extract and dedup rows are a list, the oldest first.                    *)
(***************************************************************************)
EXTENDS Naturals, FiniteSets, Sequences

CONSTANTS
    Memory, Text,
    NumEntities,
    TypeOf, NameOf,      \* of each entity
    Payload,             \* what an agent or the model may answer, uncleaned
    Bad,                 \* an item of a payload that fails validation
    MaxEntities,         \* _AGENT_MAX_ENTITIES, max_entities
    Client, Worker, Cli, \* agent sessions, worker threads, --sync processes
    None, Unborn, Gone,
    Given, Lost,         \* values of read
    Dedup,               \* a dedup row of the queue
    MaxCalls, MaxPasses, MaxTrouble   \* bounds of the model

Entity == 1..NumEntities
Name   == {NameOf[e] : e \in Entity}

ASSUME KeysAreUnique ==
    /\ NumEntities \in Nat
    /\ \A e, f \in Entity : TypeOf[e] = TypeOf[f] /\ NameOf[e] = NameOf[f] => e = f

\* An item of a payload names entities, or is invalid.
ASSUME PayloadsNameEntities ==
    /\ Payload \subseteq [ents : SUBSET (Entity \cup {Bad}), rels : SUBSET ((Name \X Name) \cup {Bad})]
    /\ MaxCalls \in Nat /\ MaxPasses \in Nat /\ MaxTrouble \in Nat

\* What is left of a payload.
Clean == [ents : SUBSET Entity, rels : SUBSET (Name \X Name)]

\* The values that stand for nothing are nothing else.
ASSUME NullsAreNew ==
    /\ None \notin Entity /\ None \notin Memory \cup Text \cup Worker \cup Cli
    /\ None \notin Clean
    /\ Unborn \notin Text /\ Gone \notin Text \cup {Unborn}
    /\ Dedup \notin Memory /\ Worker \cap Cli = {}

VARIABLES
    content,     \* the text of a memory
    mentions,    \* pairs <<memory, entity>>
    relations,   \* [src, tgt, mem]
    count,       \* mention_count; 0: no such row
    canonical,   \* canonical_id
    queue,       \* open rows of the queue nobody runs
    call,        \* the store() or update() a client is in
    job,         \* the row a worker runs
    pass,        \* a dedup pass: pairs to come, updates not committed
    locked,      \* who holds the database's write lock across steps
    confirmed,   \* history: pairs the model called the same
    read,        \* history: what was extracted from the memory's text
    replaced,    \* history: an agent's payload nothing was under way against
    calls, passes, trouble

graph == <<content, mentions, relations, count>>
vars  == <<graph, canonical, queue, call, job, pass, locked, confirmed, read,
           replaced, calls, passes, trouble>>

Actor == Worker \cup Cli
Alive(m) == content[m] \in Text
NoCall == [kind |-> "none", mem |-> None, pay |-> None]
NoJob  == [kind |-> "none", mem |-> None, text |-> None, tries |-> 0]
NoPass == [on |-> FALSE, todo |-> {}, merges |-> [e \in Entity |-> None]]

\* Every variable has its type.
TypeOK ==
    /\ content \in [Memory -> Text \cup {Unborn, Gone}]
    /\ mentions \subseteq {m \in Memory : Alive(m)} \X Entity
    /\ relations \subseteq [src : Entity, tgt : Entity, mem : Memory \cup {None}]
    /\ count \in [Entity -> Nat]
    /\ canonical \in [Entity -> Entity \cup {None}]
    /\ queue \in Seq(Memory \cup {Dedup})
    /\ call \in [Client -> [kind : {"none", "store", "update"},
                            mem : Memory \cup {None}, pay : Clean \cup {None}]]
    /\ job \in [Worker -> [kind : {"none", "extract", "applied", "dedup"},
                           mem : Memory \cup {None}, text : Text \cup {None}, tries : 0..2]]
    /\ pass \in [Actor -> [on : BOOLEAN, todo : SUBSET (Entity \X Entity),
                           merges : [Entity -> Entity \cup {None}]]]
    /\ locked \in Actor \cup {None}
    /\ confirmed \subseteq Entity \X Entity
    /\ read \in [Memory -> {None, "read", Given, Lost}]
    /\ replaced \in [Memory -> Clean \cup {None}]
    /\ calls \in 0..MaxCalls /\ passes \in 0..MaxPasses /\ trouble \in 0..MaxTrouble

Init ==
    /\ content = [m \in Memory |-> Unborn]
    /\ mentions = {} /\ relations = {}
    /\ count = [e \in Entity |-> 0]
    /\ canonical = [e \in Entity |-> None]
    /\ queue = <<>>
    /\ call = [p \in Client |-> NoCall]
    /\ job = [w \in Worker |-> NoJob]
    /\ pass = [a \in Actor |-> NoPass]
    /\ locked = None
    /\ confirmed = {}
    /\ read = [m \in Memory |-> None]
    /\ replaced = [m \in Memory |-> None]
    /\ calls = 0 /\ passes = 0 /\ trouble = 0

-----------------------------------------------------------------------------
(* Payloads *)

\* An agent's payload is rejected as a whole when an item is invalid or there
\* are too many items.
AgentAccepts(raw) ==
    /\ Bad \notin raw.ents /\ Bad \notin raw.rels
    /\ Cardinality(raw.ents) <= MaxEntities

\* A model's answer loses its invalid items, and what is beyond the cap; which
\* entities come first is the model's choice.
WorkerCleans(raw) ==
    LET good == raw.ents \ {Bad}
        size == IF Cardinality(good) < MaxEntities THEN Cardinality(good) ELSE MaxEntities
    IN  {[ents |-> E, rels |-> raw.rels \ {Bad}] :
            E \in {E \in SUBSET good : Cardinality(E) = size}}

\* The entities a relation's endpoint may resolve to: one of the payload with
\* that name, else the most mentioned row with it.  cnt is count after the upserts.
Ends(n, pay, cnt) ==
    LET own  == {e \in pay.ents : NameOf[e] = n}
        rows == {e \in Entity : NameOf[e] = n /\ cnt[e] > 0}
    IN  IF own # {} THEN own ELSE {e \in rows : \A f \in rows : cnt[f] <= cnt[e]}

\* write_extraction of pay for m, after the rows of `old` mentions and
\* relations went: for a memory that is gone the foreign key refuses the
\* mentions and relations, which is taken for a replay; the upserts stay.
Write(m, pay, oldMentions, oldRelations) ==
    LET cnt  == [e \in Entity |-> IF e \in pay.ents THEN count[e] + 1 ELSE count[e]]
        ends == [n \in Name |-> Ends(n, pay, cnt)]
    IN  /\ count' = cnt
        /\ mentions' = (mentions \ oldMentions)
                          \cup (IF Alive(m) THEN {m} \X pay.ents ELSE {})
        /\ \E f \in [Name -> Entity \cup {None}] :
              /\ \A n \in Name : IF ends[n] = {} THEN f[n] = None ELSE f[n] \in ends[n]
              /\ relations' = (relations \ oldRelations) \cup
                    {[src |-> f[r[1]], tgt |-> f[r[2]], mem |-> m] :
                        r \in {r \in pay.rels : /\ Alive(m)
                                                /\ f[r[1]] # None /\ f[r[2]] # None}}

MentionsOf(m) == {x \in mentions : x[1] = m}
RelationsOf(m) == {r \in relations : r.mem = m}
Orphaned(m) == {[src |-> r.src, tgt |-> r.tgt, mem |-> None] : r \in RelationsOf(m)}

-----------------------------------------------------------------------------
(* The agent's calls *)

Free(a) == locked \in {None, a}
Fresh(m, c) == \A n \in Memory \ {m} : content[n] # c
Calls == calls < MaxCalls /\ calls' = calls + 1

\* An extract row for m is open: queued, or in a worker's hands.
Pending(m) ==
    \/ \E i \in 1..Len(queue) : queue[i] = m
    \/ \E w \in Worker : job[w].kind \in {"extract", "applied"} /\ job[w].mem = m

\* _enqueue_extract, unless a row for m is open already.
EnqueueUnlessPending(m) ==
    queue' = IF Alive(m) /\ ~Pending(m) THEN Append(queue, m) ELSE queue

\* _enqueue_extract; of a memory that was deleted the foreign key refuses the row.
Enqueue(m) == queue' = IF Alive(m) THEN Append(queue, m) ELSE queue

\* raw = None: the call has no payload.
Cleaned(raw) == IF raw = None THEN None ELSE raw

\* store(): the row is committed, the rest of the call follows.
StoreRow(p, m, c, raw) ==
    /\ call[p] = NoCall /\ Calls
    /\ raw # None => AgentAccepts(raw)
    /\ locked = None
    /\ content[m] = Unborn /\ Fresh(m, c)
    /\ content' = [content EXCEPT ![m] = c]
    /\ call' = [call EXCEPT ![p] = [kind |-> "store", mem |-> m, pay |-> Cleaned(raw)]]
    /\ UNCHANGED <<mentions, relations, count, canonical, queue, job, pass, locked,
                   confirmed, read, replaced, passes, trouble>>

\* update() with new content: the vector's commit publishes the row.
UpdateRow(p, m, c, raw) ==
    /\ call[p] = NoCall /\ Calls
    /\ raw # None => AgentAccepts(raw)
    /\ locked = None
    /\ Alive(m) /\ content[m] # c /\ Fresh(m, c)
    /\ content' = [content EXCEPT ![m] = c]
    /\ read' = [read EXCEPT ![m] = None]
    /\ replaced' = [replaced EXCEPT ![m] = None]
    /\ call' = [call EXCEPT ![p] = [kind |-> "update", mem |-> m, pay |-> Cleaned(raw)]]
    /\ UNCHANGED <<mentions, relations, count, canonical, queue, job, pass, locked,
                   confirmed, passes, trouble>>

\* The last transaction of a store(): the payload's rows, or the extract row.
FinishStore(p) ==
    /\ call[p].kind = "store" /\ locked = None
    /\ LET m == call[p].mem  pay == call[p].pay IN
         /\ IF pay # None
            THEN Write(m, pay, {}, {}) /\ queue' = queue
            ELSE /\ Enqueue(m)
                 /\ UNCHANGED <<mentions, relations, count>>
         /\ read' = IF pay # None THEN [read EXCEPT ![m] = Given] ELSE read
    /\ call' = [call EXCEPT ![p] = NoCall]
    /\ UNCHANGED <<content, canonical, job, pass, locked, confirmed, replaced,
                   calls, passes, trouble>>

\* Another client's call has published m's row and not finished.
Shared(p, m) == \E q \in Client \ {p} : call[q].mem = m

\* REPLACE: the payload takes the place of all the memory has.
Replace(p, m, pay) ==
    /\ Write(m, pay, MentionsOf(m), RelationsOf(m))
    /\ read' = [read EXCEPT ![m] = Given]
    /\ replaced' = [replaced EXCEPT ![m] =
                       IF Pending(m) \/ Shared(p, m) \/ ~Alive(m) THEN None ELSE pay]

\* As FinishUpdate, but the payload's extract row is not suppressed.
FinishUpdateEnqueues(p) ==
    /\ call[p].kind = "update" /\ locked = None
    /\ LET m == call[p].mem  pay == call[p].pay IN
         IF pay # None
         THEN Replace(p, m, pay) /\ queue' = Append(queue, m)
         ELSE /\ Enqueue(m)
              /\ UNCHANGED <<mentions, relations, count, read, replaced>>
    /\ call' = [call EXCEPT ![p] = NoCall]
    /\ UNCHANGED <<content, canonical, job, pass, locked, confirmed, calls, passes, trouble>>

\* The last transaction of an update() with new content.
FinishUpdate(p) ==
    /\ call[p].kind = "update" /\ locked = None
    /\ LET m == call[p].mem  pay == call[p].pay IN
         IF pay # None
         THEN Replace(p, m, pay) /\ queue' = queue
         ELSE /\ Enqueue(m)
              /\ UNCHANGED <<mentions, relations, count, read, replaced>>
    /\ call' = [call EXCEPT ![p] = NoCall]
    /\ UNCHANGED <<content, canonical, job, pass, locked, confirmed, calls, passes, trouble>>

\* update() of entities and relations only: one transaction, no extract row.
UpdateGraph(p, m, raw) ==
    /\ call[p] = NoCall /\ Calls
    /\ AgentAccepts(raw) /\ Alive(m) /\ locked = None
    /\ Replace(p, m, raw)
    /\ UNCHANGED <<content, canonical, queue, call, job, pass, locked, confirmed,
                   passes, trouble>>

\* As Delete, but the mentions do not cascade.
DeleteKeepsMentions(m) ==
    /\ Calls /\ Alive(m) /\ locked = None
    /\ content' = [content EXCEPT ![m] = Gone]
    /\ relations' = (relations \ RelationsOf(m)) \cup Orphaned(m)
    /\ replaced' = [replaced EXCEPT ![m] = None]
    /\ UNCHANGED <<mentions, count, canonical, queue, call, job, pass, locked, confirmed,
                   read, passes, trouble>>

\* delete(): mentions go with the memory, its relations lose it.
Delete(m) ==
    /\ Calls /\ Alive(m) /\ locked = None
    /\ content' = [content EXCEPT ![m] = Gone]
    /\ mentions' = mentions \ MentionsOf(m)
    /\ relations' = (relations \ RelationsOf(m)) \cup Orphaned(m)
    /\ replaced' = [replaced EXCEPT ![m] = None]
    /\ UNCHANGED <<count, canonical, queue, call, job, pass, locked, confirmed, read,
                   passes, trouble>>

\* A call ends between its commits: an exception, a busy database, a death.
CallCut(p) ==
    /\ call[p] # NoCall
    /\ trouble < MaxTrouble /\ trouble' = trouble + 1
    /\ read' = [read EXCEPT ![call[p].mem] = Lost]
    /\ call' = [call EXCEPT ![p] = NoCall]
    /\ UNCHANGED <<graph, canonical, queue, job, pass, locked, confirmed, replaced,
                   calls, passes>>

-----------------------------------------------------------------------------
(* Extract tasks *)

\* The worker takes the oldest row.
Claim(w) ==
    /\ job[w] = NoJob /\ queue # <<>> /\ Free(w)
    /\ queue' = Tail(queue)
    /\ job' = [job EXCEPT ![w] =
          IF Head(queue) = Dedup THEN [NoJob EXCEPT !.kind = "dedup"]
          ELSE [kind |-> "extract", mem |-> Head(queue), text |-> None, tries |-> 0]]
    /\ UNCHANGED <<graph, canonical, call, pass, locked, confirmed, read, replaced,
                   calls, passes, trouble>>

\* _do_extract reads the text; a task of a memory that is gone fails.
ReadText(w) ==
    /\ job[w].kind = "extract" /\ job[w].text = None
    /\ job' = [job EXCEPT ![w] =
          IF Alive(job[w].mem) THEN [job[w] EXCEPT !.text = content[job[w].mem]] ELSE NoJob]
    /\ UNCHANGED <<graph, canonical, queue, call, pass, locked, confirmed, read, replaced,
                   calls, passes, trouble>>

\* The task of job j is over with outcome o for the text it read.
ReadAs(j, o) == IF content[j.mem] = j.text THEN [read EXCEPT ![j.mem] = o] ELSE read

\* The model answered: the cleaned answer is written and committed.
Extract(w, raw) ==
    /\ job[w].kind = "extract" /\ job[w].text # None /\ Free(w)
    /\ \E pay \in WorkerCleans(raw) : Write(job[w].mem, pay, {}, {})
    /\ read' = ReadAs(job[w], "read")
    /\ job' = [job EXCEPT ![w].kind = "applied"]
    /\ UNCHANGED <<content, canonical, queue, call, pass, locked, confirmed, replaced,
                   calls, passes, trouble>>

\* A malformed answer: asked once more, then the task fails.
Malformed(w) ==
    /\ job[w].kind = "extract" /\ job[w].text # None
    /\ trouble < MaxTrouble /\ trouble' = trouble + 1
    /\ IF job[w].tries = 0
       THEN job' = [job EXCEPT ![w].tries = 1] /\ read' = read
       ELSE job' = [job EXCEPT ![w] = NoJob] /\ read' = ReadAs(job[w], Lost)
    /\ UNCHANGED <<graph, canonical, queue, call, pass, locked, confirmed, replaced,
                   calls, passes>>

\* _mark_done, a commit of its own.
MarkDone(w) ==
    /\ job[w].kind = "applied" /\ Free(w)
    /\ job' = [job EXCEPT ![w] = NoJob]
    /\ UNCHANGED <<graph, canonical, queue, call, pass, locked, confirmed, read, replaced,
                   calls, passes, trouble>>

\* The worker dies: an open transaction is gone with it, and a restart puts
\* the running row back, as old as it is.
WorkerDies(w) ==
    /\ job[w] # NoJob
    /\ trouble < MaxTrouble /\ trouble' = trouble + 1
    /\ queue' = <<IF job[w].kind = "dedup" THEN Dedup ELSE job[w].mem>> \o queue
    /\ job' = [job EXCEPT ![w] = NoJob]
    /\ pass' = [pass EXCEPT ![w] = NoPass]
    /\ locked' = IF locked = w THEN None ELSE locked
    /\ UNCHANGED <<graph, canonical, call, confirmed, read, replaced, calls, passes>>

-----------------------------------------------------------------------------
(* Dedup passes *)

\* _candidate_entities, as a set.
Candidates == {e \in Entity : canonical[e] = None /\ count[e] >= 2}

\* The pairs of a pass, and the one of those left that its two loops come to next.
Pairs(E) == {x \in E \X E : x[1] < x[2] /\ TypeOf[x[1]] = TypeOf[x[2]]}
Before(x, y) == x[1] < y[1] \/ (x[1] = y[1] /\ x[2] < y[2])
IsNext(a, x) == x \in pass[a].todo /\ \A y \in pass[a].todo \ {x} : Before(x, y)

\* `sage-memory dedup`: a row for the worker unless one is open.
DedupEnqueue ==
    /\ passes < MaxPasses /\ passes' = passes + 1
    /\ locked = None
    /\ \A i \in 1..Len(queue) : queue[i] # Dedup
    /\ \A w \in Worker : job[w].kind # "dedup"
    /\ queue' = Append(queue, Dedup)
    /\ UNCHANGED <<graph, canonical, call, job, pass, locked, confirmed, read, replaced,
                   calls, trouble>>

\* run_pass reads its candidates once.
Begin(a) == pass' = [pass EXCEPT ![a] =
                        [on |-> TRUE, todo |-> Pairs(Candidates), merges |-> NoPass.merges]]

\* The worker's pass reads outside of any transaction.
WorkerPass(w) ==
    /\ job[w].kind = "dedup" /\ ~pass[w].on
    /\ Begin(w)
    /\ UNCHANGED <<graph, canonical, queue, call, job, locked, confirmed, read, replaced,
                   calls, passes, trouble>>

\* --sync: BEGIN IMMEDIATE comes first.
SyncPass(s) ==
    /\ ~pass[s].on
    /\ passes < MaxPasses /\ passes' = passes + 1
    /\ locked = None /\ locked' = s
    /\ Begin(s)
    /\ UNCHANGED <<graph, canonical, queue, call, job, confirmed, read, replaced,
                   calls, trouble>>

\* A pair that is not similar enough, or that the model tells apart.
Skip(a) ==
    /\ \E x \in pass[a].todo : /\ IsNext(a, x)
                               /\ pass' = [pass EXCEPT ![a].todo = @ \ {x}]
    /\ UNCHANGED <<graph, canonical, queue, call, job, locked, confirmed, read, replaced,
                   calls, passes, trouble>>

\* As Merge, but the later of the two names is kept when it is mentioned more.
MergeIntoFrequent(a) ==
    /\ Free(a)
    /\ \E x \in pass[a].todo :
         /\ IsNext(a, x)
         /\ confirmed' = confirmed \cup {x}
         /\ pass' = [pass EXCEPT ![a].todo = @ \ {x},
                       ![a].merges = IF count[x[2]] > count[x[1]]
                                     THEN [@ EXCEPT ![x[1]] = x[2]]
                                     ELSE [@ EXCEPT ![x[2]] = x[1]]]
    /\ locked' = a
    /\ UNCHANGED <<graph, canonical, queue, call, job, read, replaced, calls, passes, trouble>>

\* The model confirms: _merge_pair, whose first UPDATE takes the write lock.
Merge(a) ==
    /\ Free(a)
    /\ \E x \in pass[a].todo :
         /\ IsNext(a, x)
         /\ confirmed' = confirmed \cup {x}
         /\ pass' = [pass EXCEPT ![a].todo = @ \ {x}, ![a].merges[x[2]] = x[1]]
    /\ locked' = a
    /\ UNCHANGED <<graph, canonical, queue, call, job, read, replaced, calls, passes, trouble>>

\* The actor of a pass is done with it; a worker's row is marked.
Release(a) ==
    /\ pass' = [pass EXCEPT ![a] = NoPass]
    /\ locked' = IF locked = a THEN None ELSE locked
    /\ job' = IF a \in Worker THEN [job EXCEPT ![a] = NoJob] ELSE job

\* The updates of a pass reach the database.
Commit(a) ==
    canonical' = [e \in Entity |-> IF pass[a].merges[e] # None THEN pass[a].merges[e]
                                   ELSE canonical[e]]

\* Every pair was looked at: COMMIT, or _mark_done's commit.
EndPass(a) ==
    /\ pass[a].on /\ pass[a].todo = {} /\ Free(a)
    /\ Commit(a) /\ Release(a)
    /\ UNCHANGED <<graph, queue, call, confirmed, read, replaced, calls, passes, trouble>>

\* The model call raises.  --sync rolls back; the worker has only _mark_failed,
\* whose commit carries the merges made so far.
PassRaises(a) ==
    /\ pass[a].on /\ pass[a].todo # {} /\ Free(a)
    /\ trouble < MaxTrouble /\ trouble' = trouble + 1
    /\ IF a \in Worker THEN Commit(a) ELSE canonical' = canonical
    /\ Release(a)
    /\ UNCHANGED <<graph, queue, call, confirmed, read, replaced, calls, passes>>

-----------------------------------------------------------------------------
ClientStep(p) == FinishStore(p) \/ FinishUpdate(p)
ExtractStep(w) ==
    \/ Claim(w) \/ ReadText(w) \/ MarkDone(w) \/ WorkerPass(w)
    \/ \E raw \in Payload : Extract(w, raw)
PassStep(a) == Skip(a) \/ Merge(a) \/ EndPass(a)

Next ==
    \/ \E p \in Client :
          \/ \E m \in Memory, c \in Text, raw \in Payload \cup {None} :
                StoreRow(p, m, c, raw) \/ UpdateRow(p, m, c, raw)
          \/ \E m \in Memory, raw \in Payload : UpdateGraph(p, m, raw)
          \/ ClientStep(p) \/ CallCut(p)
    \/ \E m \in Memory : Delete(m)
    \/ \E w \in Worker : ExtractStep(w) \/ Malformed(w) \/ WorkerDies(w)
    \/ DedupEnqueue
    \/ \E s \in Cli : SyncPass(s)
    \/ \E a \in Actor : PassStep(a) \/ PassRaises(a)

Spec == Init /\ [][Next]_vars

\* Threads run, and a call to the model ends: with an answer or by its timeout.
Fairness ==
    /\ \A p \in Client : WF_vars(ClientStep(p))
    /\ \A w \in Worker : WF_vars(ExtractStep(w))
    /\ \A a \in Actor : WF_vars(PassStep(a))

FairSpec == Spec /\ Fairness

-----------------------------------------------------------------------------
\* dedup.py:4-11, whatever passes overlap, fail half-way or work on candidates
\* read long ago: an entity is merged only into one of its type that comes
\* before it -- so no cycle of canonical_ids can arise -- and the model said the two
\* are the same.
MergesAreConfirmed ==
    \A e \in Entity : canonical[e] # None =>
        /\ canonical[e] < e /\ TypeOf[canonical[e]] = TypeOf[e]
        /\ <<canonical[e], e>> \in confirmed

\* store.py:288-293, REPLACE: after an update with a payload, as long as no
\* extract row was open for the memory and no other call on it was half done, its
\* mentions are exactly the payload's and its relations join entities of the payload's
\* names, whatever else runs.
ReplaceStands ==
    \A m \in Memory : replaced[m] # None =>
        /\ MentionsOf(m) = {m} \X replaced[m].ents
        /\ \A r \in RelationsOf(m) :
              <<NameOf[r.src], NameOf[r.tgt]>> \in replaced[m].rels

\* store.py:187-190, 383-388 and worker.py:396-409: the text a call left behind
\* without a payload is extracted, unless it is changed or deleted, the call was
\* cut or the model failed on it twice.
EveryTextIsRead ==
    \A m \in Memory, c \in Text :
        content[m] = c /\ read[m] = None ~> read[m] # None \/ content[m] # c

-----------------------------------------------------------------------------
(* Reading the graph (graph_channel.py) *)

\* COALESCE(canonical_id, id).
Canon(e) == IF canonical[e] = None THEN e ELSE canonical[e]

MemoriesMentioning(k) == {x[1] : x \in {x \in mentions : Canon(x[2]) = k}}

\* _memories_mentioning's "any merged-into-this-canonical entities surface their
\* mentions too" (graph_channel.py:319-321): an entity that was merged is read
\* through one that is not merged itself.  It does not hold: one hop is followed,
\* and a pass over three names of one thing chains them.
CanonicalIsRoot ==
    \A e \in Entity : canonical[e] # None => canonical[canonical[e]] = None

\* The docstring of update() without the condition ReplaceStands has.  It does
\* not hold: an extract row that was open writes its answer after the REPLACE.
ReplaceIsFinal ==
    \A m \in Memory : read[m] = Given /\ Alive(m) /\ ~Pending(m) =>
        \E raw \in Payload : MentionsOf(m) = {m} \X raw.ents

=============================================================================
