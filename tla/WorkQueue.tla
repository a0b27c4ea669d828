----------------------------- MODULE WorkQueue ------------------------------
(***************************************************************************)
(* The extraction_queue table and everything that reads or writes its      *)
(* status column: the memory handlers that enqueue work, the dedup and     *)
(* queue CLIs, and the worker threads that claim, run and mark tasks       *)
(* (worker.py).  One worker thread per server process; several processes   *)
(* may serve the same project database.                                    *)
(*                                                                         *)
(* Time is kept as saturating ages, in an arbitrary unit: an age is only   *)
(* ever compared with its threshold, so one step past it is enough.        *)
(* attempts and last_error are written and never read by the code that     *)
(* schedules tasks; they are not kept.                                     *)
(***************************************************************************)
EXTENDS Naturals, FiniteSets

CONSTANTS
    Task,        \* ids of extraction_queue rows (uuid4: never reused)
    Memory,      \* ids of memories that exist at the start
    Worker,      \* server processes, each with one worker thread
    Cli,         \* `sage-memory dedup` invocations that may overlap
    NoTask, NoMemory,
    Stale,       \* _STALE_RUNNING_SECONDS
    Retention,   \* _QUEUE_RETENTION_SECONDS
    PruneGap,    \* _PRUNE_INTERVAL_SECONDS
    WaitCap,     \* created_at ages beyond this are not told apart
    MaxRun,      \* the longest a live worker may spend on one task
    MaxLeaves    \* bound: how often a worker is asked to stop or dies

ASSUME TimesAreNat ==
    /\ Stale \in Nat /\ Retention \in Nat /\ PruneGap \in Nat
    /\ WaitCap \in Nat /\ MaxRun \in Nat /\ MaxLeaves \in Nat

\* A row the recovery resets was created more than Stale ago: WaitCap old.
ASSUME WaitCapIsSmall == WaitCap <= Stale + 1
ASSUME NullsAreNew == NoTask \notin Task /\ NoMemory \notin Memory

VARIABLES
    status,      \* status[t]: "fresh" before INSERT, "gone" after DELETE
    kind,        \* task_type
    mem,         \* memory_id
    age,         \* age of the timestamp the status makes matter: created_at
                 \* when pending, started_at when running, else processed_at
    applied,     \* history: a run of t committed its effects
    memories,    \* rows of the memories table
    pruneAge,    \* age of worker_state.last_prune_at
    pc,          \* where worker thread w is
    sel,         \* the row w selected or runs
    runFor,      \* how long w has been running it
    stopping,    \* w's stop_event
    looking,     \* dedup CLI c found no open dedup task, INSERT to come
    leaves

row    == <<status, kind, mem, age, applied>>
thread == <<pc, sel, runFor, stopping>>
vars   == <<row, memories, pruneAge, thread, looking, leaves>>

Kind   == {"extract", "reembed", "dedup"}
Open   == {"pending", "running"}
Closed == {"done", "failed"}
Status == {"fresh", "gone"} \cup Open \cup Closed
Pc     == {"off", "recovering", "pruning", "idle", "selected",
           "executing", "applied"}

InState(s)   == {t \in Task : status[t] = s}
Executing(w) == pc[w] \in {"executing", "applied"}
Holds(w, t)  == Executing(w) /\ sel[w] = t

\* The age at which a timestamp stops being told apart from older ones.
AgeCap(s) == CASE s = "pending" -> WaitCap
               [] s = "running" -> Stale + 1
               [] s \in Closed  -> Retention + 1
               [] OTHER         -> 0

\* Every variable has its type, ages stay under the cap of their status, and a
\* thread that is past the SELECT has a row in hand.
TypeOK ==
    /\ status \in [Task -> Status]
    /\ kind \in [Task -> Kind]
    /\ mem \in [Task -> Memory \cup {NoMemory}]
    /\ age \in [Task -> Nat]
    /\ \A t \in Task : age[t] <= AgeCap(status[t])
    /\ applied \in [Task -> BOOLEAN]
    /\ memories \subseteq Memory
    /\ pruneAge \in 0..PruneGap
    /\ pc \in [Worker -> Pc]
    /\ sel \in [Worker -> Task \cup {NoTask}]
    /\ \A w \in Worker : pc[w] = "selected" \/ Executing(w) => sel[w] \in Task
    /\ runFor \in [Worker -> 0..MaxRun]
    /\ stopping \in [Worker -> BOOLEAN]
    /\ looking \in [Cli -> BOOLEAN]
    /\ leaves \in 0..MaxLeaves

\* A migrated database with some memories and an empty queue; no server runs.
Init ==
    /\ status = [t \in Task |-> "fresh"]
    /\ kind = [t \in Task |-> "extract"]
    /\ mem = [t \in Task |-> NoMemory]
    /\ age = [t \in Task |-> 0]
    /\ applied = [t \in Task |-> FALSE]
    /\ memories = Memory
    /\ pruneAge = PruneGap          \* last_prune_at IS NULL: due
    /\ pc = [w \in Worker |-> "off"]
    /\ sel = [w \in Worker |-> NoTask]
    /\ runFor = [w \in Worker |-> 0]
    /\ stopping = [w \in Worker |-> FALSE]
    /\ looking = [c \in Cli |-> FALSE]
    /\ leaves = 0

\* The rows S change their status to s, with a timestamp of age a.
Become(S, s, a) ==
    /\ status' = [t \in Task |-> IF t \in S THEN s ELSE status[t]]
    /\ age' = [t \in Task |-> IF t \in S THEN a ELSE age[t]]

Goto(w, l) == pc' = [pc EXCEPT ![w] = l]

-----------------------------------------------------------------------------
(* Enqueueing *)

\* store() and update(): an extract task x and/or a reembed task r for memory m,
\* inserted in one transaction (NoTask: that one is gated off).  The many reembed
\* rows of one reindex are taken row by row, which only adds interleavings.
Enqueue(m, x, r) ==
    /\ m \in memories
    /\ x # r
    /\ {x, r} \ {NoTask} \subseteq InState("fresh")
    /\ Become({x, r}, "pending", 0)
    /\ kind' = [t \in Task |-> IF t = x THEN "extract"
                               ELSE IF t = r THEN "reembed" ELSE kind[t]]
    /\ mem' = [t \in Task |-> IF t \in {x, r} THEN m ELSE mem[t]]
    /\ UNCHANGED <<applied, memories, pruneAge, thread, looking, leaves>>

OpenDedups == {t \in Task : kind[t] = "dedup" /\ status[t] \in Open}

DedupLookPendingOnly(c) ==
    /\ ~looking[c]
    /\ \A t \in OpenDedups : status[t] # "pending"
    /\ looking' = [looking EXCEPT ![c] = TRUE]
    /\ UNCHANGED <<row, memories, pruneAge, thread, leaves>>

\* `sage-memory dedup`: no pending or running dedup task was found.  (When one
\* is found the command prints its id and changes nothing.)
DedupLook(c) ==
    /\ ~looking[c]
    /\ OpenDedups = {}
    /\ looking' = [looking EXCEPT ![c] = TRUE]
    /\ UNCHANGED <<row, memories, pruneAge, thread, leaves>>

\* The INSERT that follows, in a transaction of its own.
DedupInsert(c, t) ==
    /\ looking[c]
    /\ status[t] = "fresh"
    /\ Become({t}, "pending", 0)
    /\ kind' = [kind EXCEPT ![t] = "dedup"]
    /\ looking' = [looking EXCEPT ![c] = FALSE]
    /\ UNCHANGED <<mem, applied, memories, pruneAge, thread, leaves>>

\* delete(): the row goes, ON DELETE CASCADE takes its tasks along.
DeleteMemory(m) ==
    /\ m \in memories
    /\ memories' = memories \ {m}
    /\ Become({t \in Task : mem[t] = m}, "gone", 0)
    /\ UNCHANGED <<kind, mem, applied, pruneAge, thread, looking, leaves>>

-----------------------------------------------------------------------------
(* Retention *)

ExpiredOfAnyStatus(now) ==
    {t \in Task : status[t] \in Open \cup Closed /\ age[t] > now}

\* DELETE ... WHERE status IN ('done', 'failed') AND processed_at < cutoff
Expired(cutoff) == {t \in Task : status[t] \in Closed /\ age[t] > cutoff}

PruneRows == Become(Expired(Retention), "gone", 0) /\ pruneAge' = 0

\* `sage-memory queue prune`: no 24 h gate.
CliPrune ==
    /\ PruneRows
    /\ UNCHANGED <<kind, mem, applied, memories, thread, looking, leaves>>

\* maybe_prune(), after recovery and whenever no task was claimed.
MaybePrune(w) ==
    /\ pc[w] = "pruning"
    /\ Goto(w, "idle")
    /\ IF pruneAge >= PruneGap THEN PruneRows
       ELSE UNCHANGED <<status, age, pruneAge>>
    /\ UNCHANGED <<kind, mem, applied, memories, sel, runFor, stopping,
                   looking, leaves>>

-----------------------------------------------------------------------------
(* The worker thread *)

Start(w) ==
    /\ pc[w] = "off"
    /\ Goto(w, "recovering")
    /\ stopping' = [stopping EXCEPT ![w] = FALSE]
    /\ UNCHANGED <<row, memories, pruneAge, sel, runFor, looking, leaves>>

RecoverTooSoon(w) ==
    /\ pc[w] = "recovering"
    /\ Goto(w, "pruning")
    /\ Become({t \in InState("running") : age[t] >= Stale}, "pending", WaitCap)
    /\ UNCHANGED <<kind, mem, applied, memories, pruneAge, sel, runFor,
                   stopping, looking, leaves>>

RecoverNothing(w) ==
    /\ pc[w] = "recovering"
    /\ Goto(w, "pruning")
    /\ UNCHANGED <<row, memories, pruneAge, sel, runFor, stopping, looking,
                   leaves>>

\* _startup_recovery: rows running for longer than Stale are pending again,
\* whoever runs them.
Recover(w) ==
    /\ pc[w] = "recovering"
    /\ Goto(w, "pruning")
    /\ Become({t \in InState("running") : age[t] > Stale}, "pending", WaitCap)
    /\ UNCHANGED <<kind, mem, applied, memories, pruneAge, sel, runFor,
                   stopping, looking, leaves>>

\* _claim_one, the SELECT: an oldest pending row.
Select(w) ==
    /\ pc[w] = "idle"
    /\ ~stopping[w]
    /\ \E t \in InState("pending") :
          /\ \A u \in InState("pending") : age[u] <= age[t]
          /\ sel' = [sel EXCEPT ![w] = t]
    /\ Goto(w, "selected")
    /\ UNCHANGED <<row, memories, pruneAge, runFor, stopping, looking, leaves>>

\* _claim_one found nothing: the loop runs maybe_prune and polls again.
SelectNone(w) ==
    /\ pc[w] = "idle"
    /\ ~stopping[w]
    /\ InState("pending") = {}
    /\ pruneAge >= PruneGap         \* otherwise maybe_prune changes nothing
    /\ Goto(w, "pruning")
    /\ UNCHANGED <<row, memories, pruneAge, sel, runFor, stopping, looking,
                   leaves>>

ClaimBlindly(w) ==
    /\ pc[w] = "selected"
    /\ Goto(w, "executing")
    /\ Become({sel[w]} \ InState("gone"), "running", 0)
    /\ UNCHANGED <<kind, mem, applied, memories, pruneAge, sel, runFor,
                   stopping, looking, leaves>>

\* _claim_one, the conditional UPDATE hit: the row was still pending.
Claim(w) ==
    /\ pc[w] = "selected"
    /\ status[sel[w]] = "pending"
    /\ Goto(w, "executing")
    /\ Become({sel[w]}, "running", 0)
    /\ UNCHANGED <<kind, mem, applied, memories, pruneAge, sel, runFor,
                   stopping, looking, leaves>>

ClaimLostRetries(w) ==
    /\ pc[w] = "selected"
    /\ status[sel[w]] # "pending"
    /\ sel' = [sel EXCEPT ![w] = NoTask]
    /\ UNCHANGED <<row, memories, pruneAge, pc, runFor, stopping, looking,
                   leaves>>

\* rowcount = 0: another worker, or a delete, was faster.  _run_inner cannot
\* tell this from an empty queue and runs maybe_prune.
ClaimLost(w) ==
    /\ pc[w] = "selected"
    /\ status[sel[w]] # "pending"
    /\ Goto(w, "pruning")
    /\ sel' = [sel EXCEPT ![w] = NoTask]
    /\ UNCHANGED <<row, memories, pruneAge, runFor, stopping, looking, leaves>>

\* _do_extract and _do_reembed commit what they wrote before the task is marked.
Apply(w) ==
    /\ pc[w] = "executing"
    /\ kind[sel[w]] # "dedup"
    /\ Goto(w, "applied")
    /\ applied' = [applied EXCEPT ![sel[w]] = TRUE]
    /\ UNCHANGED <<status, kind, mem, age, memories, pruneAge, sel, runFor,
                   stopping, looking, leaves>>

\* UPDATE ... SET status = s, processed_at = now WHERE id = sel[w]: the status
\* found there is not looked at, and a missing row is not noticed.
Mark(w, s) ==
    /\ Become({sel[w]} \ InState("gone"), s, 0)
    /\ Goto(w, "idle")
    /\ sel' = [sel EXCEPT ![w] = NoTask]
    /\ runFor' = [runFor EXCEPT ![w] = 0]
    /\ UNCHANGED <<kind, mem, memories, pruneAge, stopping, looking, leaves>>

MarkDoneUnapplied(w) ==
    /\ Executing(w)
    /\ Mark(w, "done")
    /\ UNCHANGED applied

\* _mark_done.  A dedup pass leaves its merges uncommitted and this commit
\* carries them.  A reembed reaches this line even when it embedded nothing
\* (stop_event set, or the embedder raised and the batch loop ended).
MarkDone(w) ==
    /\ \/ pc[w] = "applied" /\ UNCHANGED applied
       \/ /\ pc[w] = "executing" /\ kind[sel[w]] = "dedup"
          /\ applied' = [applied EXCEPT ![sel[w]] = TRUE]
       \/ pc[w] = "executing" /\ kind[sel[w]] = "reembed" /\ UNCHANGED applied
    /\ Mark(w, "done")

MarkFailedRequeues(w) ==
    /\ Executing(w)
    /\ Mark(w, "pending")
    /\ UNCHANGED applied

\* _mark_failed: the task raised, or _mark_done did.
MarkFailed(w) ==
    /\ Executing(w)
    /\ Mark(w, "failed")
    /\ UNCHANGED applied

\* stop(): the event is set; the thread looks at it between tasks.
StopRequest(w) ==
    /\ pc[w] # "off"
    /\ ~stopping[w]
    /\ leaves < MaxLeaves
    /\ leaves' = leaves + 1
    /\ stopping' = [stopping EXCEPT ![w] = TRUE]
    /\ UNCHANGED <<row, memories, pruneAge, pc, sel, runFor, looking>>

ExitThread(w) ==
    /\ pc[w] = "idle"
    /\ stopping[w]
    /\ Goto(w, "off")
    /\ UNCHANGED <<row, memories, pruneAge, sel, runFor, stopping, looking,
                   leaves>>

\* The process dies, the daemon thread is reaped after a join that timed out,
\* or an exception escapes the loop: whatever w held stays 'running'.
Kill(w) ==
    /\ pc[w] # "off"
    /\ leaves < MaxLeaves
    /\ leaves' = leaves + 1
    /\ Goto(w, "off")
    /\ sel' = [sel EXCEPT ![w] = NoTask]
    /\ runFor' = [runFor EXCEPT ![w] = 0]
    /\ UNCHANGED <<row, memories, pruneAge, stopping, looking>>

-----------------------------------------------------------------------------
(* Time *)

Older(a, cap) == IF a < cap THEN a + 1 ELSE a

Tick ==
    /\ \A w \in Worker : Executing(w) => runFor[w] < MaxRun
    /\ age' = [t \in Task |-> Older(age[t], AgeCap(status[t]))]
    /\ runFor' = [w \in Worker |-> IF Executing(w) THEN runFor[w] + 1
                                   ELSE runFor[w]]
    /\ pruneAge' = Older(pruneAge, PruneGap)
    /\ UNCHANGED <<status, kind, mem, applied, memories, pc, sel, stopping,
                   looking, leaves>>

-----------------------------------------------------------------------------
Clients ==
    \/ \E m \in Memory : \/ \E x, r \in Task \cup {NoTask} : Enqueue(m, x, r)
                         \/ DeleteMemory(m)
    \/ \E c \in Cli : DedupLook(c) \/ \E t \in Task : DedupInsert(c, t)
    \/ CliPrune

\* What a thread does by itself once it is started.
Step(w) ==
    \/ Recover(w) \/ MaybePrune(w)
    \/ Select(w) \/ SelectNone(w) \/ Claim(w) \/ ClaimLost(w)
    \/ Apply(w) \/ MarkDone(w) \/ MarkFailed(w)
    \/ ExitThread(w)

Next ==
    \/ Clients
    \/ \E w \in Worker : Step(w) \/ Start(w) \/ StopRequest(w) \/ Kill(w)
    \/ Tick

Spec == Init /\ [][Next]_vars

\* A thread that is up keeps being scheduled and every call it makes returns
\* (LLM and embedder calls have timeouts), a server that is down is started
\* again, and time passes.  Stops, deaths and client calls owe nothing.
Fairness ==
    /\ \A w \in Worker : WF_vars(Step(w)) /\ WF_vars(Start(w))
    /\ WF_vars(Tick)

FairSpec == Spec /\ Fairness

-----------------------------------------------------------------------------
(* Properties *)

\* One runner per task: the claim's conditional UPDATE and the staleness rule
\* of the startup recovery together keep two workers off the same row.
AtMostOneRunner ==
    \A v, w \in Worker : \A t \in Task : Holds(v, t) /\ Holds(w, t) => v = w

\* Why that is so: a row in a worker's hands still says 'running' and is as old
\* as the run (or was deleted), so a recovery that respects Stale leaves it be.
HolderRuns ==
    \A w \in Worker :
        IF Executing(w)
        THEN \/ status[sel[w]] = "gone"
             \/ status[sel[w]] = "running" /\ age[sel[w]] = runFor[w]
        ELSE runFor[w] = 0

\* A done or failed row is never run, marked or reset again, although
\* _mark_done and _mark_failed look at the id only: it stays until its row goes.
ClosedIsFinal ==
    [][\A t \in Task :
          status[t] \in Closed => status'[t] \in {status[t], "gone"}]_vars

\* 'done' is never reported for extraction or dedup work whose writes were
\* not committed, whatever was killed in between.
DoneMeansApplied ==
    \A t \in Task : status[t] = "done" /\ kind[t] # "reembed" => applied[t]

\* Nothing drops unfinished work: an open row goes only with its memory, and
\* retention takes a finished row only after Retention.
RowsLeaveForCause ==
    [][\A t \in Task : status[t] # "gone" /\ status'[t] = "gone" =>
          \/ mem[t] \in memories \ memories'
          \/ status[t] \in Closed /\ age[t] > Retention]_vars

\* `sage-memory dedup` keeps at most one dedup task open (cli_dedup's contract),
\* as long as its invocations do not overlap.
AtMostOneOpenDedup == Cardinality(OpenDedups) <= 1

Orphaned(t) == status[t] = "running" /\ ~\E w \in Worker : Holds(w, t)

\* Work is not forgotten: a pending task is finished or deleted, or the worker
\* that ran it was lost.
PendingIsServed ==
    \A t \in Task : status[t] = "pending" ~>
                        status[t] \in Closed \cup {"gone"} \/ Orphaned(t)

\* A task lost with its worker is run again once some worker starts later than
\* Stale after the claim.  (A restart inside that window does not pick it up.)
LateRestartRecovers ==
    \A t \in Task :
        Orphaned(t) /\ age[t] > Stale /\ (\E w \in Worker : pc[w] = "recovering")
        ~> status[t] \in Closed \cup {"gone"}

-----------------------------------------------------------------------------
(* The queue implements the abstract task pool: a running row nobody runs    *)
(* counts as open, which makes the startup recovery invisible from there.    *)

Pool == INSTANCE TaskPool WITH
    open   <- {t \in Task : status[t] = "pending" \/ Orphaned(t)},
    held   <- [w \in Worker |-> IF Executing(w) /\ status[sel[w]] \in Open
                                THEN sel[w] ELSE NoTask],
    closed <- {t \in Task : status[t] \in Closed},
    used   <- {t \in Task : status[t] # "fresh"}

\* Tasks are submitted, taken by one worker at a time, closed once or given
\* back; no interleaving of workers, deletes, prunes and deaths shows otherwise.
ImplementsTaskPool == Pool!Spec
=============================================================================
