----------------------------- MODULE Migrations -----------------------------
(***************************************************************************)
(* The migration runner (db._migrate), which every connection to a memory  *)
(* database goes through: the servers' and CLIs' (db._open), and each of   *)
(* the several connections a worker thread opens (_open_worker_conn).      *)
(* Nothing serialises the openers but SQLite itself.                       *)
(*                                                                         *)
(* A file is two atomic effects, its CREATE VIRTUAL TABLEs and the         *)
(* transaction with the rest of its statements and the new user_version.   *)
(* What the statements create is not looked into, only whether a second    *)
(* execution fails: ALTER TABLE ADD COLUMN does (003, 011, 013), IF NOT    *)
(* EXISTS, INSERT OR IGNORE and the rebuild of 008 do not.                 *)
(***************************************************************************)
EXTENDS Naturals

CONSTANTS
    Opener,     \* connections being opened, of any process or thread
    Last,       \* the number of the last migration file
    Once,       \* the files that fail when they are executed again
    MaxFails    \* bound: how often an opener is killed or told SQLITE_BUSY

ASSUME FilesAreNumbered ==
    Last \in Nat \ {0} /\ Once \subseteq 1..Last /\ MaxFails \in Nat

VARIABLES
    version,    \* PRAGMA user_version
    tables,     \* files whose virtual tables exist
    applied,    \* files whose transaction was committed at least once
    opening,    \* "closed", "virtual" or "txn" (of file next), "ready"
    next,       \* the file the opener's loop is at
    fails,
    alone       \* history: openers do not overlap in this behaviour

schemaVars == <<version, tables, applied, opening, next, fails, alone>>

File      == 1..Last
Migrating == {"virtual", "txn"}

\* Every variable has its type, and an opener inside the loop is at some file.
SchemaTypeOK ==
    /\ version \in 0..Last
    /\ tables \subseteq File
    /\ applied \subseteq File
    /\ opening \in [Opener -> Migrating \cup {"closed", "ready"}]
    /\ next \in [Opener -> 1..Last + 1]
    /\ \A p \in Opener : opening[p] \in Migrating => next[p] \in File
    /\ fails \in 0..MaxFails
    /\ alone \in BOOLEAN

\* A database some earlier release left complete, or a new one (version 0).
SchemaInit ==
    /\ version \in 0..Last
    /\ tables = 1..version
    /\ applied = 1..version
    /\ opening = [p \in Opener |-> "closed"]
    /\ next = [p \in Opener |-> 1]
    /\ fails = 0
    /\ alone \in BOOLEAN

\* The loop moves to file n, or past the last one.
GotoFile(p, n) ==
    /\ next' = [next EXCEPT ![p] = n]
    /\ opening' = [opening EXCEPT ![p] = IF n > Last THEN "ready" ELSE "virtual"]

BeginAtFirst(p) ==
    /\ opening[p] = "closed"
    /\ alone => \A q \in Opener : opening[q] \notin Migrating
    /\ GotoFile(p, 1)
    /\ UNCHANGED <<version, tables, applied, fails, alone>>

\* `current` is read once; files up to it are skipped from then on.
ReadVersion(p) ==
    /\ opening[p] = "closed"
    /\ alone => \A q \in Opener : opening[q] \notin Migrating
    /\ GotoFile(p, version + 1)
    /\ UNCHANGED <<version, tables, applied, fails, alone>>

BumpFirst(p) ==
    /\ opening[p] = "virtual"
    /\ version' = next[p]
    /\ tables' = tables \cup {next[p]}
    /\ opening' = [opening EXCEPT ![p] = "txn"]
    /\ UNCHANGED <<applied, next, fails, alone>>

\* PHASE A: CREATE VIRTUAL TABLE IF NOT EXISTS, outside any transaction.
PhaseA(p) ==
    /\ opening[p] = "virtual"
    /\ tables' = tables \cup {next[p]}
    /\ opening' = [opening EXCEPT ![p] = "txn"]
    /\ UNCHANGED <<version, applied, next, fails, alone>>

Conflicts(n) == n \in Once \cap applied

BumpToLast(p) ==
    /\ opening[p] = "txn"
    /\ ~Conflicts(next[p])
    /\ applied' = applied \cup {next[p]}
    /\ version' = Last
    /\ GotoFile(p, Last + 1)
    /\ UNCHANGED <<tables, fails, alone>>

SkipBump(p) ==
    /\ opening[p] = "txn"
    /\ ~Conflicts(next[p])
    /\ applied' = applied \cup {next[p]}
    /\ GotoFile(p, next[p] + 1)
    /\ UNCHANGED <<version, tables, fails, alone>>

\* PHASE B commits: the statements and the bump to this file's number, which is
\* not compared with what user_version has become since ReadVersion.
PhaseB(p) ==
    /\ opening[p] = "txn"
    /\ ~Conflicts(next[p])
    /\ applied' = applied \cup {next[p]}
    /\ version' = next[p]
    /\ GotoFile(p, next[p] + 1)
    /\ UNCHANGED <<tables, fails, alone>>

\* PHASE B raises "duplicate column name": ROLLBACK, and the open fails.
PhaseBRaises(p) ==
    /\ opening[p] = "txn"
    /\ Conflicts(next[p])
    /\ opening' = [opening EXCEPT ![p] = "closed"]
    /\ UNCHANGED <<version, tables, applied, next, fails, alone>>

\* Killed, or told that the database is locked: whatever was committed stays.
Fail(p) ==
    /\ opening[p] \in Migrating
    /\ fails < MaxFails
    /\ fails' = fails + 1
    /\ opening' = [opening EXCEPT ![p] = "closed"]
    /\ UNCHANGED <<version, tables, applied, next, alone>>

Close(p) ==
    /\ opening[p] = "ready"
    /\ opening' = [opening EXCEPT ![p] = "closed"]
    /\ UNCHANGED <<version, tables, applied, next, fails, alone>>

Run(p) == PhaseA(p) \/ PhaseB(p) \/ PhaseBRaises(p)

SchemaNext == \E p \in Opener : ReadVersion(p) \/ Run(p) \/ Fail(p) \/ Close(p)

SchemaSpec == SchemaInit /\ [][SchemaNext]_schemaVars

\* An open in progress goes on (SQLite calls return), and the database keeps
\* being opened by someone.
SchemaFairness ==
    /\ \A p \in Opener : WF_schemaVars(Run(p))
    /\ WF_schemaVars(\E p \in Opener : ReadVersion(p))

SchemaFairSpec == SchemaSpec /\ SchemaFairness

-----------------------------------------------------------------------------
(* Properties *)

\* What user_version says is there, is there: every file up to it has been
\* executed in full, whichever openers interleaved and died (PHASE B carries
\* the bump, PHASE A comes before it).
VersionIsCovered == 1..version \subseteq applied \cap tables

\* A connection that is handed out sees the whole schema, although the loop
\* skips files on the strength of a number read before they were looked at.
ReadySeesAll ==
    \A p \in Opener : opening[p] = "ready" => applied = File /\ tables = File

\* No file is executed before the ones it builds on (011 alters what 008 made).
PrerequisitesFirst ==
    [][\A n \in applied' \ applied : 1..(n - 1) \subseteq applied]_schemaVars

\* The next open will not run a file that fails when it is executed again.
Reopenable == \A n \in Once : n > version => n \notin applied

\* A database nobody is migrating can be opened: what idempotent migrations would
\* give for openers of any number.
RestsReopenable ==
    (\A p \in Opener : opening[p] \notin Migrating) => Reopenable

\* Openers that do not overlap never leave a database that cannot be opened.
AloneReopenable == alone => Reopenable

\* ... nor one whose version went back.
AloneOnlyAdvances == [][alone => version' >= version]_schemaVars

\* A database that keeps being opened, by one opener at a time, reaches the last
\* version and stays there, however many of them died on the way.
AloneMigrates == alone => <>[](version = Last)
=============================================================================
