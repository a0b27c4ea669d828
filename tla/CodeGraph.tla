----------------------------- MODULE CodeGraph ------------------------------
(***************************************************************************)
(* scan-codebase (codebase/__init__.py, _lock.py, _resolve.py): the rows   *)
(* of codebase_scans, code_symbols and code_relations while files change   *)
(* on disk, scans overlap, fail and die.                                   *)
(*                                                                         *)
(* A text says which symbols it defines and which names they refer to.     *)
(* memory_content_hash is salted with the path, so a file memory is a pair *)
(* <<file, text>>: the same text at the same path finds the old row again, *)
(* and a changed file gets a new one.  A symbol's uuid is its memory, its  *)
(* name and the number of the scan that inserted it.  Targets are resolved *)
(* as for Go: in the file itself, else in the registered files beside it   *)
(* (CodeText has the rules of each language).                              *)
(***************************************************************************)
EXTENDS Naturals, FiniteSets

CONSTANTS
    File, Text, Absent,
    Name,                \* of symbols
    Defs,                \* Defs[x]: the names text x defines
    Refs,                \* Refs[x]: pairs <<symbol of x, name it refers to>>
    Scanner,             \* processes; a server may scan more than once
    None,
    StaleAge,            \* _STALE_THRESHOLD_S
    MaxEdits, MaxScans, MaxTrouble      \* bounds of the model

ASSUME ReferencesHaveSources ==
    \A x \in Text : Defs[x] \subseteq Name /\ Refs[x] \subseteq Defs[x] \X Name

ASSUME BoundsAreNumbers ==
    /\ StaleAge \in Nat /\ MaxEdits \in Nat /\ MaxScans \in Nat /\ MaxTrouble \in Nat

FileMemory == File \X Text

\* No row is not a row.
ASSUME NullIsNew == None \notin [pid : Scanner, age : Nat] \cup [hash : Text, mem : FileMemory]

VARIABLES
    disk,        \* the text of each file
    memories,    \* file memories that have a row
    scans,       \* codebase_scans: [hash, mem] of a path
    symbols,     \* code_symbols: [mem, name, gen]
    relations,   \* code_relations: [src, name, tgt]
    lock,        \* scan_locks: [pid, age]
    pc,          \* where a scanner is
    run,         \* its scan: files to come, mode, file in hand, relations_sink
    defs,        \* its DefinitionsTable: the symbols and registered memories it read
    orphans,     \* _resolve_orphans, a TEMP table of its connection
    gens,        \* scans of a file so far (uuids)
    owed,        \* history: file memories whose references a scan had and lost
    overrun,     \* history: scanners whose lock row was taken for stale
    edits, starts, trouble

rows == <<memories, scans, symbols, relations>>
vars == <<disk, rows, lock, pc, run, defs, orphans, gens, owed, overrun,
          edits, starts, trouble>>

Symbol == [mem : FileMemory, name : Name, gen : Nat]
Runs   == [todo : SUBSET File, force : BOOLEAN, full : BOOLEAN, file : File \cup {None},
           text : Text \cup {None}, sink : SUBSET [mem : FileMemory, text : Text]]
NoRun  == [todo |-> {}, force |-> FALSE, full |-> FALSE, file |-> None,
           text |-> None, sink |-> {}]
NoDefs == [symbols |-> {}, registered |-> {}]
Active(s) == pc[s] # "idle"
OfMemory(m) == {y \in symbols : y.mem = m}

\* Every variable has its type, and rows refer to rows that are there.
TypeOK ==
    /\ disk \in [File -> Text \cup {Absent}]
    /\ memories \subseteq FileMemory
    /\ scans \in [File -> [hash : Text, mem : memories] \cup {None}]
    /\ symbols \subseteq [mem : memories, name : Name, gen : Nat]
    /\ relations \subseteq [src : symbols, name : Name, tgt : symbols \cup {None}]
    /\ lock \in [pid : Scanner, age : 0..StaleAge + 1] \cup {None}
    /\ pc \in [Scanner -> {"idle", "files", "reading", "defining", "resolving", "release"}]
    /\ run \in [Scanner -> Runs]
    /\ defs \in [Scanner -> [symbols : SUBSET Symbol, registered : SUBSET FileMemory]]
    /\ orphans \in [Scanner -> SUBSET [src : Symbol, name : Name]]
    /\ gens \in Nat /\ owed \subseteq FileMemory /\ overrun \subseteq Scanner
    /\ edits \in 0..MaxEdits /\ starts \in 0..MaxScans
    /\ trouble \in 0..MaxTrouble

Init ==
    /\ disk \in [File -> Text]
    /\ memories = {} /\ scans = [f \in File |-> None]
    /\ symbols = {} /\ relations = {} /\ lock = None
    /\ pc = [s \in Scanner |-> "idle"]
    /\ run = [s \in Scanner |-> NoRun]
    /\ defs = [s \in Scanner |-> NoDefs]
    /\ orphans = [s \in Scanner |-> {}]
    /\ gens = 0 /\ owed = {} /\ overrun = {}
    /\ edits = 0 /\ starts = 0 /\ trouble = 0

-----------------------------------------------------------------------------
(* The world outside *)

\* Somebody writes or removes a file.
Edit(f, x) ==
    /\ edits < MaxEdits /\ edits' = edits + 1
    /\ x # disk[f]
    /\ disk' = [disk EXCEPT ![f] = x]
    /\ UNCHANGED <<rows, lock, pc, run, defs, orphans, gens, owed, overrun, starts, trouble>>

\* A lock row grows old.
Tick ==
    /\ lock # None /\ lock.age <= StaleAge
    /\ lock' = [lock EXCEPT !.age = @ + 1]
    /\ UNCHANGED <<disk, rows, pc, run, defs, orphans, gens, owed, overrun,
                   edits, starts, trouble>>

-----------------------------------------------------------------------------
(* The lock, and the scan around it *)

\* A scan whose walk() is over.
Walked(force, full) ==
    [todo |-> {f \in File : disk[f] # Absent}, force |-> force, full |-> full,
     file |-> None, text |-> None, sink |-> {}]

\* As Start, but with INSERT OR REPLACE.
StartReplaces(s, force, full) ==
    /\ pc[s] = "idle"
    /\ starts < MaxScans /\ starts' = starts + 1
    /\ overrun' = (overrun \ {s}) \cup (IF lock # None /\ lock.age > StaleAge THEN {lock.pid} \ {s} ELSE {})
    /\ lock' = [pid |-> s, age |-> 0]
    /\ pc' = [pc EXCEPT ![s] = "files"]
    /\ run' = [run EXCEPT ![s] = Walked(force, full)]
    /\ UNCHANGED <<disk, rows, defs, orphans, gens, owed, edits, trouble>>

\* walk(), then acquire_scan_lock: a stale row goes and ours comes in one
\* transaction; with another row there the scan is refused.
Start(s, force, full) ==
    /\ pc[s] = "idle"
    /\ starts < MaxScans /\ starts' = starts + 1
    /\ lock # None => lock.age > StaleAge
    /\ overrun' = (overrun \ {s}) \cup (IF lock = None THEN {} ELSE {lock.pid} \ {s})
    /\ lock' = [pid |-> s, age |-> 0]
    /\ pc' = [pc EXCEPT ![s] = "files"]
    /\ run' = [run EXCEPT ![s] = Walked(force, full)]
    /\ UNCHANGED <<disk, rows, defs, orphans, gens, owed, edits, trouble>>

\* release_scan_lock: our row goes, if it is still ours.
Unlock(s) ==
    /\ lock' = IF lock # None /\ lock.pid = s THEN None ELSE lock
    /\ pc' = [pc EXCEPT ![s] = "idle"]
    /\ run' = [run EXCEPT ![s] = NoRun]

Release(s) ==
    /\ pc[s] = "release" /\ Unlock(s)
    /\ UNCHANGED <<disk, rows, defs, orphans, gens, owed, overrun, edits, starts, trouble>>

\* What a scanner that ends here has deleted and not put back.
Debts(s) == {x.mem : x \in run[s].sink} \cup {o.src.mem : o \in orphans[s]}

\* The process dies; its row stays, its TEMP table does not.
Crash(s) ==
    /\ Active(s) \/ orphans[s] # {}
    /\ trouble < MaxTrouble /\ trouble' = trouble + 1
    /\ owed' = owed \cup Debts(s)
    /\ pc' = [pc EXCEPT ![s] = "idle"]
    /\ run' = [run EXCEPT ![s] = NoRun]
    /\ defs' = [defs EXCEPT ![s] = NoDefs]
    /\ orphans' = [orphans EXCEPT ![s] = {}]
    /\ UNCHANGED <<disk, rows, lock, gens, overrun, edits, starts>>

-----------------------------------------------------------------------------
(* One file: _scan_file *)

\* The scan goes on after file f, with sink in its relations_sink.
GoOnWith(s, f, sink) ==
    /\ run' = [run EXCEPT ![s] = [todo |-> @.todo \ {f}, force |-> @.force, full |-> @.full,
                                  file |-> None, text |-> None, sink |-> sink]]
    /\ pc' = [pc EXCEPT ![s] = "files"]
GoOn(s, f) == GoOnWith(s, f, run[s].sink)

\* The bytes hash to what codebase_scans has: nothing to do.
Known(s, f) == ~run[s].force /\ scans[f] # None /\ scans[f].hash = disk[f]

Unchanged(s, f) ==
    /\ pc[s] = "files" /\ f \in run[s].todo
    /\ Known(s, f) /\ GoOn(s, f)
    /\ UNCHANGED <<disk, rows, lock, defs, orphans, gens, owed, overrun,
                   edits, starts, trouble>>

\* The bytes are read, for the hash and the extraction.
Read(s, f) ==
    /\ pc[s] = "files" /\ f \in run[s].todo /\ disk[f] # Absent
    /\ ~Known(s, f)
    /\ run' = [run EXCEPT ![s] = [todo |-> @.todo, force |-> @.force, full |-> @.full,
                                  file |-> f, text |-> disk[f], sink |-> @.sink]]
    /\ pc' = [pc EXCEPT ![s] = "reading"]
    /\ UNCHANGED <<disk, rows, lock, defs, orphans, gens, owed, overrun,
                   edits, starts, trouble>>

\* As Rescan, with foreign keys off for the targets: edges into m stay.
RescanKeepsEdges(s, f, x, m) ==
    LET old == OfMemory(m) IN
    /\ memories' = memories \cup {m}
    /\ orphans' = orphans
    /\ symbols' = (symbols \ old) \cup
                     {[mem |-> m, name |-> n, gen |-> gens + 1] : n \in Defs[x]}
    /\ relations' = {r \in relations : r.src \notin old}
    /\ scans' = [scans EXCEPT ![f] = [hash |-> x, mem |-> m]]

\* The transaction of a file, with its memory m: rows that point into m's
\* symbols are snapshotted, m's symbols go and take the relations on either side
\* with them, and what was read is inserted and registered.
Rescan(s, f, x, m) ==
    LET old == OfMemory(m)
        hit == {r \in relations : r.tgt \in old}
    IN  /\ memories' = memories \cup {m}
        /\ orphans' = [orphans EXCEPT ![s] = @ \cup {[src |-> r.src, name |-> r.name] : r \in hit}]
        /\ symbols' = (symbols \ old) \cup
                         {[mem |-> m, name |-> n, gen |-> gens + 1] : n \in Defs[x]}
        /\ relations' = {r \in relations : r.src \notin old /\ r.tgt \notin old}
        /\ scans' = [scans EXCEPT ![f] = [hash |-> x, mem |-> m]]

\* upsert_file_memory reads the file again: the memory is that of its present text.
Write(s) ==
    LET f == run[s].file  x == run[s].text  m == <<f, disk[f]>> IN
    /\ pc[s] = "reading" /\ disk[f] # Absent
    /\ Rescan(s, f, x, m)
    /\ gens' = gens + 1
    /\ GoOnWith(s, f, {y \in run[s].sink : y.mem # m} \cup {[mem |-> m, text |-> x]})
    /\ UNCHANGED <<disk, lock, defs, owed, overrun, edits, starts, trouble>>

\* As FileFails, but the registration is not part of the transaction.
FileFailsRegistered(s) ==
    LET f == run[s].file  m == <<f, disk[f]>> IN
    /\ pc[s] = "reading" /\ GoOn(s, f)
    /\ disk[f] # Absent => trouble < MaxTrouble
    /\ trouble' = IF disk[f] = Absent THEN trouble ELSE trouble + 1
    /\ memories' = IF disk[f] = Absent THEN memories ELSE memories \cup {m}
    /\ scans' = IF disk[f] = Absent THEN scans
                ELSE [scans EXCEPT ![f] = [hash |-> run[s].text, mem |-> m]]
    /\ UNCHANGED <<disk, symbols, relations, lock, defs, orphans, gens, owed, overrun,
                   edits, starts>>

\* An exception anywhere in it, or a file gone by the second read: rolled back,
\* counted, and the scan goes on.
FileFails(s) ==
    LET f == run[s].file IN
    /\ pc[s] = "reading" /\ GoOn(s, f)
    /\ disk[f] # Absent => trouble < MaxTrouble
    /\ trouble' = IF disk[f] = Absent THEN trouble ELSE trouble + 1
    /\ UNCHANGED <<disk, rows, lock, defs, orphans, gens, owed, overrun, edits, starts>>

\* A file that was walked is gone before the first read.
FileVanished(s, f) ==
    /\ pc[s] = "files" /\ f \in run[s].todo /\ disk[f] = Absent
    /\ GoOn(s, f)
    /\ UNCHANGED <<disk, rows, lock, defs, orphans, gens, owed, overrun,
                   edits, starts, trouble>>

-----------------------------------------------------------------------------
(* resolve_codebase: the definitions, read outside a transaction *)

\* Every file walked has had its turn.
AllRead(s) == pc[s] = "files" /\ run[s].todo = {}

Registered == {scans[f].mem : f \in {f \in File : scans[f] # None}}

\* _build_definitions reads code_symbols, and codebase_scans in a statement after
\* it (_resolve_from_disk reads them once more): other scans may write between the
\* two, and before the transaction that goes by them.
ReadSymbols(s) ==
    /\ AllRead(s)
    /\ defs' = [defs EXCEPT ![s] = [symbols |-> symbols, registered |-> {}]]
    /\ pc' = [pc EXCEPT ![s] = "defining"]
    /\ UNCHANGED <<disk, rows, lock, run, orphans, gens, owed, overrun, edits, starts, trouble>>

ReadScans(s) ==
    /\ pc[s] = "defining"
    /\ defs' = [defs EXCEPT ![s] = [symbols |-> @.symbols, registered |-> Registered]]
    /\ pc' = [pc EXCEPT ![s] = "resolving"]
    /\ UNCHANGED <<disk, rows, lock, run, orphans, gens, owed, overrun, edits, starts, trouble>>

\* _resolve_go, by the definitions D: the file's own symbol, else one of a
\* registered file beside it.
Lookup(D, m, n) ==
    LET own    == {y \in D.symbols : y.mem = m /\ y.name = n}
        beside == {y \in D.symbols : y.mem \in D.registered \ {m} /\ y.name = n}
    IN  IF own # {} THEN CHOOSE y \in own : TRUE
        ELSE IF m \in D.registered /\ beside # {} THEN CHOOSE y \in beside : TRUE
        ELSE None

-----------------------------------------------------------------------------
(* resolve_codebase: the transaction *)

\* Mutant: as RowsFor, but a reference without a target has no row.
RowsResolved(D, m, x) ==
    {[src |-> z[2], name |-> z[1][2], tgt |-> Lookup(D, m, z[1][2])] :
        z \in {z \in Refs[x] \X D.symbols :
                  z[2].mem = m /\ z[2].name = z[1][1] /\ Lookup(D, m, z[1][2]) # None}}

\* The rows of text x's references out of the symbols of memory m.
RowsFor(D, m, x) ==
    {[src |-> z[2], name |-> z[1][2], tgt |-> Lookup(D, m, z[1][2])] :
        z \in {z \in Refs[x] \X D.symbols : z[2].mem = m /\ z[2].name = z[1][1]}}

\* INSERT OR IGNORE: UNIQUE over source, name and place.
Merge(R, new) == R \cup {n \in new : \A r \in R : r.src # n.src \/ r.name # n.name}

\* Rows whose foreign keys hold.  OR IGNORE does not cover the others, whose source
\* or target was deleted since the definitions were read.
Sound(R) == {n \in R : n.src \in symbols /\ n.tgt \in symbols \cup {None}}

Extracted(s) == UNION {RowsFor(defs[s], x.mem, x.text) : x \in run[s].sink}
Restored(s)  == {[src |-> o.src, name |-> o.name, tgt |-> None] : o \in orphans[s]}
Restorable(s) == \A o \in orphans[s] : o.src \in symbols

\* The references that an insert of the rows R loses: the IntegrityError of a
\* target is swallowed.  (The memory of a source that is gone was rescanned: that
\* scan has its references.)
Lost(R) == {n.src.mem : n \in {n \in R \ Sound(R) : n.src \in symbols}}

\* The registered texts whose rows are there after the insert: their symbols are
\* those the definitions have.
Settled(s) == {x.mem : x \in {x \in run[s].sink :
                 /\ OfMemory(x.mem) \subseteq defs[s].symbols
                 /\ \E f \in File : scans[f] = [hash |-> x.text, mem |-> x.mem]}}

\* _resolve_incremental: 1 the references just extracted, 2 the snapshotted rows as
\* unresolved.
Step1(s) == Merge(relations, Extracted(s))
Step2(s) == Merge(Sound(Step1(s)), Restored(s))
Owed(s)  == (owed \ Settled(s)) \cup Lost(Step1(s))

\* 3 an unresolved row is looked up once more, and may find what is gone.
Target(s, r)  == IF r.tgt = None THEN Lookup(defs[s], r.src.mem, r.name) ELSE r.tgt
Retried(s, r) == [src |-> r.src, name |-> r.name, tgt |-> Target(s, r)]
Gone(s, r)    == Target(s, r) \notin symbols \cup {None}

Resolve(s) ==
    /\ pc[s] = "resolving" /\ ~run[s].full /\ Restorable(s) /\ ~\E r \in Step2(s) : Gone(s, r)
    /\ relations' = {Retried(s, r) : r \in Step2(s)}
    /\ orphans' = [orphans EXCEPT ![s] = {}]
    /\ owed' = Owed(s)
    /\ pc' = [pc EXCEPT ![s] = "release"] /\ defs' = [defs EXCEPT ![s] = NoDefs]
    /\ UNCHANGED <<disk, memories, scans, symbols, lock, run, gens, overrun,
                   edits, starts, trouble>>

\* A snapshotted row's source was rescanned too: step 2's foreign key fails, the
\* scan raises, release's commit keeps step 1, and the TEMP table stays for the next
\* scan of the process.
RestoreRaises(s) ==
    /\ pc[s] = "resolving" /\ ~run[s].full /\ ~Restorable(s)
    /\ relations' = Sound(Step1(s))
    /\ owed' = Owed(s) \cup {o.src.mem : o \in {o \in orphans[s] : o.src \in symbols}}
    /\ Unlock(s) /\ defs' = [defs EXCEPT ![s] = NoDefs]
    /\ UNCHANGED <<disk, memories, scans, symbols, orphans, gens, overrun,
                   edits, starts, trouble>>

\* The target that step 3 finds for a row is gone: its UPDATE fails, the scan raises,
\* and release's commit keeps what was done, with the rows before it.
UpdateRaises(s) ==
    /\ pc[s] = "resolving" /\ ~run[s].full /\ Restorable(s) /\ \E r \in Step2(s) : Gone(s, r)
    /\ \E done \in SUBSET {r \in Step2(s) : ~Gone(s, r)} :
          relations' = (Step2(s) \ done) \cup {Retried(s, r) : r \in done}
    /\ orphans' = [orphans EXCEPT ![s] = {}]
    /\ owed' = Owed(s)
    /\ Unlock(s) /\ defs' = [defs EXCEPT ![s] = NoDefs]
    /\ UNCHANGED <<disk, memories, scans, symbols, gens, overrun, edits, starts, trouble>>

\* _resolve_from_disk: every file that was registered and is still there is read
\* again.  It neither restores nor resolves again what is in the table.
ResolveFull(s) ==
    LET present == {m \in defs[s].registered : disk[m[1]] # Absent}
        all     == Merge(relations, UNION {RowsFor(defs[s], m, disk[m[1]]) : m \in present})
        same    == {m \in present : /\ OfMemory(m) \subseteq defs[s].symbols
                                    /\ scans[m[1]] = [hash |-> disk[m[1]], mem |-> m]}
    IN  /\ pc[s] = "resolving" /\ run[s].full
        /\ relations' = Sound(all)
        /\ owed' = ((owed \cup Debts(s)) \ same) \cup Lost(all)
        /\ pc' = [pc EXCEPT ![s] = "release"] /\ defs' = [defs EXCEPT ![s] = NoDefs]
        /\ UNCHANGED <<disk, memories, scans, symbols, lock, run, orphans, gens, overrun,
                       edits, starts, trouble>>

-----------------------------------------------------------------------------
FileStep(s, f) == Unchanged(s, f) \/ Read(s, f) \/ FileVanished(s, f)
ScanStep(s) ==
    \/ \E f \in File : FileStep(s, f)
    \/ Write(s) \/ FileFails(s)
    \/ ReadSymbols(s) \/ ReadScans(s)
    \/ Resolve(s) \/ RestoreRaises(s) \/ UpdateRaises(s) \/ ResolveFull(s)
    \/ Release(s)

Next ==
    \/ \E f \in File, x \in Text \cup {Absent} : Edit(f, x)
    \/ Tick
    \/ \E s \in Scanner :
          \/ \E force, full \in BOOLEAN : Start(s, force, full)
          \/ ScanStep(s) \/ Crash(s)

Spec == Init /\ [][Next]_vars

-----------------------------------------------------------------------------
Quiet == \A s \in Scanner : ~Active(s)

\* codebase/__init__.py:182-189: whatever scans overlap, fail or die and however
\* files change between two reads, the symbols of a registered file are those of
\* the text whose hash is registered: a rescan that finds the hash unchanged may skip it.
SymbolsMatchScan ==
    \A f \in File : scans[f] # None =>
        {y.name : y \in OfMemory(scans[f].mem)} = Defs[scans[f].hash]

\* _resolve.py:129-144: with no scan running, a registered file has a row for every
\* reference of its text, although the files its targets are in were rescanned and their
\* symbols deleted under it -- except for what a scan that died or raised had in hand,
\* and for what one lost because its target went after the definitions were read.
ReferencesHaveRows ==
    Quiet => \A f \in File : scans[f] # None /\ scans[f].mem \notin owed =>
        Refs[scans[f].hash] \subseteq
            {<<r.src.name, r.name>> : r \in {r \in relations : r.src.mem = scans[f].mem}}

\* _lock.py:4-11, 72-77, 94-105: of the scans that run at once, all but one were
\* taken for crashed ones because they had run for longer than the threshold.
OneScanUnlessOverrun ==
    \A s, t \in Scanner \ overrun : Active(s) /\ Active(t) => s = t

-----------------------------------------------------------------------------
(* What the scan's comments say and the code does not keep *)

\* __init__.py:165-166, "drops stale symbols": with no scan running, a reference of
\* a registered file is resolved to a symbol of a registered text.  A changed file
\* has a new memory, and edges into the old one's symbols stay.
TargetsAreCurrent ==
    Quiet => \A r \in relations : r.src.mem \in Registered /\ r.tgt # None =>
                r.tgt.mem \in Registered

\* "Restore CASCADE orphans" (_resolve.py:349): the restore never fails.
OrphansRestore == \A s \in Scanner : pc[s] = "resolving" /\ ~run[s].full => Restorable(s)

\* _resolve.py:11-14: every reference is recorded, resolved or not.
NothingIsLost == [][\A s \in Scanner : Resolve(s) => Lost(Step1(s)) = {}]_vars

=============================================================================
