--------------------------- MODULE CodeGraphProofs ---------------------------
(***************************************************************************)
(* What TLAPS proves of CodeGraph for any files, texts, names and scanning *)
(* processes, and any number of edits, scans and failures: the registered  *)
(* symbols and references are those of the registered text, and scans      *)
(* exclude each other as long as none is taken for a crashed one.          *)
(***************************************************************************)
EXTENDS CodeGraph, TLAPS

-----------------------------------------------------------------------------
(* The inductive invariant *)

\* A scanner that has read a file has the file and its text.
FileInHand == \A s \in Scanner : pc[s] = "reading" => run[s].file \in File /\ run[s].text \in Text

\* The memory a file is registered with is one of that file: another file's
\* rescan cannot touch its symbols.
OwnMemory == \A f \in File : scans[f] # None => scans[f].mem[1] = f

\* A scan that was not taken for a crashed one has the lock row.
LockHeld == \A s \in Scanner \ overrun : Active(s) => lock # None /\ lock.pid = s

\* A row of reference q, out of a symbol of memory m.
Has(m, q) == \E r \in relations : r.src.mem = m /\ r.src.name = q[1] /\ r.name = q[2]

\* A scan that has not read the definitions, or has m's symbols among them.
Knows(s, m) == pc[s] \in {"files", "reading"} \/ OfMemory(m) \subseteq defs[s].symbols

\* A scan that is not over will write that row or owe it: the text is in its
\* relations_sink, or it took a snapshot of the row.
Will(s, m, x, q) ==
    /\ pc[s] \in {"files", "reading", "defining", "resolving"}
    /\ \/ [mem |-> m, text |-> x] \in run[s].sink /\ Knows(s, m)
       \/ \E o \in orphans[s] : /\ o.src \in symbols
                                /\ o.src.mem = m /\ o.src.name = q[1] /\ o.name = q[2]

\* No reference of a registered text is lost, except for what is owed.
ReferencesKept ==
    \A f \in File : scans[f] # None /\ scans[f].mem \notin owed =>
        \A q \in Refs[scans[f].hash] :
            Has(scans[f].mem, q) \/ \E s \in Scanner : Will(s, scans[f].mem, scans[f].hash, q)

Typed == TypeOK /\ FileInHand
Inv == Typed /\ OwnMemory /\ SymbolsMatchScan /\ ReferencesKept

LEMMA InitInv == Init => Inv /\ LockHeld
<1> SUFFICES ASSUME Init PROVE Inv /\ LockHeld
  OBVIOUS
<1>1. NoRun \in Runs
  BY DEF NoRun, Runs
<1>2. TypeOK
  BY <1>1, BoundsAreNumbers DEF Init, TypeOK, NoDefs
<1>3. FileInHand /\ OwnMemory /\ SymbolsMatchScan /\ ReferencesKept /\ LockHeld
  BY DEF Init, FileInHand, OwnMemory, SymbolsMatchScan, ReferencesKept, LockHeld, Active
<1> QED BY <1>2, <1>3 DEF Inv, Typed

-----------------------------------------------------------------------------
(* Rows *)

Definitions == [symbols : SUBSET Symbol, registered : SUBSET FileMemory]

\* A name resolves to a symbol of the definitions, or to none.
LEMMA LookupType ==
    ASSUME NEW D, NEW m, NEW n PROVE Lookup(D, m, n) \in D.symbols \cup {None}
<1> DEFINE own    == {y \in D.symbols : y.mem = m /\ y.name = n}
           beside == {y \in D.symbols : y.mem \in D.registered \ {m} /\ y.name = n}
<1>1. own # {} => (CHOOSE y \in own : TRUE) \in own
  OBVIOUS
<1>2. beside # {} => (CHOOSE y \in beside : TRUE) \in beside
  OBVIOUS
<1> QED BY <1>1, <1>2 DEF Lookup

\* Rows, and what may be tried to insert as one.
Row  == [src : symbols, name : Name, tgt : symbols \cup {None}]
Wide == [src : Symbol, name : Name, tgt : Symbol \cup {None}]

LEMMA RowsAreWide == ASSUME TypeOK PROVE Row \subseteq Wide /\ relations \subseteq Row
<1>1. symbols \subseteq Symbol
  BY DEF TypeOK, Symbol
<1> QED BY <1>1 DEF TypeOK, Row, Wide

\* The foreign keys hold for what is inserted, and held for what was there.
LEMMA SoundRows ==
    ASSUME TypeOK, NEW R \in SUBSET Wide, relations \subseteq R
    PROVE  Sound(R) \subseteq Row /\ relations \subseteq Sound(R) /\ Sound(R) \subseteq R
BY RowsAreWide DEF Sound, Row, Wide

\* The rows of a text's references may be inserted, and with the symbols the text
\* defines among the definitions, every reference has its row.
LEMMA RowsForType ==
    ASSUME NEW D \in Definitions, NEW m, NEW x \in Text
    PROVE  RowsFor(D, m, x) \subseteq Wide
<1> SUFFICES ASSUME NEW z \in Refs[x] \X D.symbols
             PROVE  [src |-> z[2], name |-> z[1][2], tgt |-> Lookup(D, m, z[1][2])] \in Wide
  BY DEF RowsFor
<1>1. D.symbols \subseteq Symbol /\ Lookup(D, m, z[1][2]) \in D.symbols \cup {None}
  BY LookupType DEF Definitions
<1> QED BY <1>1, ReferencesHaveSources DEF Wide

LEMMA RowsForHave ==
    ASSUME NEW D, NEW m, NEW x \in Text, {y.name : y \in OfMemory(m)} = Defs[x],
           OfMemory(m) \subseteq D.symbols, NEW q \in Refs[x]
    PROVE  \E r \in RowsFor(D, m, x) :
              r.src \in symbols /\ r.src.mem = m /\ r.src.name = q[1] /\ r.name = q[2]
<1>1. q[1] \in Defs[x]
  BY ReferencesHaveSources
<1>2. PICK y \in symbols : y.mem = m /\ y.name = q[1] /\ y \in D.symbols
  BY <1>1 DEF OfMemory
<1>3. [src |-> y, name |-> q[2], tgt |-> Lookup(D, m, q[2])] \in RowsFor(D, m, x)
  <2>1. <<q, y>> \in {z \in Refs[x] \X D.symbols : z[2].mem = m /\ z[2].name = z[1][1]}
    BY <1>2
  <2> QED BY <2>1 DEF RowsFor
<1> QED BY <1>2, <1>3

\* INSERT OR IGNORE: every row that is there stays, and for every row to be
\* inserted there is one with its source and name.
LEMMA MergeHas ==
    ASSUME NEW R, NEW new, NEW n \in R \cup new
    PROVE  \E r \in Merge(R, new) : r.src = n.src /\ r.name = n.name
<1>1. CASE n \in R
  BY <1>1 DEF Merge
<1>2. CASE n \in new
  <2>1. CASE \E r \in R : r.src = n.src /\ r.name = n.name
    BY <2>1 DEF Merge
  <2>2. CASE \A r \in R : r.src # n.src \/ r.name # n.name
    BY <1>2, <2>2 DEF Merge
  <2> QED BY <2>1, <2>2
<1> QED BY <1>1, <1>2

LEMMA MergeType ==
    ASSUME NEW R, NEW new PROVE Merge(R, new) \subseteq R \cup new
BY DEF Merge

\* The rows of the texts a scan has read, and what step 1 leaves.
LEMMA ExtractedType ==
    ASSUME TypeOK, NEW s \in Scanner PROVE Extracted(s) \subseteq Wide
<1>1. defs[s] \in Definitions /\ \A x \in run[s].sink : x.text \in Text
  BY DEF TypeOK, Runs, Definitions
<1>2. \A x \in run[s].sink : RowsFor(defs[s], x.mem, x.text) \subseteq Wide
  BY <1>1, RowsForType
<1> QED BY <1>2 DEF Extracted

LEMMA Step1Type ==
    ASSUME TypeOK, NEW s \in Scanner
    PROVE  /\ Step1(s) \subseteq Wide
           /\ Sound(Step1(s)) \subseteq Row /\ relations \subseteq Sound(Step1(s))
<1>1. Step1(s) \subseteq relations \cup Extracted(s) /\ relations \subseteq Step1(s)
  BY DEF Step1, Merge
<1>2. Step1(s) \subseteq Wide
  BY <1>1, RowsAreWide, ExtractedType
<1> QED BY <1>1, <1>2, SoundRows

LEMMA Step2Type ==
    ASSUME TypeOK, NEW s \in Scanner, Restorable(s)
    PROVE  Step2(s) \subseteq Row
<1>1. Restored(s) \subseteq Row
  BY DEF Restorable, Restored, Row, TypeOK
<1>2. Step2(s) \subseteq Sound(Step1(s)) \cup Restored(s)
  BY MergeType DEF Step2
<1> QED BY <1>1, <1>2, Step1Type

\* A row looked up once more is a row if its target is there.
LEMMA RetriedType ==
    ASSUME NEW s, NEW r \in Row, ~Gone(s, r)
    PROVE  Retried(s, r) \in Row
BY DEF Retried, Gone, Row

\* What an insert loses is the memory of a symbol.
LEMMA LostType ==
    ASSUME TypeOK, NEW R PROVE Lost(R) \subseteq FileMemory
BY DEF Lost, TypeOK, Symbol

-----------------------------------------------------------------------------
(* Types *)

LEMMA WorldTyped ==
    ASSUME Typed, (\E f \in File, x \in Text \cup {Absent} : Edit(f, x)) \/ Tick
    PROVE  Typed'
<1>1. CASE \E f \in File, x \in Text \cup {Absent} : Edit(f, x)
  BY <1>1, BoundsAreNumbers DEF Edit, rows, Typed, TypeOK, FileInHand
<1>2. CASE Tick
  <2>1. lock \in [pid : Scanner, age : 0..StaleAge + 1] /\ lock.age <= StaleAge
    BY <1>2 DEF Tick, Typed, TypeOK
  <2>2. lock' \in [pid : Scanner, age : 0..StaleAge + 1]
    BY <1>2, <2>1, BoundsAreNumbers DEF Tick
  <2> QED BY <1>2, <2>2 DEF Tick, rows, Typed, TypeOK, FileInHand
<1> QED BY <1>1, <1>2

\* A scan begins or ends.
LEMMA ScanTyped ==
    ASSUME Typed, NEW s \in Scanner,
           (\E force, full \in BOOLEAN : Start(s, force, full)) \/ Release(s) \/ Crash(s)
    PROVE  Typed'
<1>1. UNCHANGED <<disk, rows, gens, edits>>
  BY DEF Start, Release, Crash
<1>2. lock' \in [pid : Scanner, age : 0..StaleAge + 1] \cup {None}
  BY BoundsAreNumbers DEF Start, Release, Crash, Unlock, Typed, TypeOK
<1>3. run' \in [Scanner -> Runs]
  <2>1. PICK q \in Runs : run' = [run EXCEPT ![s] = q]
    <3>1. NoRun \in Runs /\ \A force, full \in BOOLEAN : Walked(force, full) \in Runs
      BY DEF NoRun, Walked, Runs
    <3> QED BY <3>1 DEF Start, Release, Crash, Unlock
  <2> QED BY <2>1 DEF Typed, TypeOK
<1>4. pc' \in [Scanner -> {"idle", "files", "reading", "defining", "resolving", "release"}] /\ FileInHand'
  BY DEF Start, Release, Crash, Unlock, Typed, TypeOK, FileInHand
<1>5. /\ orphans' \in [Scanner -> SUBSET [src : Symbol, name : Name]]
      /\ defs' \in [Scanner -> [symbols : SUBSET Symbol, registered : SUBSET FileMemory]]
  BY DEF Start, Release, Crash, Typed, TypeOK, NoDefs
<1>6. owed' \subseteq FileMemory
  <2>1. Debts(s) \subseteq FileMemory
    BY DEF Debts, Typed, TypeOK, Runs, Symbol
  <2> QED BY <2>1 DEF Start, Release, Crash, Typed, TypeOK
<1>7. overrun' \subseteq Scanner
  BY DEF Start, Release, Crash, Typed, TypeOK
<1>8. starts' \in 0..MaxScans /\ trouble' \in 0..MaxTrouble
  BY BoundsAreNumbers DEF Start, Release, Crash, Typed, TypeOK
<1> QED BY <1>1, <1>2, <1>3, <1>4, <1>5, <1>6, <1>7, <1>8 DEF rows, Typed, TypeOK

\* The scan goes on after a file.
LEMMA GoOnTyped ==
    ASSUME Typed, NEW s \in Scanner, NEW f, NEW sink \in SUBSET [mem : FileMemory, text : Text],
           GoOnWith(s, f, sink)
    PROVE  /\ run' \in [Scanner -> Runs]
           /\ pc' \in [Scanner -> {"idle", "files", "reading", "defining", "resolving", "release"}]
           /\ FileInHand'
<1> DEFINE q == [todo |-> run[s].todo \ {f}, force |-> run[s].force, full |-> run[s].full,
                 file |-> None, text |-> None, sink |-> sink]
<1>1. run[s] \in Runs
  BY DEF Typed, TypeOK
<1>2. q \in Runs
  BY <1>1 DEF Runs
<1>3. run' = [run EXCEPT ![s] = q] /\ pc' = [pc EXCEPT ![s] = "files"]
  BY DEF GoOnWith
<1> HIDE DEF q
<1> QED BY <1>2, <1>3 DEF Typed, TypeOK, FileInHand

LEMMA FileTyped ==
    ASSUME Typed, NEW s \in Scanner,
           (\E f \in File : FileStep(s, f)) \/ FileFails(s)
    PROVE  Typed'
<1>1. UNCHANGED <<disk, rows, lock, defs, orphans, gens, owed, overrun, edits, starts>>
  BY DEF FileStep, Unchanged, Read, FileVanished, FileFails
<1>2. trouble' \in 0..MaxTrouble
  BY BoundsAreNumbers DEF FileStep, Unchanged, Read, FileVanished, FileFails, Typed, TypeOK
<1>3. /\ run' \in [Scanner -> Runs]
      /\ pc' \in [Scanner -> {"idle", "files", "reading", "defining", "resolving", "release"}]
      /\ FileInHand'
  <2>1. run[s] \in Runs /\ run[s].sink \in SUBSET [mem : FileMemory, text : Text]
    BY DEF Typed, TypeOK, Runs
  <2>2. CASE \E f \in File : Unchanged(s, f) \/ FileVanished(s, f)
    BY <2>1, <2>2, GoOnTyped DEF Unchanged, FileVanished, GoOn
  <2>3. CASE FileFails(s)
    BY <2>1, <2>3, GoOnTyped DEF FileFails, GoOn
  <2>4. CASE \E f \in File : Read(s, f)
    <3>1. PICK f \in File : Read(s, f)
      BY <2>4
    <3> DEFINE q == [todo |-> run[s].todo, force |-> run[s].force, full |-> run[s].full,
                     file |-> f, text |-> disk[f], sink |-> run[s].sink]
    <3>2. disk[f] \in Text
      BY <3>1 DEF Read, Typed, TypeOK
    <3>3. q \in Runs /\ q.file = f /\ q.text = disk[f]
      BY <2>1, <3>2 DEF Runs
    <3>4. run' = [run EXCEPT ![s] = q] /\ pc' = [pc EXCEPT ![s] = "reading"]
      BY <3>1 DEF Read
    <3> HIDE DEF q
    <3> QED BY <3>2, <3>3, <3>4 DEF Typed, TypeOK, FileInHand
  <2> QED BY <2>2, <2>3, <2>4 DEF FileStep
<1> QED BY <1>1, <1>2, <1>3 DEF rows, Typed, TypeOK

\* What a rescan of f registers, and the rows it leaves.
LEMMA WriteTyped ==
    ASSUME Typed, NEW s \in Scanner, Write(s)
    PROVE  Typed'
<1> DEFINE f == run[s].file
           x == run[s].text
           m == <<f, disk[f]>>
           new == {[mem |-> m, name |-> n, gen |-> gens + 1] : n \in Defs[x]}
<1>1. f \in File /\ x \in Text /\ disk[f] \in Text /\ m \in FileMemory
  BY DEF Write, Typed, TypeOK, FileInHand, FileMemory
<1>2. Rescan(s, f, x, m) /\ gens' = gens + 1
  BY DEF Write
<1>3. GoOnWith(s, f, {y \in run[s].sink : y.mem # m} \cup {[mem |-> m, text |-> x]})
  BY DEF Write
<1>4. UNCHANGED <<disk, lock, defs, owed, overrun, edits, starts, trouble>>
  BY DEF Write
<1> HIDE DEF f, x, m
<1>5. {y \in run[s].sink : y.mem # m} \cup {[mem |-> m, text |-> x]} \in SUBSET [mem : FileMemory, text : Text]
  BY <1>1 DEF Typed, TypeOK, Runs
<1>6. /\ run' \in [Scanner -> Runs]
      /\ pc' \in [Scanner -> {"idle", "files", "reading", "defining", "resolving", "release"}]
      /\ FileInHand'
  BY <1>3, <1>5, GoOnTyped
<1>7. memories' = memories \cup {m} /\ memories' \subseteq FileMemory
  BY <1>1, <1>2 DEF Rescan, Typed, TypeOK
<1>8. scans' \in [File -> [hash : Text, mem : memories'] \cup {None}]
  BY <1>1, <1>2, <1>7 DEF Rescan, Typed, TypeOK
<1>9. symbols' = (symbols \ OfMemory(m)) \cup new
  BY <1>2 DEF Rescan
<1>10. new \subseteq [mem : memories', name : Name, gen : Nat]
  BY <1>1, <1>7, ReferencesHaveSources DEF Typed, TypeOK
<1> HIDE DEF new
<1>11. symbols' \subseteq [mem : memories', name : Name, gen : Nat]
  BY <1>7, <1>9, <1>10 DEF Typed, TypeOK
<1>12. relations' \subseteq [src : symbols', name : Name, tgt : symbols' \cup {None}]
  <2>1. relations' = {r \in relations : r.src \notin OfMemory(m) /\ r.tgt \notin OfMemory(m)}
    BY <1>2 DEF Rescan
  <2> QED BY <1>9, <2>1 DEF Typed, TypeOK
<1>13. orphans' \in [Scanner -> SUBSET [src : Symbol, name : Name]]
  <2>1. symbols \subseteq Symbol
    BY DEF Typed, TypeOK, Symbol
  <2>2. \A r \in relations : r.src \in symbols /\ r.name \in Name
    BY DEF Typed, TypeOK
  <2> DEFINE hit == {[src |-> r.src, name |-> r.name] : r \in {r \in relations : r.tgt \in OfMemory(m)}}
  <2>3. hit \subseteq [src : Symbol, name : Name]
    BY <2>1, <2>2
  <2>4. orphans' = [orphans EXCEPT ![s] = @ \cup hit]
    BY <1>2 DEF Rescan
  <2> HIDE DEF hit
  <2> QED BY <2>3, <2>4 DEF Typed, TypeOK
<1>14. gens' \in Nat
  BY <1>2 DEF Typed, TypeOK
<1> QED
  BY <1>4, <1>6, <1>7, <1>8, <1>11, <1>12, <1>13, <1>14 DEF Typed, TypeOK

\* The definitions are those of the moment.
LEMMA ReadsTyped ==
    ASSUME Typed, NEW s \in Scanner, ReadSymbols(s) \/ ReadScans(s)
    PROVE  Typed'
<1>1. UNCHANGED <<disk, rows, lock, run, orphans, gens, owed, overrun, edits, starts, trouble>>
  BY DEF ReadSymbols, ReadScans
<1>2. defs' \in [Scanner -> [symbols : SUBSET Symbol, registered : SUBSET FileMemory]]
  <2>1. defs[s].symbols \in SUBSET Symbol /\ symbols \in SUBSET Symbol
    BY DEF Typed, TypeOK, Symbol
  <2>2. Registered \in SUBSET FileMemory
    BY NullIsNew DEF Registered, Typed, TypeOK
  <2> QED BY <2>1, <2>2 DEF ReadSymbols, ReadScans, Typed, TypeOK
<1>3. pc' \in [Scanner -> {"idle", "files", "reading", "defining", "resolving", "release"}] /\ FileInHand'
  BY <1>1 DEF ReadSymbols, ReadScans, Typed, TypeOK, FileInHand
<1> QED BY <1>1, <1>2, <1>3 DEF rows, Typed, TypeOK

Resolves(s) == Resolve(s) \/ RestoreRaises(s) \/ UpdateRaises(s)

LEMMA ResolvesTyped ==
    ASSUME Typed, NEW s \in Scanner, Resolves(s) \/ ResolveFull(s)
    PROVE  Typed'
<1>1. UNCHANGED <<disk, memories, scans, symbols, gens, overrun, edits, starts, trouble>>
  BY DEF Resolves, Resolve, RestoreRaises, UpdateRaises, ResolveFull
<1>2. relations' \subseteq Row
  <2>1. TypeOK
    BY DEF Typed
  <2>2. CASE Resolve(s)
    <3>1. /\ Step2(s) \subseteq Row /\ relations' = {Retried(s, r) : r \in Step2(s)}
          /\ \A r \in Step2(s) : ~Gone(s, r)
      BY <2>1, <2>2, Step2Type DEF Resolve
    <3> QED BY <3>1, RetriedType
  <2>3. CASE RestoreRaises(s)
    BY <2>1, <2>3, Step1Type DEF RestoreRaises
  <2>4. CASE UpdateRaises(s)
    <3>1. Step2(s) \subseteq Row
      BY <2>1, <2>4, Step2Type DEF UpdateRaises
    <3>2. PICK done \in SUBSET {r \in Step2(s) : ~Gone(s, r)} :
             relations' = (Step2(s) \ done) \cup {Retried(s, r) : r \in done}
      BY <2>4 DEF UpdateRaises
    <3>3. \A r \in done : Retried(s, r) \in Row
      BY <3>1, <3>2, RetriedType
    <3> QED BY <3>1, <3>2, <3>3
  <2>5. CASE ResolveFull(s)
    <3> DEFINE present == {m \in defs[s].registered : disk[m[1]] # Absent}
               new == UNION {RowsFor(defs[s], m, disk[m[1]]) : m \in present}
    <3>1. defs[s] \in Definitions /\ \A m \in present : disk[m[1]] \in Text
      BY <2>1 DEF TypeOK, Definitions, FileMemory
    <3>2. \A m \in present : RowsFor(defs[s], m, disk[m[1]]) \subseteq Wide
      BY <3>1, RowsForType
    <3>3. new \subseteq Wide
      BY <3>2
    <3>4. relations' = Sound(Merge(relations, new))
      BY <2>5 DEF ResolveFull
    <3> HIDE DEF new
    <3>5. Merge(relations, new) \subseteq Wide /\ relations \subseteq Merge(relations, new)
      BY <2>1, <3>3, RowsAreWide DEF Merge
    <3> QED BY <2>1, <3>4, <3>5, SoundRows
  <2> QED BY <2>2, <2>3, <2>4, <2>5 DEF Resolves
<1>3. /\ run' \in [Scanner -> Runs]
      /\ pc' \in [Scanner -> {"idle", "files", "reading", "defining", "resolving", "release"}]
      /\ FileInHand'
  <2>1. NoRun \in Runs
    BY DEF NoRun, Runs
  <2>2. /\ pc' = [pc EXCEPT ![s] = "release"] \/ pc' = [pc EXCEPT ![s] = "idle"]
        /\ run' = run \/ run' = [run EXCEPT ![s] = NoRun]
    BY DEF Resolves, Resolve, RestoreRaises, UpdateRaises, ResolveFull, Unlock
  <2>3. run' \in [Scanner -> Runs]
    BY <2>1, <2>2 DEF Typed, TypeOK
  <2>4. pc' \in [Scanner -> {"idle", "files", "reading", "defining", "resolving", "release"}]
    BY <2>2 DEF Typed, TypeOK
  <2>5. ASSUME NEW t \in Scanner, pc'[t] = "reading" PROVE run'[t] = run[t] /\ pc[t] = "reading"
    BY <2>2, <2>5 DEF Typed, TypeOK
  <2> QED BY <2>3, <2>4, <2>5 DEF Typed, FileInHand
<1>4. /\ orphans' \in [Scanner -> SUBSET [src : Symbol, name : Name]]
      /\ defs' \in [Scanner -> [symbols : SUBSET Symbol, registered : SUBSET FileMemory]]
  <2>1. NoDefs \in [symbols : SUBSET Symbol, registered : SUBSET FileMemory]
    BY DEF NoDefs
  <2>2. /\ orphans' = orphans \/ orphans' = [orphans EXCEPT ![s] = {}]
        /\ defs' = [defs EXCEPT ![s] = NoDefs]
    BY DEF Resolves, Resolve, RestoreRaises, UpdateRaises, ResolveFull
  <2> QED BY <2>1, <2>2 DEF Typed, TypeOK
<1>5. lock' \in [pid : Scanner, age : 0..StaleAge + 1] \cup {None}
  BY DEF Resolves, Resolve, RestoreRaises, UpdateRaises, ResolveFull, Unlock, Typed, TypeOK
<1>6. owed' \subseteq FileMemory
  <2>1. \A o \in orphans[s] : o.src.mem \in FileMemory
    BY DEF Typed, TypeOK, Symbol
  <2>2. Debts(s) \subseteq FileMemory
    BY <2>1 DEF Debts, Typed, TypeOK, Runs
  <2>3. PICK R : owed' \subseteq owed \cup Debts(s) \cup Lost(R)
    <3>1. CASE ResolveFull(s)
      BY <3>1 DEF ResolveFull
    <3>2. CASE Resolves(s)
      <4>1. owed' \subseteq Owed(s) \cup {o.src.mem : o \in orphans[s]}
        BY <3>2 DEF Resolves, Resolve, RestoreRaises, UpdateRaises
      <4> QED BY <4>1 DEF Owed, Debts
    <3> QED BY <3>1, <3>2
  <2> QED BY <2>2, <2>3, LostType DEF Typed, TypeOK
<1> QED BY <1>1, <1>2, <1>3, <1>4, <1>5, <1>6 DEF Row, Typed, TypeOK

LEMMA NextTyped == Typed /\ [Next]_vars => Typed'
<1> SUFFICES ASSUME Typed, [Next]_vars PROVE Typed'
  OBVIOUS
<1>1. CASE (\E f \in File, x \in Text \cup {Absent} : Edit(f, x)) \/ Tick
  BY <1>1, WorldTyped
<1>2. CASE \E s \in Scanner : \/ \E force, full \in BOOLEAN : Start(s, force, full)
                              \/ Release(s) \/ Crash(s)
  BY <1>2, ScanTyped
<1>3. CASE \E s \in Scanner : (\E f \in File : FileStep(s, f)) \/ FileFails(s)
  BY <1>3, FileTyped
<1>4. CASE \E s \in Scanner : Write(s)
  BY <1>4, WriteTyped
<1>5. CASE \E s \in Scanner : Resolves(s) \/ ResolveFull(s)
  BY <1>5, ResolvesTyped
<1>6. CASE \E s \in Scanner : ReadSymbols(s) \/ ReadScans(s)
  BY <1>6, ReadsTyped
<1>7. CASE UNCHANGED vars
  BY <1>7 DEF vars, rows, Typed, TypeOK, FileInHand
<1> QED BY <1>1, <1>2, <1>3, <1>4, <1>5, <1>6, <1>7 DEF Next, ScanStep, Resolves

\* However files change and scans overlap, fail or die, every variable has its type
\* and rows refer to rows that are there.
THEOREM TypeCorrect == Spec => []TypeOK
<1>1. Init => Typed
  BY InitInv DEF Inv
<1>2. Typed => TypeOK
  BY DEF Typed
<1> QED BY <1>1, <1>2, NextTyped, PTL DEF Spec

-----------------------------------------------------------------------------
(* The scan lock *)

LEMMA NextLock == Typed /\ LockHeld /\ [Next]_vars => LockHeld'
<1> SUFFICES ASSUME Typed, LockHeld, [Next]_vars PROVE LockHeld'
  OBVIOUS
<1>1. CASE UNCHANGED <<lock, overrun>> /\ \A t \in Scanner : Active(t)' => Active(t)
  BY <1>1 DEF LockHeld
<1>2. ASSUME NEW s \in Scanner, NEW force \in BOOLEAN, NEW full \in BOOLEAN, Start(s, force, full)
      PROVE  LockHeld'
  <2>1. lock' = [pid |-> s, age |-> 0] /\ lock' # None
    BY <1>2, BoundsAreNumbers, NullIsNew DEF Start
  <2>2. ASSUME NEW t \in Scanner \ overrun', Active(t)', t # s PROVE FALSE
    <3>1. Active(t) /\ t \notin overrun
      BY <1>2, <2>2 DEF Start, Active, Typed, TypeOK
    <3>2. lock # None /\ lock.pid = t
      BY <3>1 DEF LockHeld
    <3> QED BY <1>2, <2>2, <3>2 DEF Start
  <2> QED BY <2>1, <2>2 DEF LockHeld
<1>3. CASE Tick
  <2>1. lock \in [pid : Scanner, age : 0..StaleAge + 1]
    BY <1>3 DEF Tick, Typed, TypeOK
  <2>2. lock' \in [pid : Scanner, age : Nat] /\ lock'.pid = lock.pid
    BY <1>3, <2>1, BoundsAreNumbers DEF Tick
  <2> QED BY <1>3, <2>2, NullIsNew DEF Tick, LockHeld, Active
<1>4. ASSUME NEW s \in Scanner, Unlock(s), UNCHANGED overrun
      PROVE  LockHeld'
  BY <1>4 DEF Unlock, LockHeld, Active, Typed, TypeOK
<1>5. CASE \E s \in Scanner : Crash(s)
  BY <1>5 DEF Crash, LockHeld, Active, Typed, TypeOK
<1>6. CASE \E f \in File, x \in Text \cup {Absent} : Edit(f, x)
  BY <1>1, <1>6 DEF Edit, Active
<1>7. CASE \E s \in Scanner : (\E f \in File : FileStep(s, f)) \/ Write(s) \/ FileFails(s)
  BY <1>1, <1>7
  DEF FileStep, Unchanged, Read, FileVanished, Write, FileFails, GoOn, GoOnWith, Active, Typed, TypeOK
<1>8. CASE \E s \in Scanner : ReadSymbols(s) \/ ReadScans(s) \/ Resolve(s) \/ ResolveFull(s)
  BY <1>1, <1>8 DEF ReadSymbols, ReadScans, Resolve, ResolveFull, AllRead, Active, Typed, TypeOK
<1>9. CASE \E s \in Scanner : RestoreRaises(s) \/ UpdateRaises(s) \/ Release(s)
  BY <1>4, <1>9 DEF RestoreRaises, UpdateRaises, Release
<1>10. CASE UNCHANGED vars
  BY <1>1, <1>10 DEF vars, Active
<1> QED
  BY <1>2, <1>3, <1>5, <1>6, <1>7, <1>8, <1>9, <1>10 DEF Next, ScanStep

\* _lock.py: of any number of scans that run at once, all but one were taken for
\* crashed ones after the threshold.
THEOREM OneScan == Spec => []OneScanUnlessOverrun
<1>1. Init => Typed /\ LockHeld
  BY InitInv DEF Inv
<1>2. (Typed /\ LockHeld) /\ [Next]_vars => (Typed /\ LockHeld)'
  BY NextTyped, NextLock
<1>3. Typed /\ LockHeld => OneScanUnlessOverrun
  BY DEF LockHeld, OneScanUnlessOverrun
<1> QED BY <1>1, <1>2, <1>3, PTL DEF Spec

-----------------------------------------------------------------------------
(* Symbols *)

\* f is registered under m with text x, whose symbols m has; the other files and
\* their symbols are what they were.
Rescanned(f, x, m) ==
    /\ f \in File /\ x \in Text
    /\ scans'[f] = [hash |-> x, mem |-> m]
    /\ {y.name : y \in OfMemory(m)'} = Defs[x]
    /\ \A g \in File \ {f} :
          /\ scans'[g] = scans[g]
          /\ scans[g] # None => /\ scans[g].mem # m
                                /\ OfMemory(scans[g].mem)' = OfMemory(scans[g].mem)

\* A rescan replaces the symbols of the file's own memory and of no other.
LEMMA RescanSymbols ==
    ASSUME Typed, OwnMemory, NEW s \in Scanner, Write(s),
           NEW f, f = run[s].file, NEW x, x = run[s].text, NEW m, m = <<f, disk[f]>>
    PROVE  Rescanned(f, x, m)
<1> DEFINE new == {[mem |-> m, name |-> n, gen |-> gens + 1] : n \in Defs[x]}
<1>1. f \in File /\ x \in Text
  BY DEF Write, Typed, FileInHand
<1>2. Rescan(s, f, x, m)
  BY DEF Write
<1>3. m[1] = f
  OBVIOUS
<1>4. \A y \in new : y.mem = m
  OBVIOUS
<1>5. {y.name : y \in new} = Defs[x]
  <2>1. \A y \in new : y.name \in Defs[x]
    OBVIOUS
  <2>2. ASSUME NEW n \in Defs[x] PROVE \E y \in new : y.name = n
    <3>1. [mem |-> m, name |-> n, gen |-> gens + 1] \in new
      OBVIOUS
    <3> QED BY <3>1
  <2> QED BY <2>1, <2>2
<1>6. scans' = [scans EXCEPT ![f] = [hash |-> x, mem |-> m]]
  BY <1>2 DEF Rescan
<1>7. symbols' = (symbols \ OfMemory(m)) \cup new
  BY <1>2 DEF Rescan
<1> HIDE DEF new
<1>8. OfMemory(m)' = new
  BY <1>4, <1>7 DEF OfMemory
<1>9. ASSUME NEW g \in File \ {f}, scans[g] # None
      PROVE  scans[g].mem # m /\ OfMemory(scans[g].mem)' = OfMemory(scans[g].mem)
  <2>1. scans[g].mem # m
    BY <1>3, <1>9 DEF OwnMemory
  <2>2. scans'[g] = scans[g]
    BY <1>6, <1>9 DEF Typed, TypeOK
  <2>3. {y \in symbols' : y.mem = scans[g].mem} = {y \in symbols : y.mem = scans[g].mem}
    BY <1>4, <1>7, <2>1 DEF OfMemory
  <2> QED BY <2>1, <2>2, <2>3 DEF OfMemory
<1>10. scans'[f] = [hash |-> x, mem |-> m] /\ \A g \in File \ {f} : scans'[g] = scans[g]
  BY <1>1, <1>6 DEF Typed, TypeOK
<1> QED BY <1>1, <1>5, <1>8, <1>9, <1>10 DEF Rescanned

\* Only a rescan registers a file or changes symbols.
LEMMA OnlyWrite ==
    ASSUME [Next]_vars
    PROVE  UNCHANGED <<scans, symbols>> \/ \E s \in Scanner : Write(s)
<1>1. CASE UNCHANGED vars
  BY <1>1 DEF vars, rows
<1>2. CASE (\E f \in File, x \in Text \cup {Absent} : Edit(f, x)) \/ Tick
  BY <1>2 DEF Edit, Tick, rows
<1>3. CASE \E s \in Scanner : \/ \E force, full \in BOOLEAN : Start(s, force, full)
                              \/ Release(s) \/ Crash(s)
  BY <1>3 DEF Start, Release, Crash, rows
<1>4. CASE \E s \in Scanner : (\E f \in File : FileStep(s, f)) \/ FileFails(s)
  BY <1>4 DEF FileStep, Unchanged, Read, FileVanished, FileFails, rows
<1>5. CASE \E s \in Scanner : \/ ReadSymbols(s) \/ ReadScans(s) \/ Resolve(s)
                              \/ RestoreRaises(s) \/ UpdateRaises(s) \/ ResolveFull(s)
  BY <1>5 DEF ReadSymbols, ReadScans, Resolve, RestoreRaises, UpdateRaises, ResolveFull, rows
<1> QED BY <1>1, <1>2, <1>3, <1>4, <1>5 DEF Next, ScanStep

LEMMA NextSymbols ==
    Typed /\ OwnMemory /\ SymbolsMatchScan /\ [Next]_vars => OwnMemory' /\ SymbolsMatchScan'
<1> SUFFICES ASSUME Typed, OwnMemory, SymbolsMatchScan, [Next]_vars
             PROVE  OwnMemory' /\ SymbolsMatchScan'
  OBVIOUS
<1>1. CASE UNCHANGED <<scans, symbols>>
  BY <1>1 DEF OwnMemory, SymbolsMatchScan, OfMemory
<1>2. ASSUME NEW s \in Scanner, Write(s)
      PROVE  OwnMemory' /\ SymbolsMatchScan'
  <2>0. PICK f, x, m : f = run[s].file /\ x = run[s].text /\ m = <<f, disk[f]>>
    OBVIOUS
  <2>1. /\ f \in File /\ scans'[f] = [hash |-> x, mem |-> m]
        /\ {y.name : y \in OfMemory(m)'} = Defs[x]
        /\ \A g \in File \ {f} :
              /\ scans'[g] = scans[g]
              /\ scans[g] # None => OfMemory(scans[g].mem)' = OfMemory(scans[g].mem)
    <3>1. Rescanned(f, x, m)
      BY <1>2, <2>0, RescanSymbols
    <3> QED BY <3>1 DEF Rescanned
  <2>2. m[1] = f
    BY <2>0
  <2>3. OwnMemory'
    BY <2>1, <2>2 DEF OwnMemory
  <2>4. ASSUME NEW g \in File, scans'[g] # None
        PROVE  {y.name : y \in OfMemory(scans[g].mem)'} = Defs[scans'[g].hash]
    <3>1. CASE g = f
      <4>1. OfMemory(scans[g].mem)' = OfMemory(m)'
        BY <2>1, <3>1 DEF OfMemory
      <4> QED BY <2>1, <3>1, <4>1
    <3>2. CASE g # f
      <4>1. scans'[g] = scans[g] /\ OfMemory(scans[g].mem)' = OfMemory(scans[g].mem)
        BY <2>1, <2>4, <3>2
      <4> QED BY <2>4, <4>1 DEF SymbolsMatchScan
    <3> QED BY <3>1, <3>2
  <2>5. SymbolsMatchScan'
    BY <2>4 DEF SymbolsMatchScan, OfMemory
  <2> QED BY <2>3, <2>5
<1> QED BY <1>1, <1>2, OnlyWrite

\* A registered file's symbols are those of the text whose hash is registered, so
\* that a rescan may skip a file whose hash has not changed.
THEOREM SymbolsMatch == Spec => []SymbolsMatchScan
<1> DEFINE I == Typed /\ OwnMemory /\ SymbolsMatchScan
<1>1. Init => I
  BY InitInv DEF Inv
<1>2. I /\ [Next]_vars => I'
  BY NextTyped, NextSymbols
<1>3. I => SymbolsMatchScan
  OBVIOUS
<1> QED BY <1>1, <1>2, <1>3, PTL DEF Spec

-----------------------------------------------------------------------------
(* References *)

\* A scan that still has to write a row has to write it after a step that leaves
\* its sink, its snapshots, its definitions and the row's source alone.
LEMMA WillStays ==
    ASSUME NEW t \in Scanner, NEW m, NEW x, NEW q, Will(t, m, x, q),
           pc'[t] \in {"files", "reading", "defining", "resolving"},
           [mem |-> m, text |-> x] \in run[t].sink => [mem |-> m, text |-> x] \in run'[t].sink,
           orphans[t] \subseteq orphans'[t],
           Knows(t, m) => Knows(t, m)',
           \A y \in symbols : y.mem = m => y \in symbols'
    PROVE  Will(t, m, x, q)'
<1>1. CASE [mem |-> m, text |-> x] \in run[t].sink /\ Knows(t, m)
  BY <1>1 DEF Will
<1>2. CASE \E o \in orphans[t] : /\ o.src \in symbols
                                 /\ o.src.mem = m /\ o.src.name = q[1] /\ o.name = q[2]
  BY <1>2 DEF Will
<1> QED BY <1>1, <1>2 DEF Will

\* Rows are only added to.
LEMMA HasStays ==
    ASSUME NEW m, NEW q, Has(m, q),
           \A r \in relations : \E z \in relations' : z.src = r.src /\ z.name = r.name
    PROVE  Has(m, q)'
BY DEF Has

\* Steps that write no rows and end no scan that has rows to write.
LEMMA FrameKept ==
    ASSUME Inv, UNCHANGED <<scans, symbols, relations, owed>>,
           \A t \in Scanner : pc[t] \in {"files", "reading", "defining", "resolving"} =>
              /\ pc'[t] \in {"files", "reading", "defining", "resolving"}
              /\ run'[t].sink = run[t].sink /\ orphans'[t] = orphans[t]
              /\ \/ pc'[t] \in {"files", "reading"}
                 \/ pc[t] \notin {"files", "reading"} /\ defs'[t].symbols = defs[t].symbols
                 \/ defs'[t].symbols = symbols
    PROVE  ReferencesKept'
<1> SUFFICES ASSUME NEW f \in File, scans[f] # None, NEW m, m = scans[f].mem,
                    NEW x, x = scans[f].hash, m \notin owed, NEW q \in Refs[x]
             PROVE  Has(m, q)' \/ \E t \in Scanner : Will(t, m, x, q)'
  BY DEF ReferencesKept, Has, Will
<1>1. Has(m, q) \/ \E t \in Scanner : Will(t, m, x, q)
  BY DEF Inv, ReferencesKept
<1>2. CASE Has(m, q)
  BY <1>2 DEF Has
<1>3. ASSUME NEW t \in Scanner, Will(t, m, x, q) PROVE Will(t, m, x, q)'
  <2>1. pc[t] \in {"files", "reading", "defining", "resolving"}
    BY <1>3 DEF Will
  <2>2. ASSUME Knows(t, m) PROVE Knows(t, m)'
    <3>1. OfMemory(m)' = OfMemory(m) /\ OfMemory(m) \subseteq symbols
      BY DEF OfMemory
    <3> QED BY <2>1, <2>2, <3>1 DEF Knows
  <2> QED BY <1>3, <2>1, <2>2, WillStays
<1> QED BY <1>1, <1>2, <1>3

\* What a scanner that dies had in hand is owed.
LEMMA CrashKept ==
    ASSUME Inv, NEW s \in Scanner, Crash(s)
    PROVE  ReferencesKept'
<1>1. /\ UNCHANGED <<scans, symbols, relations>> /\ owed' = owed \cup Debts(s)
      /\ \A t \in Scanner \ {s} : /\ pc'[t] = pc[t] /\ run'[t] = run[t]
                                  /\ orphans'[t] = orphans[t] /\ defs'[t] = defs[t]
  BY DEF Crash, rows, Inv, Typed, TypeOK
<1> SUFFICES ASSUME NEW f \in File, scans[f] # None, NEW m, m = scans[f].mem,
                    NEW x, x = scans[f].hash, m \notin owed', NEW q \in Refs[x]
             PROVE  Has(m, q)' \/ \E t \in Scanner : Will(t, m, x, q)'
  BY <1>1 DEF ReferencesKept, Has, Will
<1>2. Has(m, q) \/ \E t \in Scanner : Will(t, m, x, q)
  BY <1>1 DEF Inv, ReferencesKept
<1>3. CASE Has(m, q)
  BY <1>1, <1>3 DEF Has
<1>4. ASSUME NEW t \in Scanner, Will(t, m, x, q) PROVE Will(t, m, x, q)'
  <2>1. t # s
    BY <1>1, <1>4 DEF Will, Debts
  <2>2. Knows(t, m) => Knows(t, m)'
    BY <1>1, <2>1 DEF Knows, OfMemory
  <2>3. pc'[t] \in {"files", "reading", "defining", "resolving"}
    BY <1>1, <1>4, <2>1 DEF Will
  <2> QED BY <1>1, <1>4, <2>1, <2>2, <2>3, WillStays
<1> QED BY <1>2, <1>3, <1>4

\* A rescan has the rescanned text in its sink, and took a snapshot of every row
\* of another file that went with the symbols.
LEMMA WriteKept ==
    ASSUME Inv, NEW s \in Scanner, Write(s)
    PROVE  ReferencesKept'
<1>0. PICK f, x, m : f = run[s].file /\ x = run[s].text /\ m = <<f, disk[f]>>
  OBVIOUS
<1>1. /\ f \in File /\ scans'[f] = [hash |-> x, mem |-> m]
      /\ \A g \in File \ {f} : /\ scans'[g] = scans[g]
                               /\ scans[g] # None =>
                                    /\ scans[g].mem # m
                                    /\ OfMemory(scans[g].mem)' = OfMemory(scans[g].mem)
  <2>1. Rescanned(f, x, m)
    BY <1>0, RescanSymbols DEF Inv
  <2> QED BY <2>1 DEF Rescanned
<1>2. /\ owed' = owed /\ defs' = defs /\ Rescan(s, f, x, m)
      /\ GoOnWith(s, f, {y \in run[s].sink : y.mem # m} \cup {[mem |-> m, text |-> x]})
  BY <1>0 DEF Write
<1>3. /\ pc'[s] = "files"
      /\ run'[s].sink = {y \in run[s].sink : y.mem # m} \cup {[mem |-> m, text |-> x]}
      /\ \A t \in Scanner \ {s} : pc'[t] = pc[t] /\ run'[t] = run[t]
  BY <1>2 DEF GoOnWith, Inv, Typed, TypeOK
<1>4. /\ orphans'[s] = orphans[s] \cup
            {[src |-> r.src, name |-> r.name] : r \in {r \in relations : r.tgt \in OfMemory(m)}}
      /\ \A t \in Scanner \ {s} : orphans'[t] = orphans[t]
  BY <1>2 DEF Rescan, Inv, Typed, TypeOK
<1>5. \A y \in symbols : y.mem # m => y \in symbols'
  BY <1>2 DEF Rescan, OfMemory
<1>6. ASSUME NEW q
      PROVE  Will(s, m, x, q)'
  BY <1>3 DEF Will, Knows
<1>7. ASSUME NEW g \in File \ {f}, scans[g] # None, NEW n, n = scans[g].mem,
             NEW z, z = scans[g].hash, n \notin owed, NEW q \in Refs[z]
      PROVE  Has(n, q)' \/ \E t \in Scanner : Will(t, n, z, q)'
  <2>1. n # m
    BY <1>1, <1>7
  <2>2. Has(n, q) \/ \E t \in Scanner : Will(t, n, z, q)
    BY <1>7 DEF Inv, ReferencesKept
  <2>3. ASSUME NEW t \in Scanner, Will(t, n, z, q)
        PROVE  Will(t, n, z, q)'
    <3>1. /\ pc'[t] \in {"files", "reading", "defining", "resolving"}
          /\ pc'[t] = pc[t] \/ pc'[t] = "files"
      BY <1>3, <2>3 DEF Will
    <3>2. [mem |-> n, text |-> z] \in run[t].sink => [mem |-> n, text |-> z] \in run'[t].sink
      BY <1>3, <2>1
    <3>3. orphans[t] \subseteq orphans'[t]
      BY <1>4
    <3>4. ASSUME Knows(t, n) PROVE Knows(t, n)'
      <4>1. OfMemory(n)' = OfMemory(n)
        <5>1. OfMemory(scans[g].mem)' = OfMemory(scans[g].mem) /\ scans'[g] = scans[g]
          BY <1>1, <1>7
        <5> QED BY <1>7, <5>1 DEF OfMemory
      <4>2. defs'[t] = defs[t]
        BY <1>2
      <4>3. CASE pc'[t] = "files"
        BY <4>3 DEF Knows
      <4>4. CASE pc'[t] = pc[t]
        BY <3>4, <4>1, <4>2, <4>4 DEF Knows
      <4> QED BY <3>1, <4>3, <4>4
    <3> QED BY <1>5, <2>1, <2>3, <3>1, <3>2, <3>3, <3>4, WillStays
  <2>4. CASE Has(n, q)
    <3>1. PICK r \in relations : r.src.mem = n /\ r.src.name = q[1] /\ r.name = q[2]
      BY <2>4 DEF Has
    <3>2. r.src \in symbols /\ r.src \notin OfMemory(m) /\ r.src \in symbols'
      BY <1>5, <2>1, <3>1 DEF Inv, Typed, TypeOK, OfMemory
    <3>3. CASE r.tgt \in OfMemory(m)
      <4>1. [src |-> r.src, name |-> r.name] \in orphans'[s]
        BY <1>4, <3>3
      <4> QED BY <1>3, <3>1, <3>2, <4>1 DEF Will
    <3>4. CASE r.tgt \notin OfMemory(m)
      <4>1. r \in relations'
        BY <1>2, <3>2, <3>4 DEF Rescan
      <4> QED BY <3>1, <4>1 DEF Has
    <3> QED BY <3>3, <3>4
  <2> QED BY <2>2, <2>3, <2>4
<1>8. ASSUME NEW g \in File, NEW n, NEW z, scans'[g] # None, n = scans'[g].mem,
             z = scans'[g].hash, n \notin owed', NEW q \in Refs[z]
      PROVE  Has(n, q)' \/ \E t \in Scanner : Will(t, n, z, q)'
  <2>1. CASE g = f
    BY <1>1, <1>6, <1>8, <2>1
  <2>2. CASE g # f
    <3>1. scans'[g] = scans[g] /\ g \in File \ {f}
      BY <1>1, <2>2
    <3> QED BY <1>2, <1>7, <1>8, <3>1
  <2> QED BY <2>1, <2>2
<1> QED BY <1>8 DEF ReferencesKept, Has, Will

\* A text in a scan's sink, if it is the registered one and its symbols are among the
\* definitions, has a row extracted for every reference.
LEMMA SinkHas ==
    ASSUME Inv, NEW s \in Scanner, NEW f \in File, scans[f] # None, NEW m, m = scans[f].mem,
           NEW x, x = scans[f].hash, [mem |-> m, text |-> x] \in run[s].sink,
           OfMemory(m) \subseteq defs[s].symbols, NEW q \in Refs[x]
    PROVE  \E r \in Extracted(s) :
              r.src \in symbols /\ r.src.mem = m /\ r.src.name = q[1] /\ r.name = q[2]
<1>1. x \in Text
  BY DEF Inv, Typed, TypeOK
<1>2. {y.name : y \in OfMemory(m)} = Defs[x]
  BY DEF Inv, SymbolsMatchScan
<1>3. PICK r \in RowsFor(defs[s], m, x) :
         r.src \in symbols /\ r.src.mem = m /\ r.src.name = q[1] /\ r.name = q[2]
  <2>1. PICK D : D = defs[s]
    OBVIOUS
  <2>2. \E r \in RowsFor(D, m, x) :
           r.src \in symbols /\ r.src.mem = m /\ r.src.name = q[1] /\ r.name = q[2]
    BY <1>1, <1>2, <2>1, RowsForHave
  <2> QED BY <2>1, <2>2
<1> DEFINE e == [mem |-> m, text |-> x]
<1>4. e.mem = m /\ e.text = x /\ e \in run[s].sink
  OBVIOUS
<1> HIDE DEF e
<1>5. r \in Extracted(s)
  BY <1>3, <1>4 DEF Extracted
<1> QED BY <1>3, <1>5

\* A settled memory was registered with the text in the sink, and is known.
LEMMA SettledInSink ==
    ASSUME Inv, NEW s \in Scanner, NEW f \in File, scans[f] # None, NEW m, m = scans[f].mem,
           NEW x, x = scans[f].hash, m \in Settled(s)
    PROVE  [mem |-> m, text |-> x] \in run[s].sink /\ OfMemory(m) \subseteq defs[s].symbols
<1>1. PICK y \in run[s].sink, g \in File :
         /\ y.mem = m /\ OfMemory(m) \subseteq defs[s].symbols
         /\ scans[g] = [hash |-> y.text, mem |-> y.mem]
  BY DEF Settled
<1>2. scans[g] # None
  <2>1. [hash |-> y.text, mem |-> y.mem] \in [hash : Text, mem : FileMemory]
    BY DEF Inv, Typed, TypeOK, Runs
  <2> QED BY <1>1, <2>1, NullIsNew
<1>3. scans[g].mem = m /\ scans[g].hash = y.text
  BY <1>1
<1>4. g = f
  BY <1>2, <1>3 DEF Inv, OwnMemory
<1>5. y \in [mem : FileMemory, text : Text]
  BY DEF Inv, Typed, TypeOK, Runs
<1>6. y = [mem |-> m, text |-> x]
  BY <1>1, <1>3, <1>4, <1>5
<1> QED BY <1>1, <1>6

\* What is tried to insert is there afterwards, if its source is, or owed.
LEMMA InsertedOrLost ==
    ASSUME NEW new, NEW n \in new, n.src \in symbols, n.src.mem \notin Lost(Merge(relations, new))
    PROVE  \E z \in Sound(Merge(relations, new)) : z.src = n.src /\ z.name = n.name
<1>1. PICK z \in Merge(relations, new) : z.src = n.src /\ z.name = n.name
  BY MergeHas
<1>2. PICK R : R = Merge(relations, new)
  OBVIOUS
<1>3. CASE z \notin Sound(R)
  <2>1. z \in {y \in R \ Sound(R) : y.src \in symbols}
    BY <1>1, <1>2, <1>3
  <2>2. z.src.mem \in Lost(R)
    BY <2>1 DEF Lost
  <2> QED BY <1>1, <1>2, <2>2
<1>4. CASE z \in Sound(R)
  BY <1>1, <1>2, <1>4
<1> QED BY <1>3, <1>4

\* Another scan's rows to write are not affected by a resolution.
LEMMA OthersWill ==
    ASSUME Inv, NEW s \in Scanner, Resolves(s) \/ ResolveFull(s),
           NEW t \in Scanner \ {s}, NEW m, NEW x, NEW q, Will(t, m, x, q)
    PROVE  Will(t, m, x, q)'
<1>1. /\ pc'[t] = pc[t] /\ run'[t] = run[t] /\ orphans'[t] = orphans[t] /\ symbols' = symbols
      /\ defs'[t] = defs[t]
  BY DEF Resolves, Resolve, RestoreRaises, UpdateRaises, ResolveFull, Unlock, Inv, Typed, TypeOK
<1>2. Knows(t, m) => Knows(t, m)'
  BY <1>1 DEF Knows, OfMemory
<1>3. pc'[t] \in {"files", "reading", "defining", "resolving"}
  BY <1>1 DEF Will
<1> QED BY <1>1, <1>2, <1>3, WillStays

\* Steps 2 and 3 leave a row for each of step 1, and, if they get that far, for each
\* that was restored.
LEMMA ResolvedRows ==
    ASSUME Inv, NEW s \in Scanner, Resolves(s)
    PROVE  /\ \A n \in Sound(Step1(s)) : \E z \in relations' : z.src = n.src /\ z.name = n.name
           /\ ~RestoreRaises(s) =>
                 \A n \in Restored(s) : \E z \in relations' : z.src = n.src /\ z.name = n.name
<1>1. CASE RestoreRaises(s)
  BY <1>1 DEF RestoreRaises
<1>2. CASE Resolve(s) \/ UpdateRaises(s)
  <2>1. \A n \in Step2(s) : \E z \in relations' : z.src = n.src /\ z.name = n.name
    <3>1. \A n : Retried(s, n).src = n.src /\ Retried(s, n).name = n.name
      BY DEF Retried
    <3>2. CASE Resolve(s)
      <4>1. relations' = {Retried(s, r) : r \in Step2(s)}
        BY <3>2 DEF Resolve
      <4> QED BY <3>1, <4>1
    <3>3. CASE UpdateRaises(s)
      <4>1. PICK done : relations' = (Step2(s) \ done) \cup {Retried(s, r) : r \in done}
        BY <3>3 DEF UpdateRaises
      <4> QED BY <3>1, <4>1
    <3> QED BY <1>2, <3>2, <3>3
  <2>2. \A n \in Sound(Step1(s)) \cup Restored(s) :
           \E r \in Step2(s) : r.src = n.src /\ r.name = n.name
    <3>1. \A n \in Sound(Step1(s)) \cup Restored(s) :
             \E r \in Merge(Sound(Step1(s)), Restored(s)) : r.src = n.src /\ r.name = n.name
      BY MergeHas
    <3> QED BY <3>1 DEF Step2
  <2>3. ASSUME NEW n \in Sound(Step1(s)) \cup Restored(s)
        PROVE  \E z \in relations' : z.src = n.src /\ z.name = n.name
    <3>1. PICK r \in Step2(s) : r.src = n.src /\ r.name = n.name
      BY <2>2
    <3>2. PICK z \in relations' : z.src = r.src /\ z.name = r.name
      BY <2>1
    <3> QED BY <3>1, <3>2
  <2> QED BY <2>3
<1> QED BY <1>1, <1>2 DEF Resolves

LEMMA ResolveKept ==
    ASSUME Inv, NEW s \in Scanner, Resolves(s)
    PROVE  ReferencesKept'
<1>1. /\ UNCHANGED <<scans, symbols>> /\ pc[s] = "resolving"
      /\ Owed(s) \subseteq owed'
      /\ RestoreRaises(s) => {o.src.mem : o \in {o \in orphans[s] : o.src \in symbols}} \subseteq owed'
  BY DEF Resolves, Resolve, RestoreRaises, UpdateRaises
<1> SUFFICES ASSUME NEW f \in File, scans[f] # None, NEW m, m = scans[f].mem,
                    NEW x, x = scans[f].hash, m \notin owed', NEW q \in Refs[x]
             PROVE  Has(m, q)' \/ \E t \in Scanner : Will(t, m, x, q)'
  BY <1>1 DEF ReferencesKept, Has, Will
<1>2. \A n \in Sound(Step1(s)) : \E z \in relations' : z.src = n.src /\ z.name = n.name
  BY ResolvedRows
<1>3. \A n \in relations : \E z \in relations' : z.src = n.src /\ z.name = n.name
  BY <1>2, Step1Type DEF Inv, Typed
<1>4. ASSUME [mem |-> m, text |-> x] \in run[s].sink, OfMemory(m) \subseteq defs[s].symbols
      PROVE  Has(m, q)'
  <2>1. PICK r \in Extracted(s) : r.src \in symbols /\ r.src.mem = m /\ r.src.name = q[1] /\ r.name = q[2]
    BY <1>4, SinkHas
  <2>2. m \notin Lost(Step1(s))
    BY <1>1 DEF Owed
  <2>3. PICK z \in Sound(Step1(s)) : z.src = r.src /\ z.name = r.name
    BY <2>1, <2>2, InsertedOrLost DEF Step1
  <2>4. PICK y \in relations' : y.src = z.src /\ y.name = z.name
    BY <1>2
  <2> QED BY <2>1, <2>3, <2>4 DEF Has
<1>5. CASE m \in owed
  <2>1. m \in Settled(s)
    BY <1>1, <1>5 DEF Owed
  <2> QED BY <1>4, <2>1, SettledInSink
<1>6. CASE m \notin owed
  <2>1. Has(m, q) \/ \E t \in Scanner : Will(t, m, x, q)
    BY <1>6 DEF Inv, ReferencesKept
  <2>2. CASE Has(m, q)
    BY <1>3, <2>2, HasStays
  <2>3. CASE \E t \in Scanner \ {s} : Will(t, m, x, q)
    BY <2>3, OthersWill
  <2>4. CASE Will(s, m, x, q)
    <3>1. CASE [mem |-> m, text |-> x] \in run[s].sink /\ Knows(s, m)
      BY <1>1, <1>4, <3>1 DEF Knows
    <3>2. CASE \E o \in orphans[s] : /\ o.src \in symbols
                                     /\ o.src.mem = m /\ o.src.name = q[1] /\ o.name = q[2]
      <4>1. PICK o \in orphans[s] : /\ o.src \in symbols
                                    /\ o.src.mem = m /\ o.src.name = q[1] /\ o.name = q[2]
        BY <3>2
      <4>2. ~RestoreRaises(s)
        BY <1>1, <4>1
      <4> DEFINE n == [src |-> o.src, name |-> o.name, tgt |-> None]
      <4>3. n \in Restored(s) /\ n.src = o.src /\ n.name = o.name
        BY <4>1 DEF Restored
      <4> HIDE DEF n
      <4>4. PICK r \in relations' : r.src = n.src /\ r.name = n.name
        BY <4>2, <4>3, ResolvedRows
      <4> QED BY <4>1, <4>3, <4>4 DEF Has
    <3> QED BY <2>4, <3>1, <3>2 DEF Will
  <2> QED BY <2>1, <2>2, <2>3, <2>4
<1> QED BY <1>5, <1>6

LEMMA ResolveFullKept ==
    ASSUME Inv, NEW s \in Scanner, ResolveFull(s)
    PROVE  ReferencesKept'
<1> DEFINE present == {m \in defs[s].registered : disk[m[1]] # Absent}
           same == {m \in present : /\ OfMemory(m) \subseteq defs[s].symbols
                                    /\ scans[m[1]] = [hash |-> disk[m[1]], mem |-> m]}
           new == UNION {RowsFor(defs[s], m, disk[m[1]]) : m \in present}
<1>1. /\ UNCHANGED <<scans, symbols>>
      /\ owed' = ((owed \cup Debts(s)) \ same) \cup Lost(Merge(relations, new))
      /\ relations' = Sound(Merge(relations, new))
  BY DEF ResolveFull
<1> SUFFICES ASSUME NEW f \in File, scans[f] # None, NEW m, m = scans[f].mem,
                    NEW x, x = scans[f].hash, m \notin owed', NEW q \in Refs[x]
             PROVE  Has(m, q)' \/ \E t \in Scanner : Will(t, m, x, q)'
  <2> HIDE DEF same, new
  <2> QED BY <1>1 DEF ReferencesKept, Has, Will
<1>2. CASE m \in same
  <2>1. /\ m \in present /\ m[1] = f /\ disk[f] = x
        /\ OfMemory(m) \subseteq defs[s].symbols
    <3>1. m[1] = f
      BY DEF Inv, OwnMemory
    <3> QED BY <1>2, <3>1
  <2>2. x \in Text /\ {y.name : y \in OfMemory(m)} = Defs[x]
    BY DEF Inv, Typed, TypeOK, SymbolsMatchScan
  <2>3. PICK r \in RowsFor(defs[s], m, x) :
           r.src \in symbols /\ r.src.mem = m /\ r.src.name = q[1] /\ r.name = q[2]
    BY <2>1, <2>2, RowsForHave
  <2>4. r \in new
    BY <2>1, <2>3
  <2> HIDE DEF same, new
  <2>5. PICK z \in relations' : z.src = r.src /\ z.name = r.name
    BY <1>1, <2>3, <2>4, InsertedOrLost
  <2> QED BY <2>3, <2>5 DEF Has
<1>3. CASE m \notin same
  <2> HIDE DEF same
  <2>1. m \notin owed /\ m \notin Debts(s)
    BY <1>1, <1>3
  <2>2. Has(m, q) \/ \E t \in Scanner : Will(t, m, x, q)
    BY <2>1 DEF Inv, ReferencesKept
  <2>3. CASE Has(m, q)
    <3>1. relations \subseteq relations'
      <4>1. \A r \in relations : r.src \in symbols /\ r.tgt \in symbols \cup {None}
        BY DEF Inv, Typed, TypeOK
      <4> HIDE DEF new
      <4> QED BY <1>1, <4>1 DEF Merge, Sound
    <3> QED BY <2>3, <3>1, HasStays
  <2>4. ~Will(s, m, x, q)
    BY <2>1 DEF Will, Debts
  <2> QED BY <2>2, <2>3, <2>4, OthersWill
<1> QED BY <1>2, <1>3

LEMMA NextReferences == Inv /\ [Next]_vars => ReferencesKept'
<1> SUFFICES ASSUME Inv, [Next]_vars PROVE ReferencesKept'
  OBVIOUS
<1>1. CASE (\E f \in File, x \in Text \cup {Absent} : Edit(f, x)) \/ Tick \/ UNCHANGED vars
  BY <1>1, FrameKept DEF Edit, Tick, vars, rows
<1>2. CASE \E s \in Scanner, force, full \in BOOLEAN : Start(s, force, full)
  BY <1>2, FrameKept DEF Start, rows, Inv, Typed, TypeOK
<1>3. CASE \E s \in Scanner : Release(s)
  BY <1>3, FrameKept DEF Release, Unlock, rows, Inv, Typed, TypeOK
<1>4. CASE \E s \in Scanner : (\E f \in File : FileStep(s, f)) \/ FileFails(s)
  <2>1. PICK s \in Scanner : (\E f \in File : FileStep(s, f)) \/ FileFails(s)
    BY <1>4
  <2>2. /\ UNCHANGED <<scans, symbols, relations, owed, orphans, defs>>
        /\ pc'[s] \in {"files", "reading"} /\ run'[s].sink = run[s].sink
        /\ \A t \in Scanner \ {s} : pc'[t] = pc[t] /\ run'[t] = run[t]
    BY <2>1
    DEF FileStep, Unchanged, Read, FileVanished, FileFails, GoOn, GoOnWith, rows, Inv, Typed, TypeOK
  <2> QED BY <2>2, FrameKept
<1>5. CASE \E s \in Scanner : Crash(s)
  BY <1>5, CrashKept
<1>6. CASE \E s \in Scanner : Write(s)
  BY <1>6, WriteKept
<1>7. CASE \E s \in Scanner : Resolves(s)
  BY <1>7, ResolveKept
<1>8. CASE \E s \in Scanner : ResolveFull(s)
  BY <1>8, ResolveFullKept
<1>9. CASE \E s \in Scanner : ReadSymbols(s) \/ ReadScans(s)
  <2>1. PICK s \in Scanner : ReadSymbols(s) \/ ReadScans(s)
    BY <1>9
  <2>2. /\ UNCHANGED <<scans, symbols, relations, owed, orphans, run>>
        /\ \A t \in Scanner \ {s} : pc'[t] = pc[t] /\ defs'[t] = defs[t]
        /\ pc'[s] \in {"defining", "resolving"}
        /\ \/ defs'[s].symbols = symbols
           \/ pc[s] = "defining" /\ defs'[s].symbols = defs[s].symbols
    BY <2>1 DEF ReadSymbols, ReadScans, rows, Inv, Typed, TypeOK
  <2> QED BY <2>2, FrameKept
<1> QED
  BY <1>1, <1>2, <1>3, <1>4, <1>5, <1>6, <1>7, <1>8, <1>9 DEF Next, ScanStep, Resolves

\* With no scan running, a registered file has a row for every reference of its
\* text, whatever was rescanned under it, except for what a scan that died or raised
\* had in hand, and for what one could not insert because another had deleted its
\* target since the definitions were read.
THEOREM ReferencesStay == Spec => []ReferencesHaveRows
<1>1. Init => Inv
  BY InitInv
<1>2. Inv /\ [Next]_vars => Inv'
  BY NextTyped, NextSymbols, NextReferences DEF Inv
<1>3. Inv => ReferencesHaveRows
  <2> SUFFICES ASSUME Inv, Quiet, NEW f \in File, scans[f] # None, scans[f].mem \notin owed,
                      NEW q \in Refs[scans[f].hash]
               PROVE  \E r \in relations : r.src.mem = scans[f].mem /\ <<r.src.name, r.name>> = q
    BY DEF ReferencesHaveRows
  <2>1. Has(scans[f].mem, q)
    BY DEF Inv, ReferencesKept, Quiet, Active, Will
  <2>2. q = <<q[1], q[2]>>
    BY ReferencesHaveSources DEF Inv, Typed, TypeOK
  <2> QED BY <2>1, <2>2 DEF Has
<1> QED BY <1>1, <1>2, <1>3, PTL DEF Spec

=============================================================================
