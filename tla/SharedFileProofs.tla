-------------------------- MODULE SharedFileProofs --------------------------
(***************************************************************************)
(* Proofs about processes that meet in a file and are not serialised: the  *)
(* token file of a hub (HubOwnership), for any number of processes and     *)
(* every value of the time bounds, and the database whose schema each of   *)
(* its openers brings up to date (Migrations), for any number of openers   *)
(* and files.                                                              *)
(***************************************************************************)
EXTENDS HubOwnership, Migrations, FiniteSetTheorems, TLAPS

LEMMA InitTypeOK == Init => TypeOK
<1> SUFFICES ASSUME Init PROVE TypeOK
  OBVIOUS
<1>1. 0 \in 0..MaxAge /\ 0 \in 0..MaxOp /\ 0 \in 0..MaxTries /\ 0 < MaxTries
      /\ Ttl + 1 \in 0..Ttl + 1
  BY BoundsAreNat DEF MaxAge
<1> QED BY <1>1 DEF Init, TypeOK, Pc, Looping

\* What check() leaves in the cache is an age under the threshold, or none.
LEMMA CheckedIsAge ==
    ASSUME TypeOK, NEW p \in Proc PROVE Checked(p) \in 0..Ttl + 1
<1>1. Fresh => age \in 0..Ttl + 1
  BY BoundsAreNat DEF Fresh, TypeOK, MaxAge
<1>2. cached[p] \in 0..Ttl + 1 /\ Ttl + 1 \in 0..Ttl + 1
  BY BoundsAreNat DEF TypeOK
<1> QED BY <1>1, <1>2 DEF Checked

LEMMA OlderIsCapped ==
    ASSUME NEW cap \in Nat, NEW a \in 0..cap PROVE Older(a, cap) \in 0..cap
BY DEF Older

LEMMA NextTypeOK == TypeOK /\ [Next]_vars => TypeOK'
<1> SUFFICES ASSUME TypeOK, [Next]_vars PROVE TypeOK'
  OBVIOUS
<1> USE BoundsAreNat
<1>0. ASSUME NEW p \in Proc, Begin(p) PROVE TypeOK'
  <2>1. 0 \in 0..MaxOp /\ 0 \in 0..MaxTries /\ 0 < MaxTries
    OBVIOUS
  <2> QED BY <1>0, <2>1 DEF Begin, Goto, file, TypeOK, Pc, Looping
<1>1. ASSUME NEW p \in Proc,
             \/ CreateExists(p) \/ Inspect(p) \/ Verify(p)
             \/ Import(p) \/ Crash(p)
      PROVE  TypeOK'
  BY <1>1 DEF CreateExists, Inspect, Verify, Import, Crash, Goto, file,
     TypeOK, Pc, Looping
<1>2. ASSUME NEW p \in Proc, Create(p) \/ Release(p) PROVE TypeOK'
  <2>1. 0 \in 0..MaxAge /\ 0 \in 0..MaxOp
    BY DEF MaxAge
  <2>2. owner' \in Proc \cup {NoProc} /\ filled' \in BOOLEAN /\ age' \in 0..MaxAge
    BY <1>2, <2>1 DEF Create, Release
  <2>3. clock' \in [Proc -> 0..MaxOp]
    BY <1>2, <2>1 DEF Create, Release, TypeOK
  <2> QED BY <1>2, <2>2, <2>3 DEF Create, Release, Goto, TypeOK, Pc, Looping
<1>3. ASSUME NEW p \in Proc, Fill(p) \/ Replace(p) PROVE TypeOK'
  <2>1. clock[p] \in 0..MaxAge
    BY DEF TypeOK, MaxAge
  <2> QED BY <1>3, <2>1 DEF Fill, Replace, Goto, file, TypeOK, Pc, Looping
<1>4. ASSUME NEW p \in Proc, Exists(p) PROVE TypeOK'
  <2>1. tries[p] \in 0..MaxTries /\ tries[p] < MaxTries
    BY <1>4 DEF Exists, TypeOK, Looping
  <2>2. tries[p] + 1 \in 0..MaxTries
    BY <2>1
  <2> QED BY <1>4, <2>2 DEF Exists, Goto, file, TypeOK, Pc, Looping
<1>5. ASSUME NEW p \in Proc, Refuse(p) \/ PlainCall(p) \/ RoutedStore(p)
      PROVE  TypeOK'
  BY <1>5, CheckedIsAge DEF Refuse, PlainCall, RoutedStore, Goto, file, TypeOK, Pc,
     Looping
<1>6. CASE OperatorRemoves
  <2>1. 0 \in 0..MaxAge
    BY DEF MaxAge
  <2> QED BY <1>6, <2>1 DEF OperatorRemoves, TypeOK
<1>7. CASE Tick
  <2>1. age' \in 0..MaxAge
    BY <1>7, OlderIsCapped DEF Tick, TypeOK, MaxAge
  <2>2. clock' \in [Proc -> 0..MaxOp]
    BY <1>7 DEF Tick, TypeOK
  <2>3. cached' \in [Proc -> 0..Ttl + 1]
    BY <1>7, OlderIsCapped DEF Tick, TypeOK
  <2> QED BY <1>7, <2>1, <2>2, <2>3 DEF Tick, TypeOK, Looping
<1>8. CASE UNCHANGED vars
  BY <1>8 DEF vars, file, TypeOK
<1> QED
  BY <1>0, <1>1, <1>2, <1>3, <1>4, <1>5, <1>6, <1>7, <1>8 DEF Next, Step

\* The type invariant of the token file holds in every reachable state, with the
\* bound on the passes through acquire's loop.
THEOREM TypeCorrect == Spec => []TypeOK
BY InitTypeOK, NextTypeOK, PTL DEF Spec

-----------------------------------------------------------------------------
(* One token, unless a reclaim ran over a live claim *)

\* Whoever counts on a claim has it on file.
ClaimsAreOnFile == ~overrun => \A p \in Proc : Claims(p) => owner = p

LEMMA InitClaims == Init => ClaimsAreOnFile
BY DEF Init, ClaimsAreOnFile, Claims

LEMMA NextClaims ==
    ASSUME TypeOK, ClaimsAreOnFile, [Next]_vars PROVE ClaimsAreOnFile'
<1> SUFFICES ASSUME ~overrun' PROVE \A p \in Proc : Claims(p)' => owner' = p
  BY DEF ClaimsAreOnFile
<1>a. ~overrun
  BY DEF Next, Step, Begin, Create, CreateExists, Fill, Inspect, Exists, Replace,
     Verify, Refuse, PlainCall, RoutedStore, Import, Release, Crash,
     OperatorRemoves, Tick, vars
<1>b. \A p \in Proc : Claims(p) => owner = p
  BY <1>a DEF ClaimsAreOnFile
<1>1. ASSUME NEW p \in Proc,
             \/ Begin(p) \/ CreateExists(p) \/ Inspect(p) \/ Exists(p)
             \/ Refuse(p) \/ PlainCall(p) \/ RoutedStore(p) \/ Import(p)
             \/ Crash(p)
      PROVE  \A q \in Proc : Claims(q)' => owner' = q
  <2>1. owner' = owner
    BY <1>1 DEF Begin, CreateExists, Inspect, Exists, Refuse, PlainCall,
       RoutedStore, Import, Crash, file
  <2>2. \A q \in Proc : Claims(q)' => Claims(q)
    BY <1>1 DEF Begin, CreateExists, Inspect, Exists, Refuse, PlainCall,
       RoutedStore, Import, Crash, Goto, Claims, TypeOK
  <2> QED BY <1>b, <2>1, <2>2
<1>2. ASSUME NEW p \in Proc, Create(p)
      PROVE  \A q \in Proc : Claims(q)' => owner' = q
  <2>1. ASSUME NEW q \in Proc PROVE ~Claims(q)
    BY <1>2, <1>b, NoProcIsNone DEF Create
  <2> QED BY <1>2, <2>1 DEF Create, Goto, Claims, TypeOK
<1>3. ASSUME NEW p \in Proc, Fill(p)
      PROVE  \A q \in Proc : Claims(q)' => owner' = q
  <2>1. owner' = owner
    BY <1>3 DEF Fill, file
  <2>2. \A q \in Proc : Claims(q)' => Claims(q)
    BY <1>3 DEF Fill, Goto, Claims, TypeOK
  <2> QED BY <1>b, <2>1, <2>2
<1>4. ASSUME NEW p \in Proc, Replace(p)
      PROVE  \A q \in Proc : Claims(q)' => owner' = q
  <2>1. ASSUME NEW q \in Proc PROVE ~Claims(q)
    BY <1>4, <1>b DEF Replace
  <2> QED BY <1>4, <2>1 DEF Replace, Goto, Claims, TypeOK
<1>5. ASSUME NEW p \in Proc, Verify(p)
      PROVE  \A q \in Proc : Claims(q)' => owner' = q
  <2>1. owner' = owner
    BY <1>5 DEF Verify, file
  <2>2. \A q \in Proc : Claims(q)' => Claims(q)
    BY <1>5 DEF Verify, Goto, Claims, TypeOK
  <2> QED BY <1>b, <2>1, <2>2
<1>6. ASSUME NEW p \in Proc, Release(p)
      PROVE  \A q \in Proc : Claims(q)' => owner' = q
  <2>1. Claims(p) /\ owner = p
    BY <1>6, <1>b DEF Release, Claims
  <2>2. \A q \in Proc : ~Claims(q)'
    BY <1>6, <1>b, <2>1 DEF Release, Goto, Claims, TypeOK
  <2> QED BY <2>2
<1>7. CASE OperatorRemoves
  <2>1. PICK q \in Proc : pc[q] = "dead" /\ owner = q
    BY <1>7 DEF OperatorRemoves
  <2>2. \A p \in Proc : ~Claims(p)
    BY <1>b, <2>1 DEF Claims
  <2> QED BY <1>7, <2>2 DEF OperatorRemoves, Claims
<1>8. CASE Tick \/ UNCHANGED vars
  BY <1>8, <1>b DEF Tick, vars, file, Claims
<1> QED
  BY <1>1, <1>2, <1>3, <1>4, <1>5, <1>6, <1>7, <1>8 DEF Next, Step

\* Two processes hold the token only after a reclaim replaced the claim of a
\* process still at work.
THEOREM HolderIsUnique == Spec => []OneHolderUnlessOverrun
<1>1. ClaimsAreOnFile => OneHolderUnlessOverrun
  <2> SUFFICES ASSUME ClaimsAreOnFile, ~overrun PROVE Cardinality(Holders) <= 1
    BY DEF OneHolderUnlessOverrun, OneHolder
  <2>1. \A p \in Holders : p = owner
    BY DEF ClaimsAreOnFile, Claims, Holders
  <2>2. Holders = {} \/ Holders = {owner}
    BY <2>1
  <2>3. Cardinality({}) = 0 /\ Cardinality({owner}) = 1
    BY FS_EmptySet, FS_Singleton
  <2> QED BY <2>2, <2>3
<1>2. TypeOK /\ ClaimsAreOnFile /\ [Next]_vars => ClaimsAreOnFile'
  BY NextClaims
<1> QED BY <1>1, <1>2, InitClaims, TypeCorrect, PTL DEF Spec

\* Until then a claim on file is safe from everybody else: release() needs no
\* look at the pid it unlinks.
THEOREM ClaimStands == Spec => LiveClaimStands
<1>1. TypeOK /\ ClaimsAreOnFile /\ [Next]_vars
      => [\A p \in Proc :
             Claims(p) /\ owner = p /\ ~overrun' =>
                 owner' = p \/ (pc[p] = "leave" /\ pc'[p] = "idle")]_vars
  <2> SUFFICES ASSUME TypeOK, ClaimsAreOnFile, Next, NEW p \in Proc,
                      Claims(p), owner = p, ~overrun', owner' # p
               PROVE  pc[p] = "leave" /\ pc'[p] = "idle"
    BY DEF vars
  <2>1. ASSUME NEW q \in Proc, Create(q) PROVE FALSE
    BY <2>1, NoProcIsNone DEF Create
  <2>2. ASSUME NEW q \in Proc, Fill(q) PROVE FALSE
    BY <2>2 DEF Fill, file
  <2>3. ASSUME NEW q \in Proc, Replace(q) PROVE FALSE
    BY <2>3 DEF Replace
  <2>4. ASSUME NEW q \in Proc, Release(q)
        PROVE  pc[p] = "leave" /\ pc'[p] = "idle"
    <3>1. ~overrun /\ Claims(q)
      BY <2>4 DEF Release, Claims
    <3>2. q = p
      BY <3>1 DEF ClaimsAreOnFile
    <3> QED BY <2>4, <3>2 DEF Release, Goto, TypeOK
  <2>5. ASSUME OperatorRemoves PROVE FALSE
    BY <2>5 DEF OperatorRemoves, Claims
  <2> QED
    BY <2>1, <2>2, <2>3, <2>4, <2>5 DEF Next, Step, Begin, CreateExists, Inspect,
       Exists, Verify, Refuse, PlainCall, RoutedStore, Import, Crash, Tick, file
<1>2. TypeOK /\ ClaimsAreOnFile /\ [Next]_vars => ClaimsAreOnFile'
  BY NextClaims
<1> QED BY <1>1, <1>2, InitClaims, TypeCorrect, PTL DEF Spec, LiveClaimStands

-----------------------------------------------------------------------------
(* When nobody dies and nobody is slow, there is nothing to reclaim *)

\* Every claim on file is a live process's, and no older than its operation.
NothingStale ==
    /\ \A p \in Proc : pc[p] \notin {"dead", "replace", "verify"}
    /\ owner # NoProc => Claims(owner)
    /\ Readable => age <= clock[owner]
    /\ ~overrun

LEMMA NextNothingStale ==
    ASSUME MaxOp <= Ttl, MaxCrash = 0, TypeOK, NothingStale, [Next]_vars
    PROVE  NothingStale'
<1> USE BoundsAreNat
<1>1. ASSUME NEW p \in Proc PROVE ~Crash(p)
  <2>1. {q \in Proc : pc[q] = "dead"} = {}
    BY DEF NothingStale
  <2>2. Cardinality({}) = 0
    BY FS_EmptySet
  <2> QED BY <2>1, <2>2 DEF Crash
<1>2. ~OperatorRemoves
  BY DEF OperatorRemoves, NothingStale
<1>3. ASSUME NEW p \in Proc PROVE ~Stale(p)
  <2> SUFFICES ASSUME Readable PROVE ~(age > clock[p] + Ttl)
    BY DEF Stale
  <2>1. owner \in Proc
    BY DEF Readable, TypeOK
  <2>2. age \in Nat /\ clock[p] \in Nat /\ clock[owner] \in 0..MaxOp
    BY <2>1 DEF TypeOK, MaxAge
  <2> QED BY <2>2 DEF NothingStale
<1>4. ASSUME NEW p \in Proc,
             \/ Begin(p) \/ CreateExists(p) \/ Inspect(p) \/ Exists(p)
             \/ Refuse(p) \/ PlainCall(p) \/ RoutedStore(p) \/ Import(p)
      PROVE  NothingStale'
  <2>1. UNCHANGED <<file, overrun>>
    BY <1>4 DEF Begin, CreateExists, Inspect, Exists, Refuse, PlainCall,
       RoutedStore, Import
  <2>2. \A q \in Proc : pc'[q] \notin {"dead", "replace", "verify"}
    BY <1>4, <1>3 DEF Begin, CreateExists, Inspect, Exists, Refuse, PlainCall,
       RoutedStore, Import, Goto, NothingStale, TypeOK
  <2>3. \A q \in Proc : Claims(q) => Claims(q)' /\ clock'[q] = clock[q]
    BY <1>4 DEF Begin, CreateExists, Inspect, Exists, Refuse, PlainCall,
       RoutedStore, Import, Goto, Claims, TypeOK
  <2>4. owner # NoProc => owner \in Proc /\ Claims(owner)
    BY DEF NothingStale, TypeOK
  <2> QED BY <2>1, <2>2, <2>3, <2>4 DEF NothingStale, Readable, file
<1>5. ASSUME NEW p \in Proc, Create(p) PROVE NothingStale'
  BY <1>5 DEF Create, Goto, NothingStale, Readable, Claims, TypeOK
<1>6. ASSUME NEW p \in Proc, Fill(p) PROVE NothingStale'
  <2>1. pc' = [pc EXCEPT ![p] = "own"] /\ UNCHANGED <<owner, clock, overrun>>
    BY <1>6 DEF Fill, Goto, file
  <2>2. \A q \in Proc : Claims(q) => Claims(q)'
    BY <2>1 DEF Claims, TypeOK
  <2>3. \A q \in Proc : pc'[q] \notin {"dead", "replace", "verify"}
    BY <2>1 DEF NothingStale, TypeOK
  <2>4. owner # NoProc => owner \in Proc /\ Claims(owner)
    BY DEF NothingStale, TypeOK
  <2>5. Readable' => age' <= clock'[owner']
    <3>1. clock[p] <= clock[p]
      BY DEF TypeOK
    <3> QED BY <1>6, <2>1, <3>1 DEF Fill, file, Readable, NothingStale
  <2> QED BY <2>1, <2>2, <2>3, <2>4, <2>5 DEF NothingStale
<1>7. ASSUME NEW p \in Proc, Replace(p) \/ Verify(p) PROVE FALSE
  BY <1>7 DEF Replace, Verify, NothingStale
<1>8. ASSUME NEW p \in Proc, Release(p) PROVE NothingStale'
  BY <1>8 DEF Release, Goto, NothingStale, Readable, TypeOK
<1>9. CASE Tick
  <2>1. owner # NoProc => owner \in Proc /\ Claims(owner)
    BY DEF NothingStale, TypeOK
  <2>2. UNCHANGED <<owner, filled, pc, overrun>>
    BY <1>9 DEF Tick
  <2>3. ASSUME Readable PROVE age' <= clock'[owner]
    <3>1. owner \in Proc /\ Working(owner)
      BY <2>1, <2>3 DEF Readable, Claims, Working
    <3>2. clock'[owner] = clock[owner] + 1
      BY <1>9, <3>1 DEF Tick
    <3>3. age' = Older(age, MaxAge) /\ age <= clock[owner]
      BY <1>9, <2>3 DEF Tick, NothingStale
    <3>4. age \in Nat /\ clock[owner] \in Nat
      BY <3>1 DEF TypeOK, MaxAge
    <3> QED BY <3>2, <3>3, <3>4 DEF Older
  <2> QED BY <2>1, <2>2, <2>3 DEF NothingStale, Readable, Claims
<1>10. CASE UNCHANGED vars
  BY <1>10 DEF vars, file, NothingStale, Readable, Claims
<1> QED
  BY <1>1, <1>2, <1>4, <1>5, <1>6, <1>7, <1>8, <1>9, <1>10 DEF Next, Step

\* Operations that take no longer than STALE_AFTER_SECONDS, in processes that do
\* not die holding the token, exclude each other: acquire() never finds a claim
\* to reclaim, and O_EXCL does the rest.
THEOREM PunctualOneHolder ==
    ASSUME MaxOp <= Ttl, MaxCrash = 0 PROVE Spec => []OneHolder
<1>1. Init => NothingStale
  BY DEF Init, NothingStale, Readable
<1>2. TypeOK /\ NothingStale /\ [Next]_vars => NothingStale'
  BY NextNothingStale
<1>3. NothingStale => ~overrun
  BY DEF NothingStale
<1>4. NothingStale /\ OneHolderUnlessOverrun => OneHolder
  BY <1>3 DEF OneHolderUnlessOverrun
<1> QED BY <1>1, <1>2, <1>4, TypeCorrect, HolderIsUnique, PTL DEF Spec

-----------------------------------------------------------------------------
(* The openers of a database *)

LEMMA InitSchemaTypes == SchemaInit => SchemaTypeOK
BY FilesAreNumbered DEF SchemaInit, SchemaTypeOK, File, Migrating

\* The loop's bookkeeping stays well typed.
LEMMA GotoKeepsTypes ==
    ASSUME SchemaTypeOK, NEW p \in Opener, NEW n \in 1..Last + 1, GotoFile(p, n)
    PROVE  /\ opening' \in [Opener -> Migrating \cup {"closed", "ready"}]
           /\ next' \in [Opener -> 1..Last + 1]
           /\ \A q \in Opener : opening'[q] \in Migrating => next'[q] \in File
BY FilesAreNumbered DEF SchemaTypeOK, GotoFile, Migrating, File

LEMMA NextSchemaTypes ==
    SchemaTypeOK /\ [SchemaNext]_schemaVars => SchemaTypeOK'
<1> SUFFICES ASSUME SchemaTypeOK, [SchemaNext]_schemaVars PROVE SchemaTypeOK'
  OBVIOUS
<1> USE FilesAreNumbered
<1>1. ASSUME NEW p \in Opener, ReadVersion(p) PROVE SchemaTypeOK'
  <2>1. version + 1 \in 1..Last + 1
    BY DEF SchemaTypeOK
  <2>2. GotoFile(p, version + 1)
    BY <1>1 DEF ReadVersion
  <2> QED BY <1>1, <2>1, <2>2, GotoKeepsTypes DEF ReadVersion, SchemaTypeOK
<1>2. ASSUME NEW p \in Opener, PhaseA(p) PROVE SchemaTypeOK'
  BY <1>2 DEF PhaseA, SchemaTypeOK, Migrating
<1>3. ASSUME NEW p \in Opener, PhaseB(p) PROVE SchemaTypeOK'
  <2>1. next[p] \in File /\ next[p] + 1 \in 1..Last + 1 /\ next[p] \in 0..Last
    BY <1>3 DEF PhaseB, SchemaTypeOK, File, Migrating
  <2>2. GotoFile(p, next[p] + 1)
    BY <1>3 DEF PhaseB
  <2> QED BY <1>3, <2>1, <2>2, GotoKeepsTypes DEF PhaseB, SchemaTypeOK
<1>4. ASSUME NEW p \in Opener, PhaseBRaises(p) \/ Fail(p) \/ Close(p)
      PROVE  SchemaTypeOK'
  BY <1>4 DEF PhaseBRaises, Fail, Close, SchemaTypeOK, Migrating
<1>5. CASE UNCHANGED schemaVars
  BY <1>5 DEF schemaVars, SchemaTypeOK
<1> QED
  BY <1>1, <1>2, <1>3, <1>4, <1>5 DEF SchemaNext, Run

\* The runner's type invariant holds in every reachable state: an opener inside the
\* loop is at a file that exists.
THEOREM SchemaTypeCorrect == SchemaSpec => []SchemaTypeOK
BY InitSchemaTypes, NextSchemaTypes, PTL DEF SchemaSpec

-----------------------------------------------------------------------------
(* The schema is at least what user_version says *)

\* What an opener skipped or went through is there, and so are the virtual
\* tables of the file whose transaction it is about to run.
Passed ==
    /\ VersionIsCovered
    /\ \A p \in Opener :
          /\ opening[p] # "closed" => 1..(next[p] - 1) \subseteq applied \cap tables
          /\ opening[p] = "txn" => next[p] \in tables
          /\ opening[p] = "ready" => next[p] = Last + 1

LEMMA InitPassed == SchemaInit => Passed
BY DEF SchemaInit, Passed, VersionIsCovered

\* applied and tables only grow, so what was passed stays passed.
LEMMA NextPassed ==
    ASSUME SchemaTypeOK, Passed, [SchemaNext]_schemaVars PROVE Passed'
<1> USE FilesAreNumbered
<1>1. ASSUME NEW p \in Opener, ReadVersion(p) PROVE Passed'
  <2>1. next'[p] = version + 1 /\ opening'[p] \in {"virtual", "ready"}
    BY <1>1 DEF ReadVersion, GotoFile, SchemaTypeOK
  <2>2. opening'[p] = "ready" => version + 1 = Last + 1
    BY <1>1 DEF ReadVersion, GotoFile, SchemaTypeOK
  <2>3. 1..(next'[p] - 1) \subseteq applied \cap tables
    BY <2>1 DEF Passed, VersionIsCovered, SchemaTypeOK
  <2>4. \A q \in Opener \ {p} : opening'[q] = opening[q] /\ next'[q] = next[q]
    BY <1>1 DEF ReadVersion, GotoFile, SchemaTypeOK
  <2> QED BY <1>1, <2>1, <2>2, <2>3, <2>4 DEF ReadVersion, Passed, VersionIsCovered
<1>2. ASSUME NEW p \in Opener, PhaseA(p) PROVE Passed'
  <2>1. /\ opening'[p] = "txn" /\ next' = next /\ next[p] \in tables'
        /\ 1..(next[p] - 1) \subseteq applied \cap tables
        /\ tables \subseteq tables' /\ UNCHANGED <<applied, version>>
    BY <1>2 DEF PhaseA, SchemaTypeOK, Passed
  <2>2. \A q \in Opener \ {p} : opening'[q] = opening[q]
    BY <1>2 DEF PhaseA, SchemaTypeOK
  <2> QED BY <2>1, <2>2 DEF Passed, VersionIsCovered
<1>3. ASSUME NEW p \in Opener, PhaseB(p) PROVE Passed'
  <2>1. /\ next[p] \in File /\ next'[p] = next[p] + 1
        /\ opening'[p] \in {"virtual", "ready"}
        /\ version' = next[p] /\ tables' = tables
        /\ applied' = applied \cup {next[p]}
    BY <1>3 DEF PhaseB, GotoFile, SchemaTypeOK, Migrating
  <2>2. opening'[p] = "ready" => next'[p] = Last + 1
    BY <1>3, <2>1 DEF PhaseB, GotoFile, SchemaTypeOK, File
  <2>3. next[p] \in tables /\ 1..(next[p] - 1) \subseteq applied \cap tables
    BY <1>3 DEF PhaseB, Passed
  <2>4. 1..next[p] \subseteq applied' \cap tables'
    BY <2>1, <2>3 DEF File
  <2>5. 1..(next'[p] - 1) \subseteq applied' \cap tables' /\ VersionIsCovered'
    BY <2>1, <2>4 DEF File, VersionIsCovered
  <2>6. \A q \in Opener \ {p} : opening'[q] = opening[q] /\ next'[q] = next[q]
    BY <1>3 DEF PhaseB, GotoFile, SchemaTypeOK
  <2> QED BY <2>1, <2>2, <2>5, <2>6 DEF Passed
<1>4. ASSUME NEW p \in Opener, PhaseBRaises(p) \/ Fail(p) \/ Close(p) PROVE Passed'
  <2>1. /\ \A q \in Opener : opening'[q] = opening[q] \/ opening'[q] = "closed"
        /\ UNCHANGED <<version, tables, applied, next>>
    BY <1>4 DEF PhaseBRaises, Fail, Close, SchemaTypeOK
  <2> QED BY <2>1 DEF Passed, VersionIsCovered
<1>5. CASE UNCHANGED schemaVars
  BY <1>5 DEF schemaVars, Passed, VersionIsCovered
<1> QED
  BY <1>1, <1>2, <1>3, <1>4, <1>5 DEF SchemaNext, Run

\* user_version never promises a file that was not executed, and a connection
\* is never handed out on an incomplete schema, for any overlap of openers.
THEOREM SchemaIsThere == SchemaSpec => [](VersionIsCovered /\ ReadySeesAll)
<1>1. SchemaTypeOK /\ Passed => VersionIsCovered /\ ReadySeesAll
  <2> SUFFICES ASSUME SchemaTypeOK, Passed, NEW p \in Opener, opening[p] = "ready"
               PROVE  applied = File /\ tables = File
    BY DEF Passed, ReadySeesAll
  <2>1. next[p] = Last + 1 /\ 1..(next[p] - 1) \subseteq applied \cap tables
    BY DEF Passed
  <2>2. next[p] - 1 = Last
    BY <2>1, FilesAreNumbered
  <2>3. File \subseteq applied \cap tables
    BY <2>1, <2>2 DEF File
  <2> QED BY <2>3 DEF SchemaTypeOK
<1>2. SchemaTypeOK /\ Passed /\ [SchemaNext]_schemaVars => Passed'
  BY NextPassed
<1> QED BY <1>1, <1>2, InitPassed, SchemaTypeCorrect, PTL DEF SchemaSpec

\* user_version never promises a file that was not executed.
THEOREM VersionCovered == SchemaSpec => []VersionIsCovered
BY SchemaIsThere, PTL

\* Files are first executed in order, although openers work from user_versions
\* they read at different times.
THEOREM FilesInOrder == SchemaSpec => PrerequisitesFirst
<1>1. SchemaTypeOK /\ Passed /\ [SchemaNext]_schemaVars
      => [\A n \in applied' \ applied : 1..(n - 1) \subseteq applied]_schemaVars
  <2> SUFFICES ASSUME SchemaTypeOK, Passed, SchemaNext, NEW n \in applied' \ applied
               PROVE  1..(n - 1) \subseteq applied
    BY DEF schemaVars
  <2>1. PICK p \in Opener : PhaseB(p)
    BY DEF SchemaNext, Run, ReadVersion, PhaseA, PhaseBRaises,
       Fail, Close
  <2> QED BY <2>1 DEF PhaseB, Passed
<1>2. SchemaTypeOK /\ Passed /\ [SchemaNext]_schemaVars => Passed'
  BY NextPassed
<1> QED BY <1>1, <1>2, InitPassed, SchemaTypeCorrect, PTL DEF SchemaSpec, PrerequisitesFirst

-----------------------------------------------------------------------------
(* Openers that do not overlap *)

\* One opener is in the loop at most, its `current` is still true, and nothing
\* beyond user_version was ever executed.
Sequential ==
    alone =>
        /\ applied = 1..version
        /\ \A p \in Opener : opening[p] \in Migrating => next[p] = version + 1
        /\ \A p, q \in Opener :
              opening[p] \in Migrating /\ opening[q] \in Migrating => p = q

LEMMA InitSequential == SchemaInit => Sequential
BY DEF SchemaInit, Sequential, Migrating

LEMMA NextSequential ==
    ASSUME SchemaTypeOK, Sequential, [SchemaNext]_schemaVars PROVE Sequential'
<1> SUFFICES ASSUME alone' PROVE Sequential'
  BY DEF Sequential
<1>a. alone
  BY DEF SchemaNext, Run, ReadVersion, PhaseA, PhaseB,
     PhaseBRaises, Fail, Close, schemaVars
<1>1. ASSUME NEW p \in Opener, ReadVersion(p) PROVE Sequential'
  <2>1. next'[p] = version + 1 /\ UNCHANGED <<version, applied>>
    BY <1>1 DEF ReadVersion, GotoFile, SchemaTypeOK
  <2>2. \A q \in Opener \ {p} : opening'[q] \notin Migrating
    BY <1>1, <1>a DEF ReadVersion, GotoFile, SchemaTypeOK
  <2> QED BY <1>a, <2>1, <2>2 DEF Sequential
<1>2. ASSUME NEW p \in Opener, PhaseA(p) PROVE Sequential'
  <2>1. /\ \A q \in Opener : opening'[q] \in Migrating <=> opening[q] \in Migrating
        /\ UNCHANGED <<version, applied, next>>
    BY <1>2 DEF PhaseA, SchemaTypeOK, Migrating
  <2> QED BY <1>a, <2>1 DEF Sequential
<1>3. ASSUME NEW p \in Opener, PhaseB(p) PROVE Sequential'
  <2>1. /\ next[p] = version + 1 /\ version' = next[p] /\ version \in Nat
        /\ applied' = applied \cup {next[p]} /\ next'[p] = next[p] + 1
    BY <1>3, <1>a DEF PhaseB, GotoFile, SchemaTypeOK, Sequential, Migrating
  <2>2. \A q \in Opener \ {p} : opening'[q] \notin Migrating
    BY <1>3, <1>a DEF PhaseB, GotoFile, SchemaTypeOK, Sequential, Migrating
  <2>3. applied' = 1..version'
    BY <1>a, <2>1 DEF Sequential
  <2> QED BY <2>1, <2>2, <2>3 DEF Sequential
<1>4. ASSUME NEW p \in Opener, PhaseBRaises(p) \/ Fail(p) \/ Close(p)
      PROVE  Sequential'
  <2>1. /\ \A q \in Opener : opening'[q] \in Migrating => opening[q] \in Migrating
        /\ UNCHANGED <<version, applied, next>>
    BY <1>4 DEF PhaseBRaises, Fail, Close, SchemaTypeOK, Migrating
  <2> QED BY <1>a, <2>1 DEF Sequential
<1>5. CASE UNCHANGED schemaVars
  BY <1>5 DEF schemaVars, Sequential
<1> QED
  BY <1>1, <1>2, <1>3, <1>4, <1>5 DEF SchemaNext, Run

\* One opener at a time never leaves a database that cannot be opened again,
\* wherever in the sequence of files it was killed.
THEOREM AloneStaysOpenable == SchemaSpec => []AloneReopenable
<1>1. SchemaTypeOK /\ Sequential => AloneReopenable
  BY DEF SchemaTypeOK, Sequential, AloneReopenable, Reopenable
<1>2. SchemaTypeOK /\ Sequential /\ [SchemaNext]_schemaVars => Sequential'
  BY NextSequential
<1> QED BY <1>1, <1>2, InitSequential, SchemaTypeCorrect, PTL DEF SchemaSpec

\* ... and its user_version only advances.
THEOREM AloneAdvances == SchemaSpec => AloneOnlyAdvances
<1>1. SchemaTypeOK /\ Sequential /\ [SchemaNext]_schemaVars
      => [alone => version' >= version]_schemaVars
  <2> SUFFICES ASSUME SchemaTypeOK, Sequential, SchemaNext, alone PROVE version' >= version
    BY DEF schemaVars
  <2>1. version' = version \/ version' = version + 1
    BY DEF SchemaNext, Run, ReadVersion, PhaseA, PhaseB,
       PhaseBRaises, Fail, Close,
       Sequential, Migrating
  <2> QED BY <2>1 DEF SchemaTypeOK
<1>2. SchemaTypeOK /\ Sequential /\ [SchemaNext]_schemaVars => Sequential'
  BY NextSequential
<1> QED BY <1>1, <1>2, InitSequential, SchemaTypeCorrect, PTL DEF SchemaSpec,
   AloneOnlyAdvances
=============================================================================
