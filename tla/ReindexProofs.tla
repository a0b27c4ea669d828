---------------------------- MODULE ReindexProofs ----------------------------
(***************************************************************************)
(* What TLAPS proves of Reindex for any memories, chunks, embedders and    *)
(* servers, and any number of re-embeds, starts and failures: a vector is  *)
(* what its meta row says and fits its table, and an item that lost its    *)
(* vector is found again.                                                  *)
(***************************************************************************)
EXTENDS Reindex, FiniteSetTheorems, TLAPS

\* A worker has its server's embedder, and in hand only rows that are there.
WorkersEmbed ==
    \A s \in Server : /\ worker[s] # "none" => emb[s] \in Embedder
                      /\ hand[s] \subseteq Stored

\* Only rows that are there have meta rows.
MetaOfStored == \A i \in Item \ Stored : meta[i] = None

Inv == /\ TypeOK /\ WorkersEmbed /\ MetaOfStored /\ LostVectorsAreFound
       /\ backups <= reindexed

LEMMA InitInv == Init => Inv
<1> SUFFICES ASSUME Init PROVE Inv
  OBVIOUS
<1>1. TypeOK
  BY Tiers, BoundsAreNumbers DEF Init, TypeOK
<1>2. WorkersEmbed /\ MetaOfStored /\ LostVectorsAreFound /\ backups <= reindexed
  BY DEF Init, WorkersEmbed, MetaOfStored, LostVectorsAreFound, Stored, Found
<1> QED BY <1>1, <1>2 DEF Inv

-----------------------------------------------------------------------------
(* The queue *)

LEMMA CappedType == \A n \in Nat : Capped(n) \in 0..MaxTasks
BY BoundsAreNumbers DEF Capped

LEMMA EnqueuedType ==
    ASSUME TypeOK, NEW I \in SUBSET Item PROVE Enqueued(I) \in [Memory -> 0..MaxTasks]
<1> SUFFICES ASSUME NEW m \in Memory
             PROVE  Capped(todo[m] + Cardinality(ItemsOf(m, I))) \in 0..MaxTasks
  BY DEF Enqueued
<1>1. ItemsOf(m, I) \subseteq Item
  BY DEF ItemsOf
<1>2. Cardinality(ItemsOf(m, I)) \in Nat
  BY <1>1, BoundsAreNumbers, FS_Subset, FS_CardinalityType
<1>3. todo[m] \in Nat
  BY BoundsAreNumbers DEF TypeOK
<1> QED BY <1>2, <1>3, CappedType

-----------------------------------------------------------------------------
(* One step *)

\* A re-embed drops all vectors: what has a meta row of the new dimension is kept
\* in mind, and everything else is found.
LEMMA FullReembedInv ==
    ASSUME Inv, NEW e \in Embedder, NEW m \in Memory \cup {None}, NEW J \in SUBSET Stored,
           FullReembed(e, {i \in Stored : m \in {None, Parent[i]}}, J)
    PROVE  Inv'
<1>1. todo' \in [Memory -> 0..MaxTasks]
  BY EnqueuedType DEF FullReembed, Inv, Stored
<1>2. /\ UNCHANGED <<stored, meta, embedded, emb, worker, thread, starts, fails>>
      /\ vec' = [i \in Item |-> None] /\ tableDim' = corpusDim' /\ corpusDim' = Dim[e]
      /\ kept' = kept \cup {i \in Stored : meta[i] # None /\ Dim[meta[i]] = Dim[e]}
      /\ reindexed < MaxReindex /\ reindexed' = reindexed + 1 /\ backups' = backups + 1
  BY DEF FullReembed
<1>3. reindexed' \in 0..MaxReindex /\ backups' \in 0..MaxReindex /\ backups' <= reindexed'
  BY <1>2, BoundsAreNumbers DEF Inv, TypeOK
<1>4. TypeOK'
  BY <1>1, <1>2, <1>3, Tiers DEF Inv, TypeOK, Stored, thread
<1>5. LostVectorsAreFound'
  BY <1>2 DEF LostVectorsAreFound, Stored, Found
<1>6. WorkersEmbed' /\ MetaOfStored'
  BY <1>2 DEF Inv, WorkersEmbed, MetaOfStored, Stored, thread
<1> QED BY <1>3, <1>4, <1>5, <1>6 DEF Inv

LEMMA PartialInv ==
    ASSUME Inv, NEW I, NEW J \in SUBSET Stored, Partial(I, J)
    PROVE  Inv'
<1>1. todo' \in [Memory -> 0..MaxTasks]
  BY EnqueuedType DEF Partial, Inv, Stored
<1>2. /\ UNCHANGED <<corpus, emb, worker, thread, kept, starts, fails>>
      /\ reindexed < MaxReindex /\ reindexed' = reindexed + 1
  BY DEF Partial
<1> QED
  BY <1>1, <1>2, BoundsAreNumbers
  DEF Inv, TypeOK, WorkersEmbed, MetaOfStored, LostVectorsAreFound, Stored, Found, corpus, thread

LEMMA BackupDropInv == Inv /\ BackupDrop => Inv'
BY BoundsAreNumbers
DEF BackupDrop, Inv, TypeOK, WorkersEmbed, MetaOfStored, LostVectorsAreFound, Stored, Found, thread

\* What a start resolves to is an embedder.
LEMMA LaunchInv ==
    ASSUME Inv, NEW s \in Server, NEW e \in Embedder, NEW llm \in BOOLEAN, Launch(s, e, llm)
    PROVE  Inv'
<1>1. /\ UNCHANGED <<corpus, todo, thread, kept, reindexed, fails>>
      /\ emb' = [emb EXCEPT ![s] = e] /\ starts' \in 0..MaxStarts
  BY BoundsAreNumbers DEF Launch, Inv, TypeOK
<1>2. /\ worker' \in [Server -> {"none", "poll", "memory", "embed", "chunks", "embedChunks"}]
      /\ \A t \in Server \ {s} : worker'[t] = worker[t]
  BY DEF Launch, Inv, TypeOK
<1> QED
  BY <1>1, <1>2
  DEF Inv, TypeOK, WorkersEmbed, MetaOfStored, LostVectorsAreFound, Stored, Found, corpus, thread

LEMMA StartInv ==
    ASSUME Inv, NEW s \in Server, NEW llm \in BOOLEAN,
           \/ \E env \in {E \in SUBSET Embedder : Local \in E} : Start(s, env, llm)
           \/ StartFallback(s, llm)
    PROVE  Inv'
<1>1. CASE StartFallback(s, llm)
  BY <1>1, Tiers, LaunchInv DEF StartFallback
<1>2. CASE \E env \in {E \in SUBSET Embedder : Local \in E} : Start(s, env, llm)
  BY <1>2, LaunchInv DEF Start, Resolved, Fitting
<1> QED BY <1>1, <1>2

LEMMA StopInv ==
    ASSUME Inv, NEW s \in Server, Stop(s)
    PROVE  Inv'
<1>1. todo' \in [Memory -> 0..MaxTasks]
  BY CappedType, BoundsAreNumbers DEF Stop, Inv, TypeOK
<1>2. /\ emb' = [emb EXCEPT ![s] = None] /\ worker' = [worker EXCEPT ![s] = "none"]
      /\ on' = [on EXCEPT ![s] = None] /\ hand' = [hand EXCEPT ![s] = {}]
      /\ did' = [did EXCEPT ![s] = FALSE]
      /\ UNCHANGED <<corpus, kept, reindexed, starts, fails>>
  BY DEF Stop
<1> QED
  BY <1>1, <1>2
  DEF Inv, TypeOK, WorkersEmbed, MetaOfStored, LostVectorsAreFound, Stored, Found, corpus

\* store() writes the vector and its meta row together, or neither.
LEMMA StoreInv ==
    ASSUME Inv, NEW s \in Server, NEW m \in Memory, Store(s, m)
    PROVE  Inv'
<1> DEFINE e == emb[s]
<1>1. e \in Embedder /\ m \notin stored /\ stored' = stored \cup {m}
  BY DEF Store, Inv, TypeOK
<1>2. Stored \subseteq Stored' /\ m \in Stored' /\ m \notin Stored
  BY <1>1, Tiers DEF Stored, Item
<1>3. todo' \in [Memory -> 0..MaxTasks]
  BY CappedType, BoundsAreNumbers DEF Store, Inv, TypeOK
<1>4. UNCHANGED <<tableDim, corpusDim, backups, emb, worker, thread, kept, reindexed, starts, fails>>
  BY DEF Store
<1>5. \/ /\ Dim[e] = tableDim
         /\ vec' = [vec EXCEPT ![m] = e] /\ meta' = [meta EXCEPT ![m] = e]
         /\ embedded' = embedded \cup {m}
      \/ UNCHANGED <<vec, meta, embedded>>
  BY DEF Store
<1> HIDE DEF e
<1>6. TypeOK'
  <2>1. vec' \in [Item -> Embedder \cup {None}] /\ meta' \in [Item -> Embedder \cup {None}]
    BY <1>1, <1>5 DEF Inv, TypeOK
  <2>2. ASSUME NEW i \in Item, vec'[i] # None
        PROVE  i \in Stored' /\ Dim[vec'[i]] = tableDim /\ meta'[i] = vec'[i]
    BY <1>2, <1>5, <2>2 DEF Inv, TypeOK
  <2> QED BY <1>1, <1>3, <1>4, <1>5, <2>1, <2>2 DEF Inv, TypeOK, thread
<1>7. WorkersEmbed'
  BY <1>2, <1>4 DEF Inv, WorkersEmbed, thread
<1>8. MetaOfStored'
  BY <1>2, <1>5 DEF Inv, TypeOK, MetaOfStored
<1>9. LostVectorsAreFound'
  <2> SUFFICES ASSUME NEW i \in Stored' \ kept', vec'[i] = None PROVE Found(i)'
    BY DEF LostVectorsAreFound
  <2>1. i \in Item /\ vec[i] = None /\ meta'[i] = meta[i] /\ i \notin kept
    BY <1>1, <1>4, <1>5, Tiers DEF Stored, Inv, TypeOK
  <2>2. CASE i \in Stored
    BY <1>4, <2>1, <2>2 DEF Inv, LostVectorsAreFound, Found
  <2>3. CASE i \notin Stored
    BY <2>1, <2>3 DEF Inv, MetaOfStored, Found
  <2> QED BY <2>2, <2>3
<1> QED BY <1>4, <1>6, <1>7, <1>8, <1>9 DEF Inv

LEMMA WorkInv ==
    ASSUME Inv, NEW s \in Server, (\E m \in Memory : Claim(s, m)) \/ Select(s)
    PROVE  Inv'
<1>1. UNCHANGED <<corpus, emb, did, kept, reindexed, starts, fails>>
  BY DEF Claim, Select
<1>2. todo' \in [Memory -> 0..MaxTasks]
  BY BoundsAreNumbers DEF Claim, Select, Inv, TypeOK
<1>3. hand' \in [Server -> SUBSET Item] /\ \A t \in Server : hand'[t] \subseteq Stored
  BY DEF Claim, Select, ItemsOf, Item, Inv, TypeOK, WorkersEmbed
<1>4. on' \in [Server -> Memory \cup {None}]
  BY DEF Claim, Select, Inv, TypeOK
<1>5. /\ worker' \in [Server -> {"none", "poll", "memory", "embed", "chunks", "embedChunks"}]
      /\ \A t \in Server : worker'[t] # "none" => worker[t] # "none"
  BY DEF Claim, Select, At, Inv, TypeOK
<1> QED
  BY <1>1, <1>2, <1>3, <1>4, <1>5
  DEF Inv, TypeOK, WorkersEmbed, MetaOfStored, LostVectorsAreFound, Stored, Found, corpus

\* An embedding run writes a vector together with its meta row, only where the
\* table takes it, and only of rows that are there.
LEMMA WriteInv ==
    ASSUME Inv, NEW s \in Server, NEW W \in SUBSET hand[s], Write(s, W)
    PROVE  Inv'
<1> DEFINE e == emb[s]
<1>1. e \in Embedder /\ e # None /\ W \subseteq Stored /\ W \subseteq Item
  BY Tiers DEF Write, Inv, TypeOK, WorkersEmbed
<1>2. /\ UNCHANGED <<stored, tableDim, corpusDim, backups, todo, emb, reindexed, starts>>
      /\ Dim[e] # tableDim => W = {}
      /\ vec' = [i \in Item |-> IF i \in W THEN e ELSE vec[i]]
      /\ meta' = [i \in Item |-> IF i \in W THEN e ELSE meta[i]]
      /\ embedded' = embedded \cup (W \cap Memory)
      /\ kept' = kept \ W
  BY DEF Write
<1>3. fails' \in 0..MaxFails
  BY BoundsAreNumbers DEF Write, Inv, TypeOK
<1>4. /\ hand' = [hand EXCEPT ![s] = {}]
      /\ on' \in [Server -> Memory \cup {None}]
      /\ did' \in [Server -> BOOLEAN]
  BY DEF Write, Turn, Inv, TypeOK
<1>5. /\ worker' \in [Server -> {"none", "poll", "memory", "embed", "chunks", "embedChunks"}]
      /\ \A t \in Server : worker'[t] # "none" => worker[t] # "none"
  BY DEF Write, Turn, At, Inv, TypeOK
<1>6. Stored' = Stored
  BY <1>2 DEF Stored
<1>7. embedded' \subseteq stored'
  BY <1>1, <1>2, Tiers DEF Stored, Inv, TypeOK
<1> HIDE DEF e
<1>8. TypeOK'
  <2>1. vec' \in [Item -> Embedder \cup {None}] /\ meta' \in [Item -> Embedder \cup {None}]
    BY <1>1, <1>2 DEF Inv, TypeOK
  <2>2. ASSUME NEW i \in Item, vec'[i] # None
        PROVE  i \in Stored' /\ Dim[vec'[i]] = tableDim' /\ meta'[i] = vec'[i]
    BY <1>1, <1>2, <1>6, <2>2 DEF Inv, TypeOK
  <2>3. hand' \in [Server -> SUBSET Item] /\ kept' \subseteq Item
    BY <1>2, <1>4 DEF Inv, TypeOK
  <2> QED BY <1>2, <1>3, <1>4, <1>5, <1>7, <2>1, <2>2, <2>3 DEF Inv, TypeOK
<1>9. WorkersEmbed'
  BY <1>2, <1>4, <1>5, <1>6 DEF Inv, TypeOK, WorkersEmbed
<1>10. MetaOfStored'
  BY <1>1, <1>2, <1>6 DEF Inv, MetaOfStored
<1>11. LostVectorsAreFound'
  <2> SUFFICES ASSUME NEW i \in Stored \ kept', vec'[i] = None PROVE Found(i)'
    BY <1>6 DEF LostVectorsAreFound
  <2>1. i \in Item /\ i \notin W /\ i \notin kept /\ vec[i] = None /\ meta'[i] = meta[i]
    BY <1>1, <1>2 DEF Stored
  <2> QED BY <1>2, <2>1 DEF Inv, LostVectorsAreFound, Found
<1> QED BY <1>2, <1>8, <1>9, <1>10, <1>11 DEF Inv

LEMMA NextInv == Inv /\ [Next]_vars => Inv'
<1> SUFFICES ASSUME Inv, [Next]_vars PROVE Inv'
  OBVIOUS
<1>1. CASE \E e \in Embedder, m \in Memory \cup {None}, J \in SUBSET Stored :
              FullReembed(e, {i \in Stored : m \in {None, Parent[i]}}, J)
  BY <1>1, FullReembedInv
<1>2. CASE \/ \E J \in SUBSET Stored : Partial({i \in Stored : Found(i)}, J)
           \/ \E m \in stored : Partial(ItemsOf(m, Stored), ItemsOf(m, Stored))
  <2>1. \A m : ItemsOf(m, Stored) \in SUBSET Stored
    BY DEF ItemsOf
  <2> QED BY <1>2, <2>1, PartialInv
<1>3. CASE BackupDrop
  BY <1>3, BackupDropInv
<1>4. CASE \E s \in Server, llm \in BOOLEAN :
              \/ \E env \in {E \in SUBSET Embedder : Local \in E} : Start(s, env, llm)
              \/ StartFallback(s, llm)
  BY <1>4, StartInv
<1>5. CASE \E s \in Server : Stop(s)
  BY <1>5, StopInv
<1>6. CASE \E s \in Server, m \in Memory : Store(s, m)
  BY <1>6, StoreInv
<1>7. CASE \E s \in Server : (\E m \in Memory : Claim(s, m)) \/ Select(s)
  BY <1>7, WorkInv
<1>8. CASE \E s \in Server : \E W \in SUBSET hand[s] : Write(s, W)
  BY <1>8, WriteInv
<1>9. CASE UNCHANGED vars
  BY <1>9
  DEF vars, corpus, thread, Inv, TypeOK, WorkersEmbed, MetaOfStored, LostVectorsAreFound, Stored, Found
<1> QED
  BY <1>1, <1>2, <1>3, <1>4, <1>5, <1>6, <1>7, <1>8, <1>9 DEF Next, Reindexing, WorkerStep

LEMMA AlwaysInv == Spec => []Inv
BY InitInv, NextInv, PTL DEF Spec

\* Whatever re-embeds, servers and workers with an old embedder do: a vector has the
\* dimension of its table and is from the embedder its meta row names.
THEOREM TypeCorrect == Spec => []TypeOK
<1>1. Inv => TypeOK
  BY DEF Inv
<1> QED BY <1>1, AlwaysInv, PTL

\* An item without a vector is one that `reindex --embeddings` finds, unless a
\* re-embed dropped its vector for one of the dimension its meta row already has.
THEOREM LostVectorsFound == Spec => []LostVectorsAreFound
<1>1. Inv => LostVectorsAreFound
  BY DEF Inv
<1> QED BY <1>1, AlwaysInv, PTL

=============================================================================
