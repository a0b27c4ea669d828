------------------------- MODULE MemoryStoreProofs --------------------------
(***************************************************************************)
(* What TLAPS proves of MemoryStore for any memories, contents, processes  *)
(* and workers, and any number of calls.                                   *)
(***************************************************************************)
EXTENDS MemoryStore, TLAPS

-----------------------------------------------------------------------------
(* Types *)

LEMMA InitTypeOK == Init => TypeOK
BY Bounds, Sizes, Nulls DEF Init, TypeOK, Busy, Lapse

\* A step of a call keeps the call's variables well typed.
LEMMA GotoKeepsTypes ==
    ASSUME TypeOK, NEW c \in Client, Busy(c),
           NEW l \in {"idle", "insert", "embed", "chunk", "write", "look",
                      "rechunk", "enqueue"},
           Goto(c, l)
    PROVE  /\ pc' \in [Client -> {"idle", "insert", "embed", "chunk", "write",
                                  "look", "rechunk", "enqueue"}]
           /\ mem' \in [Client -> Memory \cup {None}]
           /\ new' \in [Client -> Doc \cup {None}]
           /\ gave' \in [Client -> SUBSET {"title", "content"}]
           /\ saw' \in [Client -> BOOLEAN]
           /\ \A b \in Client : Busy(b)' => mem'[b] \in Memory /\ new'[b] \in Doc
BY DEF TypeOK, Goto, Busy

\* Overlaps, and what else a step may note, are lapses.
LEMMA NoteKeepsTypes ==
    ASSUME TypeOK, NEW m \in Memory, NEW L \in SUBSET Lapse,
           Note(m, L) \/ NoteRechunk(m, L)
    PROVE  lapses' \in [Memory -> SUBSET Lapse]
BY DEF TypeOK, Note, NoteRechunk

LEMMA OverlapsIsLapse ==
    ASSUME NEW c \in Client, NEW m \in Memory
    PROVE  Overlaps(c, m) \in SUBSET Lapse
BY DEF Overlaps, Lapse

LEMMA ResplitKeepsTypes ==
    ASSUME TypeOK, NEW m \in Memory, NEW x \in Text, Resplit(m, x)
    PROVE  /\ textOf' \in [Split -> Text \cup {None}]
           /\ chunks' \in [Memory -> Split \cup {None}]
BY DEF TypeOK, Resplit

LEMMA HysteresisKeepsTypes ==
    ASSUME TypeOK, NEW m \in Memory, NEW x \in Text, NEW had \in BOOLEAN,
           NEW follows \in BOOLEAN, Hysteresis(m, x, had, follows)
    PROVE  /\ textOf' \in [Split -> Text \cup {None}]
           /\ chunks' \in [Memory -> Split \cup {None}]
BY ResplitKeepsTypes DEF TypeOK, Hysteresis

\* A worker's variables keep their types.
ThreadOK ==
    /\ job \in [Worker -> {"idle", "memory", "embed", "chunks", "embedChunks"}]
    /\ on \in [Worker -> Memory \cup {None}]
    /\ doc \in [Worker -> Doc \cup {None}]
    /\ split \in [Worker -> Split \cup {None}]
    /\ due \in [Worker -> Nat]
    /\ did \in [Worker -> BOOLEAN]
    /\ round \in [Worker -> 0..MaxRounds]
    /\ \A w \in Worker : /\ job[w] # "idle" => on[w] \in Memory
                         /\ job[w] = "embed" => doc[w] \in Doc
                         /\ job[w] = "embedChunks" => split[w] \in Split /\ due[w] > 0
    /\ deaths \in 0..MaxDeaths

CallOK ==
    /\ pc \in [Client -> {"idle", "insert", "embed", "chunk", "write", "look",
                          "rechunk", "enqueue"}]
    /\ mem \in [Client -> Memory \cup {None}]
    /\ new \in [Client -> Doc \cup {None}]
    /\ gave \in [Client -> SUBSET {"title", "content"}]
    /\ saw \in [Client -> BOOLEAN]
    /\ \A c \in Client : Busy(c) => mem[c] \in Memory /\ new[c] \in Doc
    /\ calls \in 0..MaxCalls

DataOK ==
    /\ row \in [Memory -> Doc \cup {Unborn, Gone}]
    /\ vec \in [Memory -> Doc \cup {None}]
    /\ meta \subseteq Memory
    /\ chunks \in [Memory -> Split \cup {None}]
    /\ textOf \in [Split -> Text \cup {None}]
    /\ left \in [Split -> Nat]
    /\ todo \in [Memory -> 0..MaxTasks]
    /\ lapses \in [Memory -> SUBSET Lapse]

LEMMA TypeParts == TypeOK <=> DataOK /\ CallOK /\ ThreadOK
BY DEF TypeOK, DataOK, CallOK, ThreadOK

LEMMA TypePartsNext == DataOK' /\ CallOK' /\ ThreadOK' => TypeOK'
BY DEF TypeOK, DataOK, CallOK, ThreadOK

LEMMA UnchangedThread == ThreadOK /\ UNCHANGED thread => ThreadOK'
BY DEF ThreadOK, thread

LEMMA UnchangedCall == CallOK /\ UNCHANGED call => CallOK'
BY DEF CallOK, call, Busy

\* A call that goes on or returns keeps CallOK.
LEMMA ProceedKeepsCallOK ==
    ASSUME TypeOK, NEW c \in Client, Busy(c),
           NEW l \in {"idle", "insert", "embed", "chunk", "write", "look",
                      "rechunk", "enqueue"},
           Goto(c, l), calls' = calls
    PROVE  CallOK'
BY GotoKeepsTypes DEF TypeOK, CallOK

LEMMA StoreTypeOK ==
    ASSUME TypeOK, NEW c \in Client, Store(c) \/ Enqueue(c)
    PROVE  TypeOK'
<1>a. DataOK /\ CallOK /\ ThreadOK
  BY TypeParts
<1>b. ASSUME Busy(c) PROVE mem[c] \in Memory /\ new[c] \in Doc /\ new[c].content \in Text
  BY <1>b DEF TypeOK, Doc
<1>1. CASE StoreInsert(c)
  <2>1. Busy(c) /\ Goto(c, "embed") /\ calls' = calls /\ UNCHANGED thread
    BY <1>1 DEF StoreInsert, Busy
  <2>2. DataOK'
    BY <1>1, <1>a, <1>b, <2>1 DEF StoreInsert, DataOK
  <2> QED BY <1>a, <2>1, <2>2, ProceedKeepsCallOK, UnchangedThread,
            TypePartsNext
<1>2. CASE StoreEmbed(c)
  <2>1. Busy(c) /\ Goto(c, "chunk") /\ calls' = calls /\ UNCHANGED thread
    BY <1>2 DEF StoreEmbed, Busy
  <2>2. lapses' \in [Memory -> SUBSET Lapse]
    BY <1>2, <1>b, <2>1, OverlapsIsLapse, NoteKeepsTypes DEF StoreEmbed
  <2>3. DataOK'
    BY <1>2, <1>a, <1>b, <2>1, <2>2 DEF StoreEmbed, DataOK
  <2> QED BY <1>a, <2>1, <2>3, ProceedKeepsCallOK, UnchangedThread,
            TypePartsNext
<1>3. CASE StoreEmbedFails(c)
  <2>1. Busy(c) /\ Goto(c, "chunk") /\ calls' = calls /\ UNCHANGED thread
    BY <1>3 DEF StoreEmbedFails, Busy
  <2>2. DataOK'
    BY <1>3, <1>a DEF StoreEmbedFails, DataOK, data
  <2> QED BY <1>a, <2>1, <2>2, ProceedKeepsCallOK, UnchangedThread,
            TypePartsNext
<1>4. CASE StoreChunk(c)
  <2>1. Busy(c) /\ Goto(c, "enqueue") /\ calls' = calls /\ UNCHANGED thread
    BY <1>4 DEF StoreChunk, Busy
  <2>2. lapses' \in [Memory -> SUBSET Lapse]
    BY <1>4, <1>b, <2>1, OverlapsIsLapse, NoteKeepsTypes DEF StoreChunk
  <2>3. /\ textOf' \in [Split -> Text \cup {None}]
        /\ chunks' \in [Memory -> Split \cup {None}]
    BY <1>4, <1>b, <2>1, ResplitKeepsTypes DEF StoreChunk
  <2>4. DataOK'
    BY <1>4, <1>a, <2>2, <2>3 DEF StoreChunk, DataOK
  <2> QED BY <1>a, <2>1, <2>4, ProceedKeepsCallOK, UnchangedThread,
            TypePartsNext
<1>5. CASE StoreUnchunked(c)
  <2>1. Busy(c) /\ Goto(c, "idle") /\ calls' = calls /\ UNCHANGED thread
    BY <1>5 DEF StoreUnchunked, Busy
  <2>2. DataOK'
    BY <1>5, <1>a DEF StoreUnchunked, DataOK, data
  <2> QED BY <1>a, <2>1, <2>2, ProceedKeepsCallOK, UnchangedThread,
            TypePartsNext
<1>6. CASE Enqueue(c)
  <2>1. Busy(c) /\ Goto(c, "idle") /\ calls' = calls /\ UNCHANGED thread
    BY <1>6 DEF Enqueue, Busy
  <2>2. todo' \in [Memory -> 0..MaxTasks]
    BY <1>6, <1>a, <1>b, <2>1, Bounds DEF Enqueue, DataOK
  <2>3. DataOK'
    BY <1>6, <1>a, <2>2 DEF Enqueue, DataOK
  <2> QED BY <1>a, <2>1, <2>3, ProceedKeepsCallOK, UnchangedThread,
            TypePartsNext
<1> QED BY <1>1, <1>2, <1>3, <1>4, <1>5, <1>6 DEF Store

LEMMA UpdateTypeOK ==
    ASSUME TypeOK, NEW c \in Client, Update(c)
    PROVE  TypeOK'
<1> DEFINE l1 == IF "content" \in gave[c] THEN "look" ELSE "idle"
<1>a. DataOK /\ CallOK /\ ThreadOK
  BY TypeParts
<1>b. Busy(c)
  BY DEF Update, UpdateTags, UpdateEmbed, UpdateEmbedFails, UpdateNothing,
         UpdateLook, UpdateRechunk, Rewrite, Busy
<1>c. mem[c] \in Memory /\ new[c] \in Doc /\ new[c].content \in Text
  BY <1>b DEF TypeOK, Doc
<1>d. ASSUME Rewrite(c) PROVE row' \in [Memory -> Doc \cup {Unborn, Gone}]
  BY <1>a, <1>c, <1>d DEF Rewrite, DataOK
<1>1. CASE UpdateTags(c)
  <2>1. Goto(c, "idle") /\ calls' = calls /\ UNCHANGED thread
    BY <1>1 DEF UpdateTags
  <2>2. lapses' \in [Memory -> SUBSET Lapse]
    BY <1>1, <1>c, OverlapsIsLapse, NoteKeepsTypes DEF UpdateTags
  <2>3. DataOK'
    BY <1>1, <1>a, <1>d, <2>2 DEF UpdateTags, DataOK
  <2> QED BY <1>a, <1>b, <2>1, <2>3, ProceedKeepsCallOK, UnchangedThread,
            TypePartsNext
<1>2. CASE UpdateEmbed(c)
  <2>1. l1 \in {"look", "idle"} /\ Goto(c, l1) /\ calls' = calls /\ UNCHANGED thread
    BY <1>2 DEF UpdateEmbed
  <2>2. lapses' \in [Memory -> SUBSET Lapse]
    BY <1>2, <1>a, <1>c, OverlapsIsLapse DEF UpdateEmbed, DataOK
  <2>3. DataOK'
    BY <1>2, <1>a, <1>c, <1>d, <2>2 DEF UpdateEmbed, DataOK
  <2> HIDE DEF l1
  <2> QED BY <1>a, <1>b, <2>1, <2>3, ProceedKeepsCallOK, UnchangedThread,
            TypePartsNext
<1>3. CASE UpdateEmbedFails(c)
  <2>1. \E l \in {"idle", "enqueue"} : Goto(c, l)
    BY <1>3 DEF UpdateEmbedFails
  <2>2. calls' = calls /\ UNCHANGED thread
    BY <1>3 DEF UpdateEmbedFails
  <2>3. lapses' \in [Memory -> SUBSET Lapse]
    <3>1. Overlaps(c, mem[c]) \cup {"vector"} \in SUBSET Lapse
      BY <1>c, OverlapsIsLapse DEF Lapse
    <3> QED BY <1>3, <1>c, <3>1, NoteKeepsTypes DEF UpdateEmbedFails
  <2>4. /\ textOf' \in [Split -> Text \cup {None}]
        /\ chunks' \in [Memory -> Split \cup {None}]
    <3>1. CASE UNCHANGED <<chunks, textOf>>
      BY <1>a, <3>1 DEF DataOK
    <3>2. CASE \E follows \in BOOLEAN :
                  Hysteresis(mem[c], new[c].content, chunks[mem[c]] # None, follows)
      BY <1>c, <3>2, HysteresisKeepsTypes
    <3> QED BY <1>3, <3>1, <3>2 DEF UpdateEmbedFails
  <2>5. DataOK'
    BY <1>3, <1>a, <1>c, <1>d, <2>3, <2>4 DEF UpdateEmbedFails, DataOK
  <2> QED BY <1>a, <1>b, <2>1, <2>2, <2>5, ProceedKeepsCallOK, UnchangedThread,
            TypePartsNext
<1>4. CASE UpdateNothing(c)
  <2>1. l1 \in {"look", "idle"} /\ Goto(c, l1) /\ calls' = calls /\ UNCHANGED thread
    BY <1>4 DEF UpdateNothing
  <2>2. DataOK'
    BY <1>4, <1>a DEF UpdateNothing, DataOK, data
  <2> HIDE DEF l1
  <2> QED BY <1>a, <1>b, <2>1, <2>2, ProceedKeepsCallOK, UnchangedThread,
            TypePartsNext
<1>5. CASE UpdateLook(c)
  <2>1. CallOK'
    BY <1>5, <1>a, <1>b DEF UpdateLook, CallOK, Busy
  <2>2. DataOK' /\ UNCHANGED thread
    BY <1>5, <1>a DEF UpdateLook, DataOK, data
  <2> QED BY <1>a, <2>1, <2>2, UnchangedThread, TypePartsNext
<1>6. CASE UpdateRechunk(c)
  <2>1. \E l \in {"idle", "enqueue"} : Goto(c, l)
    BY <1>6 DEF UpdateRechunk
  <2>2. calls' = calls /\ UNCHANGED thread
    BY <1>6 DEF UpdateRechunk
  <2>3. lapses' \in [Memory -> SUBSET Lapse]
    BY <1>6, <1>c, OverlapsIsLapse, NoteKeepsTypes DEF UpdateRechunk
  <2>4. /\ textOf' \in [Split -> Text \cup {None}]
        /\ chunks' \in [Memory -> Split \cup {None}]
    <3>1. saw[c] \in BOOLEAN
      BY <1>a DEF CallOK
    <3> QED BY <1>6, <1>c, <3>1, HysteresisKeepsTypes DEF UpdateRechunk
  <2>5. DataOK'
    BY <1>6, <1>a, <2>3, <2>4 DEF UpdateRechunk, DataOK
  <2> QED BY <1>a, <1>b, <2>1, <2>2, <2>5, ProceedKeepsCallOK, UnchangedThread,
            TypePartsNext
<1> QED BY <1>1, <1>2, <1>3, <1>4, <1>5, <1>6 DEF Update

LEMMA CallTypeOK ==
    ASSUME TypeOK, NEW c \in Client, Call(c) \/ Cut(c)
    PROVE  TypeOK'
<1>a. DataOK /\ CallOK /\ ThreadOK
  BY TypeParts
<1>1. ASSUME NEW m \in Memory, NEW d \in Doc, StoreLook(c, m, d) PROVE TypeOK'
  <2>1. CallOK'
    BY <1>1, <1>a, Bounds DEF StoreLook, CallOK, Busy
  <2>2. DataOK' /\ UNCHANGED thread
    BY <1>1, <1>a DEF StoreLook, DataOK, data
  <2> QED BY <1>a, <2>1, <2>2, UnchangedThread, TypePartsNext
<1>2. ASSUME NEW m \in Memory, NEW t \in Title \cup {None}, NEW x \in Text \cup {None},
             UpdateRead(c, m, t, x)
      PROVE  TypeOK'
  <2> DEFINE d == [title   |-> IF t = None THEN row[m].title ELSE t,
                   content |-> IF x = None THEN row[m].content ELSE x]
  <2>1. d \in Doc
    <3>1. row[m] \in Doc
      BY <1>2 DEF UpdateRead, Exists
    <3> QED BY <3>1 DEF Doc
  <2>2. CallOK'
    <3>1. new' = [new EXCEPT ![c] = d]
      BY <1>2 DEF UpdateRead
    <3> HIDE DEF d
    <3>2. new' \in [Client -> Doc \cup {None}] /\ new'[c] \in Doc
      BY <1>a, <2>1, <3>1 DEF CallOK
    <3>3. gave' \in [Client -> SUBSET {"title", "content"}]
      BY <1>2, <1>a DEF UpdateRead, CallOK
    <3> QED BY <1>2, <1>a, <3>1, <3>2, <3>3, Bounds DEF UpdateRead, CallOK, Busy
  <2>3. DataOK' /\ UNCHANGED thread
    BY <1>2, <1>a DEF UpdateRead, DataOK, data
  <2> QED BY <1>a, <2>2, <2>3, UnchangedThread, TypePartsNext
<1>3. ASSUME NEW m \in Memory, Delete(c, m) PROVE TypeOK'
  <2>1. CallOK'
    BY <1>3, <1>a, Bounds DEF Delete, CallOK, Busy
  <2>2. DataOK' /\ UNCHANGED thread
    BY <1>3, <1>a, Bounds DEF Delete, DataOK
  <2> QED BY <1>a, <2>1, <2>2, UnchangedThread, TypePartsNext
<1>4. CASE Cut(c)
  <2>1. Busy(c) /\ Goto(c, "idle") /\ calls' = calls /\ UNCHANGED thread
    BY <1>4 DEF Cut
  <2>2. lapses' \in [Memory -> SUBSET Lapse]
    BY <1>4, <2>1, NoteKeepsTypes DEF Cut, Lapse, TypeOK
  <2>3. DataOK'
    BY <1>4, <1>a, <2>2 DEF Cut, DataOK, data
  <2> QED BY <1>a, <2>1, <2>3, ProceedKeepsCallOK, UnchangedThread, TypePartsNext
<1> QED BY <1>1, <1>2, <1>3, <1>4 DEF Call

\* A worker whose round or task is over has nothing in hand but the task.
LEMMA EndRoundKeepsTypes ==
    ASSUME ThreadOK, NEW w \in Worker, job[w] # "idle", NEW b, EndRound(w, b),
           deaths' \in 0..MaxDeaths
    PROVE  ThreadOK'
<1> DEFINE again == b /\ round[w] < MaxRounds
<1>1. CASE again
  BY <1>1, Sizes DEF ThreadOK, EndRound, Work
<1>2. CASE ~again
  BY <1>2, Sizes DEF ThreadOK, EndRound, Work
<1> QED BY <1>1, <1>2

LEMMA WorkTypeOK ==
    ASSUME TypeOK, NEW w \in Worker,
           Run(w) \/ Stop(w) \/ Die(w) \/ \E m \in Memory : Claim(w, m)
    PROVE  TypeOK'
<1>a. DataOK /\ CallOK /\ ThreadOK
  BY TypeParts
<1>b. ASSUME job[w] # "idle" PROVE on[w] \in Memory
  BY <1>a, <1>b DEF ThreadOK
<1>1. ASSUME NEW m \in Memory, Claim(w, m) PROVE TypeOK'
  <2>1. todo' \in [Memory -> 0..MaxTasks]
    BY <1>1, <1>a, Bounds DEF Claim, DataOK
  <2>2. DataOK' /\ UNCHANGED call
    BY <1>1, <1>a, <2>1 DEF Claim, DataOK
  <2>3. ThreadOK'
    BY <1>1, <1>a DEF Claim, Work, ThreadOK
  <2> QED BY <1>a, <2>2, <2>3, UnchangedCall, TypePartsNext
<1>2. CASE Stop(w)
  <2>1. lapses' \in [Memory -> SUBSET Lapse]
    BY <1>2, <1>b, NoteKeepsTypes DEF Stop, Lapse
  <2>2. DataOK' /\ UNCHANGED call
    BY <1>2, <1>a, <2>1 DEF Stop, DataOK, data
  <2>3. deaths' \in 0..MaxDeaths /\ job[w] # "idle"
    BY <1>2, <1>a DEF Stop, ThreadOK
  <2>4. ThreadOK'
    BY <1>2, <1>a, <2>3, EndRoundKeepsTypes DEF Stop, Finish
  <2> QED BY <1>a, <2>2, <2>4, UnchangedCall, TypePartsNext
<1>3. CASE ReadMemory(w)
  <2>1. DataOK' /\ UNCHANGED call
    BY <1>3, <1>a DEF ReadMemory, DataOK, data
  <2>2. ThreadOK'
    <3>1. round[w] + 1 \in 0..MaxRounds
      BY <1>3, <1>a, Sizes DEF ReadMemory, ThreadOK
    <3> QED BY <1>3, <1>a, <3>1 DEF ReadMemory, Work, ThreadOK, Exists
  <2> QED BY <1>a, <2>1, <2>2, UnchangedCall, TypePartsNext
<1>4. CASE WriteVector(w)
  <2>1. on[w] \in Memory /\ doc[w] \in Doc
    BY <1>4, <1>a DEF WriteVector, ThreadOK
  <2>2. DataOK' /\ UNCHANGED call
    BY <1>4, <1>a, <2>1 DEF WriteVector, DataOK
  <2>3. ThreadOK'
    BY <1>4, <1>a, <2>1 DEF WriteVector, Work, ThreadOK
  <2> QED BY <1>a, <2>2, <2>3, UnchangedCall, TypePartsNext
<1>5. CASE NoVector(w)
  <2>1. DataOK' /\ UNCHANGED call
    BY <1>5, <1>a DEF NoVector, DataOK, data
  <2>2. ThreadOK'
    BY <1>5, <1>a DEF NoVector, Work, ThreadOK
  <2> QED BY <1>a, <2>1, <2>2, UnchangedCall, TypePartsNext
<1>6. CASE ReadChunks(w)
  <2>1. /\ on[w] \in Memory /\ chunks[on[w]] \in Split
        /\ left[chunks[on[w]]] \in Nat /\ left[chunks[on[w]]] > 0
    BY <1>6, <1>a DEF ReadChunks, ThreadOK, DataOK, Unembedded
  <2>2. DataOK' /\ UNCHANGED call
    BY <1>6, <1>a DEF ReadChunks, DataOK, data
  <2>3. ThreadOK'
    BY <1>6, <1>a, <2>1 DEF ReadChunks, Work, ThreadOK
  <2> QED BY <1>a, <2>2, <2>3, UnchangedCall, TypePartsNext
<1>7. CASE NoChunks(w)
  <2>1. DataOK' /\ UNCHANGED call
    BY <1>7, <1>a DEF NoChunks, DataOK, data
  <2>2. deaths' \in 0..MaxDeaths /\ job[w] # "idle"
    BY <1>7, <1>a DEF NoChunks, ThreadOK
  <2>3. ThreadOK'
    BY <1>7, <1>a, <2>2, EndRoundKeepsTypes DEF NoChunks
  <2> QED BY <1>a, <2>1, <2>3, UnchangedCall, TypePartsNext
<1>8. CASE WriteChunks(w)
  <2>1. split[w] \in Split /\ due[w] \in Nat /\ left[split[w]] \in Nat /\ job[w] # "idle"
    BY <1>8, <1>a DEF WriteChunks, DataOK, ThreadOK
  <2>2. PICK n \in 1..Smaller(Batch, due[w]) :
            left' = [left EXCEPT ![split[w]] = Smaller(@, due[w] - n)]
    BY <1>8 DEF WriteChunks
  <2>3. Smaller(left[split[w]], due[w] - n) \in Nat
    BY <2>1, <2>2, Sizes DEF Smaller
  <2>4. left' \in [Split -> Nat]
    BY <1>a, <2>1, <2>2, <2>3 DEF DataOK
  <2>5. lapses' \in [Memory -> SUBSET Lapse]
    BY <1>8, <1>b, <2>1, NoteKeepsTypes DEF WriteChunks, Lapse
  <2>6. DataOK' /\ UNCHANGED call
    BY <1>8, <1>a, <2>4, <2>5 DEF WriteChunks, DataOK
  <2>7. deaths' \in 0..MaxDeaths
    BY <1>8, <1>a DEF WriteChunks, ThreadOK
  <2>8. ThreadOK'
    BY <1>8, <1>a, <2>1, <2>7, EndRoundKeepsTypes DEF WriteChunks
  <2> QED BY <1>a, <2>6, <2>8, UnchangedCall, TypePartsNext
<1>9. CASE NoChunkVectors(w)
  <2>1. lapses' \in [Memory -> SUBSET Lapse]
    BY <1>9, <1>b, NoteKeepsTypes DEF NoChunkVectors, Lapse
  <2>2. DataOK' /\ UNCHANGED call
    BY <1>9, <1>a, <2>1 DEF NoChunkVectors, DataOK, data
  <2>3. deaths' \in 0..MaxDeaths /\ job[w] # "idle"
    BY <1>9, <1>a DEF NoChunkVectors, ThreadOK
  <2>4. ThreadOK'
    BY <1>9, <1>a, <2>3, EndRoundKeepsTypes DEF NoChunkVectors
  <2> QED BY <1>a, <2>2, <2>4, UnchangedCall, TypePartsNext
<1>10. CASE Die(w)
  <2>1. todo' \in [Memory -> 0..MaxTasks]
    BY <1>10, <1>a, <1>b, Bounds DEF Die, DataOK
  <2>2. DataOK' /\ UNCHANGED call
    BY <1>10, <1>a, <2>1 DEF Die, DataOK
  <2>3. deaths' \in 0..MaxDeaths /\ job[w] # "idle"
    BY <1>10, <1>a, Bounds DEF Die, ThreadOK
  <2>4. ThreadOK'
    BY <1>10, <1>a, <2>3, EndRoundKeepsTypes DEF Die, Finish
  <2> QED BY <1>a, <2>2, <2>4, UnchangedCall, TypePartsNext
<1> QED BY <1>1, <1>2, <1>3, <1>4, <1>5, <1>6, <1>7, <1>8, <1>9, <1>10 DEF Run

LEMMA NextTypeOK == TypeOK /\ [Next]_vars => TypeOK'
<1>1. ASSUME TypeOK, UNCHANGED vars PROVE TypeOK'
  BY <1>1 DEF vars, data, call, thread, TypeOK, Busy
<1> QED
  BY <1>1, StoreTypeOK, UpdateTypeOK, CallTypeOK, WorkTypeOK DEF Next, Proceed

\* The type invariant holds in every reachable state, for any number of memories,
\* processes, workers and calls.
THEOREM TypeCorrect == Spec => []TypeOK
BY InitTypeOK, NextTypeOK, PTL DEF Spec

-----------------------------------------------------------------------------
(* Chunk rows without vectors have a task *)

\* A worker is going to read m's chunk rows, or has read the present ones.
WillEmbed(w, m) ==
    /\ on[w] = m
    /\ \/ job[w] \in {"memory", "embed", "chunks"}
       \/ job[w] = "embedChunks" /\ split[w] = chunks[m]

Served(m) ==
    \/ todo[m] > 0
    \/ \E c \in Client : pc[c] = "enqueue" /\ mem[c] = m
    \/ \E w \in Worker : WillEmbed(w, m)
    \/ lapses[m] \cap Excuses # {}

\* ChunksAreQueued made inductive: a worker that has read an older split does not
\* count, whoever replaced that split is still to enqueue or has; and a memory
\* without a row has no chunks that a new row could inherit.
ChunksServed ==
    \A m \in Memory : /\ m \notin Exists => chunks[m] = None
                      /\ Unembedded(m) => Served(m)

LEMMA InitChunksServed == Init => ChunksServed
BY DEF Init, ChunksServed, Unembedded

LEMMA ServedIsQueued == TypeOK /\ ChunksServed => ChunksAreQueued
BY DEF ChunksServed, Served, WillEmbed, ChunksAreQueued, Exists, Excuses, TypeOK

\* Steps that leave chunks, tasks and workers alone, and end no call that has
\* yet to enqueue.
LEMMA QuietStep ==
    ASSUME ChunksServed, UNCHANGED <<chunks, left, todo, job, on, split>>,
           Exists \subseteq Exists',
           \A b \in Client : pc[b] = "enqueue" => pc'[b] = "enqueue" /\ mem'[b] = mem[b],
           \A m \in Memory : lapses[m] \cap Excuses \subseteq lapses'[m]
    PROVE  ChunksServed'
<1> SUFFICES ASSUME NEW m \in Memory
             PROVE  /\ m \notin Exists' => chunks'[m] = None
                    /\ Unembedded(m)' => Served(m)'
  BY DEF ChunksServed
<1>1. m \notin Exists' => chunks'[m] = None
  BY DEF ChunksServed
<1>2. ASSUME Unembedded(m)' PROVE Served(m)'
  <2>1. Served(m)
    BY <1>2 DEF ChunksServed, Unembedded
  <2>2. CASE todo[m] > 0
    BY <2>2 DEF Served
  <2>3. CASE \E c \in Client : pc[c] = "enqueue" /\ mem[c] = m
    BY <2>3 DEF Served
  <2>4. CASE \E w \in Worker : WillEmbed(w, m)
    BY <2>4 DEF Served, WillEmbed
  <2>5. CASE lapses[m] \cap Excuses # {}
    BY <2>5 DEF Served
  <2> QED BY <2>1, <2>2, <2>3, <2>4, <2>5 DEF Served
<1> QED BY <1>1, <1>2

\* Steps of call c that write the chunk rows of m: a task is to follow, or the
\* rows are gone, or they were left as they were.
LEMMA RechunkStep ==
    ASSUME ChunksServed, NEW c \in Client, NEW m \in Memory,
           UNCHANGED <<left, todo, job, on, split>>,
           Exists' = Exists, pc[c] # "enqueue",
           \A b \in Client \ {c} : pc'[b] = pc[b] /\ mem'[b] = mem[b],
           \A n \in Memory \ {m} : chunks'[n] = chunks[n] /\ lapses'[n] = lapses[n],
           \/ m \in Exists /\ pc'[c] = "enqueue" /\ mem'[c] = m
           \/ chunks'[m] = None
           \/ chunks'[m] = chunks[m] /\ lapses[m] \subseteq lapses'[m]
    PROVE  ChunksServed'
<1> SUFFICES ASSUME NEW n \in Memory
             PROVE  /\ n \notin Exists' => chunks'[n] = None
                    /\ Unembedded(n)' => Served(n)'
  BY DEF ChunksServed
<1>1. n \notin Exists' => chunks'[n] = None
  BY DEF ChunksServed
<1>2. ASSUME Unembedded(n)', chunks'[n] = chunks[n], lapses[n] \subseteq lapses'[n]
      PROVE  Served(n)'
  <2>1. Served(n)
    BY <1>2 DEF ChunksServed, Unembedded
  <2>2. CASE todo[n] > 0
    BY <2>2 DEF Served
  <2>3. CASE \E b \in Client : pc[b] = "enqueue" /\ mem[b] = n
    BY <2>3 DEF Served
  <2>4. CASE \E w \in Worker : WillEmbed(w, n)
    BY <1>2, <2>4 DEF Served, WillEmbed
  <2>5. CASE lapses[n] \cap Excuses # {}
    BY <1>2, <2>5 DEF Served
  <2> QED BY <2>1, <2>2, <2>3, <2>4, <2>5 DEF Served
<1>3. CASE n = m /\ pc'[c] = "enqueue" /\ mem'[c] = m
  BY <1>1, <1>3 DEF Served
<1>4. CASE n = m /\ chunks'[m] = None
  BY <1>1, <1>4 DEF Unembedded
<1> QED BY <1>1, <1>2, <1>3, <1>4

LEMMA CallChunksServed ==
    ASSUME TypeOK, ChunksServed, NEW c \in Client, Call(c) \/ Proceed(c) \/ Cut(c)
    PROVE  ChunksServed'
<1> USE DEF TypeOK
<1>a. ASSUME Busy(c)
      PROVE  mem[c] \in Memory /\ new[c] \in Doc
  BY <1>a
<1>b. ASSUME pc[c] # "enqueue", NEW l, Goto(c, l), UNCHANGED <<data, thread, lapses>>
      PROVE  ChunksServed'
  <2>1. Exists' = Exists
    BY <1>b DEF Exists, data
  <2>2. \A b \in Client : pc[b] = "enqueue" => pc'[b] = "enqueue" /\ mem'[b] = mem[b]
    BY <1>b DEF Goto
  <2> QED BY <1>b, <2>1, <2>2, QuietStep DEF data, thread
<1>1. ASSUME NEW m \in Memory, NEW d \in Doc, StoreLook(c, m, d) PROVE ChunksServed'
  <2>1. Exists' = Exists
    BY <1>1 DEF StoreLook, Exists, data
  <2>2. \A b \in Client : pc[b] = "enqueue" => pc'[b] = "enqueue" /\ mem'[b] = mem[b]
    BY <1>1 DEF StoreLook, Busy
  <2> QED BY <1>1, <2>1, <2>2, QuietStep DEF StoreLook, data, thread
<1>2. ASSUME NEW m \in Memory, NEW t \in Title \cup {None}, NEW x \in Text \cup {None},
             UpdateRead(c, m, t, x)
      PROVE  ChunksServed'
  <2>1. Exists' = Exists
    BY <1>2 DEF UpdateRead, Exists, data
  <2>2. \A b \in Client : pc[b] = "enqueue" => pc'[b] = "enqueue" /\ mem'[b] = mem[b]
    BY <1>2 DEF UpdateRead, Busy
  <2> QED BY <1>2, <2>1, <2>2, QuietStep DEF UpdateRead, data, thread
<1>3. ASSUME NEW m \in Memory, Delete(c, m) PROVE ChunksServed'
  <2>1. m \notin Exists' /\ chunks'[m] = None
    BY <1>3, Nulls DEF Delete, Exists
  <2>2. ASSUME NEW n \in Memory \ {m}
        PROVE  /\ n \notin Exists' => chunks'[n] = None
               /\ Unembedded(n)' => Served(n)'
    BY <1>3 DEF Delete, thread, ChunksServed, Exists, Unembedded, Served, WillEmbed
  <2> QED BY <2>1, <2>2 DEF ChunksServed, Unembedded
<1>4. CASE StoreInsert(c)
  <2>1. Exists \subseteq Exists'
    BY <1>4, <1>a DEF StoreInsert, Busy, Exists
  <2>2. \A b \in Client : pc[b] = "enqueue" => pc'[b] = "enqueue" /\ mem'[b] = mem[b]
    BY <1>4 DEF StoreInsert, Goto
  <2> QED BY <1>4, <2>1, <2>2, QuietStep DEF StoreInsert, thread
<1>5. CASE StoreEmbed(c)
  <2>1. Exists' = Exists
    BY <1>5 DEF StoreEmbed, Exists
  <2>2. \A b \in Client : pc[b] = "enqueue" => pc'[b] = "enqueue" /\ mem'[b] = mem[b]
    BY <1>5 DEF StoreEmbed, Goto
  <2>3. \A m \in Memory : lapses[m] \cap Excuses \subseteq lapses'[m]
    BY <1>5 DEF StoreEmbed, Note
  <2> QED BY <1>5, <2>1, <2>2, <2>3, QuietStep DEF StoreEmbed, thread
<1>6. CASE StoreEmbedFails(c) \/ StoreUnchunked(c)
  BY <1>6, <1>b DEF StoreEmbedFails, StoreUnchunked
<1>7. CASE StoreChunk(c)
  <2>1. Exists' = Exists
    BY <1>7 DEF StoreChunk, Exists
  <2>2. \A b \in Client \ {c} : pc'[b] = pc[b] /\ mem'[b] = mem[b]
    BY <1>7 DEF StoreChunk, Goto
  <2>3. mem[c] \in Memory /\ pc'[c] = "enqueue" /\ mem'[c] = mem[c]
    BY <1>7, <1>a DEF StoreChunk, Goto, Busy
  <2>4. \A n \in Memory \ {mem[c]} : chunks'[n] = chunks[n] /\ lapses'[n] = lapses[n]
    BY <1>7 DEF StoreChunk, Resplit, Note
  <2> QED BY <1>7, <2>1, <2>2, <2>3, <2>4, RechunkStep DEF StoreChunk, thread
<1>8. CASE Enqueue(c)
  <2>1. mem[c] \in Memory /\ todo'[mem[c]] > 0
    BY <1>8, <1>a, Bounds DEF Enqueue, Busy
  <2>2. ASSUME NEW n \in Memory, n # mem[c], Served(n) PROVE Served(n)'
    <3>1. \A b \in Client : pc[b] = "enqueue" /\ mem[b] = n
                            => pc'[b] = "enqueue" /\ mem'[b] = n
      BY <1>8, <2>2 DEF Enqueue, Goto
    <3> QED BY <1>8, <2>2, <3>1 DEF Enqueue, thread, Served, WillEmbed
  <2> QED BY <1>8, <2>1, <2>2 DEF Enqueue, ChunksServed, Served, Exists, Unembedded
<1>9. CASE UpdateTags(c)
  <2>1. Exists \subseteq Exists'
    BY <1>9, <1>a DEF UpdateTags, Rewrite, Busy, Exists
  <2>2. \A b \in Client : pc[b] = "enqueue" => pc'[b] = "enqueue" /\ mem'[b] = mem[b]
    BY <1>9 DEF UpdateTags, Rewrite, Goto
  <2>3. \A m \in Memory : lapses[m] \cap Excuses \subseteq lapses'[m]
    BY <1>9 DEF UpdateTags, Note
  <2> QED BY <1>9, <2>1, <2>2, <2>3, QuietStep DEF UpdateTags, thread
<1>10. CASE UpdateEmbed(c)
  <2>1. Exists \subseteq Exists'
    BY <1>10, <1>a DEF UpdateEmbed, Rewrite, Busy, Exists
  <2>2. \A b \in Client : pc[b] = "enqueue" => pc'[b] = "enqueue" /\ mem'[b] = mem[b]
    BY <1>10 DEF UpdateEmbed, Rewrite, Goto
  <2>3. \A m \in Memory : lapses[m] \cap Excuses \subseteq lapses'[m]
    BY <1>10 DEF UpdateEmbed, Excuses
  <2> QED BY <1>10, <2>1, <2>2, <2>3, QuietStep DEF UpdateEmbed, thread
<1>11. CASE UpdateEmbedFails(c)
  <2>1. mem[c] \in Exists /\ Exists' = Exists
    BY <1>11, <1>a DEF UpdateEmbedFails, Rewrite, Busy, Exists
  <2>2. pc[c] = "write" /\ UNCHANGED <<left, todo, thread>>
    BY <1>11 DEF UpdateEmbedFails, Rewrite
  <2>a. \E l \in {"idle", "enqueue"} : Goto(c, l)
    BY <1>11 DEF UpdateEmbedFails
  <2>3. \A b \in Client \ {c} : pc'[b] = pc[b] /\ mem'[b] = mem[b]
    BY <2>a DEF Goto
  <2>4. \A n \in Memory \ {mem[c]} : chunks'[n] = chunks[n] /\ lapses'[n] = lapses[n]
    BY <1>11 DEF UpdateEmbedFails, Hysteresis, Resplit, NoteRechunk
  <2>5. \/ pc'[c] = "enqueue" /\ mem'[c] = mem[c]
        \/ chunks'[mem[c]] = None
        \/ chunks'[mem[c]] = chunks[mem[c]]
    BY <1>11, <2>1 DEF UpdateEmbedFails, Goto, Hysteresis, Exists
  <2>6. chunks'[mem[c]] = chunks[mem[c]] => lapses[mem[c]] \subseteq lapses'[mem[c]]
    BY <1>11, <2>1 DEF UpdateEmbedFails, NoteRechunk, Exists
  <2>7. mem[c] \in Memory
    BY <2>1 DEF Exists
  <2> QED BY <2>1, <2>2, <2>3, <2>4, <2>5, <2>6, <2>7, RechunkStep DEF thread
<1>12. CASE UpdateNothing(c)
  BY <1>12, <1>b DEF UpdateNothing
<1>13. CASE UpdateLook(c)
  <2>1. Exists' = Exists
    BY <1>13 DEF UpdateLook, Exists, data
  <2>2. \A b \in Client : pc[b] = "enqueue" => pc'[b] = "enqueue" /\ mem'[b] = mem[b]
    BY <1>13 DEF UpdateLook
  <2> QED BY <1>13, <2>1, <2>2, QuietStep DEF UpdateLook, data, thread
<1>14. CASE UpdateRechunk(c)
  <2>1. mem[c] \in Memory /\ Exists' = Exists
    BY <1>14, <1>a DEF UpdateRechunk, Busy, Exists
  <2>2. pc[c] = "rechunk" /\ UNCHANGED <<left, todo, thread>>
    BY <1>14 DEF UpdateRechunk
  <2>3. \A b \in Client \ {c} : pc'[b] = pc[b] /\ mem'[b] = mem[b]
    BY <1>14 DEF UpdateRechunk, Goto
  <2>4. \A n \in Memory \ {mem[c]} : chunks'[n] = chunks[n] /\ lapses'[n] = lapses[n]
    BY <1>14 DEF UpdateRechunk, Hysteresis, Resplit, NoteRechunk
  <2>5. \/ mem[c] \in Exists /\ pc'[c] = "enqueue" /\ mem'[c] = mem[c]
        \/ chunks'[mem[c]] = None
        \/ chunks'[mem[c]] = chunks[mem[c]]
    BY <1>14, <2>1 DEF UpdateRechunk, Goto, Hysteresis
  <2>6. chunks'[mem[c]] = chunks[mem[c]] => lapses[mem[c]] \subseteq lapses'[mem[c]]
    BY <1>14, <2>1 DEF UpdateRechunk, NoteRechunk
  <2> QED BY <2>1, <2>2, <2>3, <2>4, <2>5, <2>6, RechunkStep DEF thread
<1>15. CASE Cut(c)
  <2>a. mem[c] \in Memory /\ lapses' = [lapses EXCEPT ![mem[c]] = @ \cup {"cut"}]
    BY <1>15, <1>a DEF Cut, Note
  <2>b. lapses'[mem[c]] = lapses[mem[c]] \cup {"cut"}
    BY <2>a
  <2>1. mem[c] \in Memory /\ lapses'[mem[c]] \cap Excuses # {}
    BY <2>a, <2>b DEF Excuses
  <2>2. ASSUME NEW n \in Memory, n # mem[c], Served(n) PROVE Served(n)'
    <3>1. \A b \in Client : pc[b] = "enqueue" /\ mem[b] = n
                            => pc'[b] = "enqueue" /\ mem'[b] = n
      BY <1>15, <2>2 DEF Cut, Goto
    <3> QED BY <1>15, <2>2, <3>1 DEF Cut, Note, data, thread, Served, WillEmbed
  <2> QED BY <1>15, <2>1, <2>2 DEF Cut, data, ChunksServed, Served, Exists, Unembedded
<1> QED
  BY <1>1, <1>2, <1>3, <1>4, <1>5, <1>6, <1>7, <1>8, <1>9, <1>10, <1>11, <1>12, <1>13,
     <1>14, <1>15 DEF Call, Proceed, Store, Update

LEMMA WorkChunksServed ==
    ASSUME TypeOK, ChunksServed, NEW w \in Worker,
           Run(w) \/ Stop(w) \/ Die(w) \/ \E m \in Memory : Claim(w, m)
    PROVE  ChunksServed'
<1> USE DEF TypeOK
<1> SUFFICES ASSUME NEW n \in Memory
             PROVE  /\ n \notin Exists' => chunks'[n] = None
                    /\ Unembedded(n)' => Served(n)'
  BY DEF ChunksServed
<1>a. UNCHANGED <<row, chunks, call>>
  BY DEF Run, ReadMemory, WriteVector, NoVector, ReadChunks, NoChunks, WriteChunks,
         NoChunkVectors, Stop, Die, Claim, data
\* No step of a worker takes a vector away.
<1>e. \A k \in Split : left'[k] <= left[k]
  <2>1. CASE WriteChunks(w)
    <3>1. /\ split[w] \in Split /\ due[w] \in Nat
      BY <2>1 DEF WriteChunks
    <3>2. PICK got \in 1..Smaller(Batch, due[w]) :
              left' = [left EXCEPT ![split[w]] = Smaller(@, due[w] - got)]
      BY <2>1 DEF WriteChunks
    <3>3. Smaller(left[split[w]], due[w] - got) <= left[split[w]]
      BY <3>1, <3>2, Sizes DEF Smaller
    <3> QED BY <3>1, <3>2, <3>3
  <2>2. CASE ~WriteChunks(w)
    <3>1. left' = left
      BY <2>2 DEF Run, ReadMemory, WriteVector, NoVector, ReadChunks, NoChunks,
                  NoChunkVectors, Stop, Die, Claim, data
    <3> QED BY <3>1
  <2> QED BY <2>1, <2>2
<1>b. n \notin Exists' => chunks'[n] = None
  BY <1>a DEF ChunksServed, Exists
<1>c. Unembedded(n)' => Unembedded(n) /\ Served(n) /\ n \in Exists
  <2>1. chunks[n] \in Split => left[chunks[n]] \in Nat /\ left'[chunks[n]] <= left[chunks[n]]
    BY <1>e
  <2>2. chunks[n] \in Split => left'[chunks[n]] \in Nat
    BY <2>1, WorkTypeOK
  <2>3. Unembedded(n)' => Unembedded(n)
    BY <1>a, <2>1, <2>2 DEF Unembedded
  <2> QED BY <1>a, <2>3 DEF ChunksServed, Unembedded
\* What worker w does not hold stays served: only w's own part can change.
<1>d. ASSUME todo[n] > 0 => todo'[n] > 0, lapses[n] \subseteq lapses'[n],
             \A v \in Worker \ {w} : on'[v] = on[v] /\ job'[v] = job[v] /\ split'[v] = split[v],
             WillEmbed(w, n) => WillEmbed(w, n)' \/ todo'[n] > 0 \/ lapses'[n] \cap Excuses # {},
             Unembedded(n)'
      PROVE  Served(n)'
  <2>1. CASE todo[n] > 0
    BY <1>d, <2>1 DEF Served
  <2>2. CASE \E c \in Client : pc[c] = "enqueue" /\ mem[c] = n
    BY <1>a, <2>2 DEF Served, call
  <2>3. CASE \E v \in Worker \ {w} : WillEmbed(v, n)
    BY <1>a, <1>d, <2>3 DEF Served, WillEmbed
  <2>4. CASE WillEmbed(w, n)
    BY <1>d, <2>4 DEF Served
  <2>5. CASE lapses[n] \cap Excuses # {}
    BY <1>d, <2>5 DEF Served
  <2> QED BY <1>c, <1>d, <2>1, <2>2, <2>3, <2>4, <2>5 DEF Served
<1>1. ASSUME NEW m \in Memory, Claim(w, m), Unembedded(n)' PROVE Served(n)'
  <2>1. CASE n = m
    <3>1. WillEmbed(w, n)'
      BY <1>1, <2>1 DEF Claim, Work, WillEmbed
    <3> QED BY <3>1 DEF Served
  <2>2. CASE n # m
    BY <1>1, <1>d, <2>2 DEF Claim, Work, WillEmbed
  <2> QED BY <2>1, <2>2
\* A round that ends leaves the other workers alone, and this one holds its task
\* unless it gave it up.
<1>f. ASSUME NEW b, EndRound(w, b)
      PROVE  /\ \A v \in Worker \ {w} :
                   on'[v] = on[v] /\ job'[v] = job[v] /\ split'[v] = split[v]
             /\ b /\ round[w] < MaxRounds /\ on[w] = n => WillEmbed(w, n)'
  BY <1>f DEF EndRound, Work, WillEmbed
<1>2. ASSUME Stop(w), Unembedded(n)' PROVE Served(n)'
  <2>1. EndRound(w, FALSE) /\ todo' = todo
    BY <1>2 DEF Stop, Finish, data
  <2>2. lapses[n] \subseteq lapses'[n] /\ (on[w] = n => lapses'[n] \cap Excuses # {})
    BY <1>2 DEF Stop, Note, Excuses
  <2> QED BY <1>2, <1>d, <1>f, <2>1, <2>2 DEF WillEmbed
<1>3. ASSUME Die(w), Unembedded(n)' PROVE Served(n)'
  <2>1. \A v \in Worker \ {w} : on'[v] = on[v] /\ job'[v] = job[v] /\ split'[v] = split[v]
    BY <1>3, <1>f DEF Die, Finish
  <2>2. on[w] = n => todo'[n] > 0
    BY <1>3, <1>c, Bounds DEF Die
  <2>3. on[w] # n => todo'[n] = todo[n]
    BY <1>3 DEF Die
  <2>4. lapses' = lapses
    BY <1>3 DEF Die
  <2> QED BY <1>3, <1>d, <2>1, <2>2, <2>3, <2>4 DEF WillEmbed
<1>4. ASSUME ReadMemory(w) \/ WriteVector(w) \/ NoVector(w), Unembedded(n)' PROVE Served(n)'
  BY <1>4, <1>d DEF ReadMemory, WriteVector, NoVector, Work, data, WillEmbed
<1>5. ASSUME ReadChunks(w), Unembedded(n)' PROVE Served(n)'
  BY <1>5, <1>a, <1>d DEF ReadChunks, Work, data, WillEmbed
<1>6. ASSUME NoChunks(w), Unembedded(n)' PROVE Served(n)'
  <2>1. on[w] # n
    BY <1>6, <1>c DEF NoChunks
  <2>2. EndRound(w, did[w]) /\ UNCHANGED <<todo, lapses>>
    BY <1>6 DEF NoChunks, data
  <2> QED BY <1>6, <1>d, <1>f, <2>1, <2>2 DEF WillEmbed
<1>7. ASSUME WriteChunks(w), Unembedded(n)' PROVE Served(n)'
  <2>1. EndRound(w, TRUE) /\ todo' = todo /\ lapses[n] \subseteq lapses'[n]
    BY <1>7 DEF WriteChunks, Note
  <2>2. ASSUME WillEmbed(w, n), round[w] = MaxRounds PROVE lapses'[n] \cap Excuses # {}
    <3>1. n = on[w] /\ chunks[n] = split[w] /\ left'[split[w]] > 0
      BY <1>7, <1>a, <2>2 DEF WriteChunks, WillEmbed, Unembedded
    <3>2. lapses' = [lapses EXCEPT ![n] = @ \cup {"rounds"}]
      BY <1>7, <2>2, <3>1 DEF WriteChunks, Note
    <3> QED BY <3>2 DEF Excuses
  <2>3. round[w] # MaxRounds => round[w] < MaxRounds
    BY Sizes
  <2>4. WillEmbed(w, n) => WillEmbed(w, n)' \/ lapses'[n] \cap Excuses # {}
    BY <1>f, <2>1, <2>2, <2>3 DEF WillEmbed
  <2>5. \A v \in Worker \ {w} : on'[v] = on[v] /\ job'[v] = job[v] /\ split'[v] = split[v]
    BY <1>f, <2>1
  <2> QED BY <1>7, <1>d, <2>1, <2>4, <2>5
<1>8. ASSUME NoChunkVectors(w), Unembedded(n)' PROVE Served(n)'
  <2>1. \A v \in Worker \ {w} : on'[v] = on[v] /\ job'[v] = job[v] /\ split'[v] = split[v]
    BY <1>8, <1>f DEF NoChunkVectors
  <2>2. todo' = todo /\ lapses[n] \subseteq lapses'[n]
    BY <1>8 DEF NoChunkVectors, data, Note
  <2>3. WillEmbed(w, n) => lapses'[n] \cap Excuses # {}
    BY <1>8 DEF NoChunkVectors, Note, WillEmbed, Excuses
  <2> QED BY <1>8, <1>d, <2>1, <2>2, <2>3
<1> QED
  BY <1>b, <1>1, <1>2, <1>3, <1>4, <1>5, <1>6, <1>7, <1>8 DEF Run

LEMMA NextChunksServed == TypeOK /\ ChunksServed /\ [Next]_vars => ChunksServed'
<1>1. ASSUME TypeOK, ChunksServed, UNCHANGED vars PROVE ChunksServed'
  BY <1>1 DEF vars, data, call, thread, ChunksServed, Unembedded, Served, WillEmbed, Exists
<1> QED
  BY <1>1, CallChunksServed, WorkChunksServed DEF Next

\* Chunk rows without vectors always have a reembed task, open or about to be
\* enqueued, or one of the named exceptions has happened to their memory, for any
\* number of memories, processes, workers, calls and deaths.
THEOREM ChunksQueued == Spec => []ChunksAreQueued
<1>1. Init => TypeOK /\ ChunksServed
  BY InitTypeOK, InitChunksServed
<1>2. TypeOK /\ ChunksServed /\ [Next]_vars => TypeOK' /\ ChunksServed'
  BY NextTypeOK, NextChunksServed
<1> QED
  BY <1>1, <1>2, ServedIsQueued, PTL DEF Spec

-----------------------------------------------------------------------------
(* Vectors *)

\* What a call or a run of m has in hand is the row, and m's vector is the row's.
InHand(m) ==
    /\ \A c \in Client : mem[c] = m /\ (pc[c] = "embed" \/ (pc[c] = "write" /\ gave[c] = {}))
                         => new[c] = row[m]
    /\ \A w \in Worker : on[w] = m /\ job[w] = "embed" => doc[w] = row[m]
    /\ m \in meta /\ "vector" \notin lapses[m] => vec[m] = row[m]

\* A store() that has not inserted is alone with its id.
InsertOK ==
    \A c \in Client : pc[c] = "insert" =>
        /\ row[mem[c]] = Unborn
        /\ \A b \in Client \ {c} : Busy(b) => mem[b] # mem[c]

\* VectorIsCurrent made inductive.
VectorsKept ==
    /\ meta \subseteq Exists
    /\ InsertOK
    /\ \A w \in Worker : job[w] = "embed" => row[on[w]] # Unborn
    /\ \A m \in Exists : "overlap" \notin lapses[m] => InHand(m)

LEMMA InitVectorsKept == Init => VectorsKept
BY Nulls DEF Init, VectorsKept, InsertOK, Exists

LEMMA KeptIsCurrent == VectorsKept => VectorIsCurrent
BY DEF VectorsKept, InHand, VectorIsCurrent

\* Steps that write no row and no vector, and after which no call or run has more
\* in hand than before.
LEMMA QuietVectorStep ==
    ASSUME TypeOK, VectorsKept, UNCHANGED <<row, vec, meta>>,
           \A c \in Client : /\ Busy(c)' => Busy(c) /\ mem'[c] = mem[c]
                             /\ pc'[c] \in {"insert", "embed", "write"} =>
                                    pc'[c] = pc[c] /\ new'[c] = new[c] /\ gave'[c] = gave[c],
           \A w \in Worker : job'[w] = "embed" =>
                                 job[w] = "embed" /\ on'[w] = on[w] /\ doc'[w] = doc[w],
           \A m \in Memory : lapses[m] \cap {"overlap", "vector"} \subseteq lapses'[m]
    PROVE  VectorsKept'
<1>1. Exists' = Exists /\ meta' = meta
  BY DEF Exists
<1>2. InsertOK'
  BY DEF VectorsKept, InsertOK, Busy
<1>3. \A w \in Worker : job'[w] = "embed" => row'[on'[w]] # Unborn
  BY DEF VectorsKept
<1>4. ASSUME NEW m \in Exists', "overlap" \notin lapses'[m] PROVE InHand(m)'
  <2>1. InHand(m) /\ m \in Memory
    BY <1>1, <1>4 DEF VectorsKept, Exists
  <2> QED BY <1>4, <2>1 DEF InHand, Busy
<1> QED BY <1>1, <1>2, <1>3, <1>4 DEF VectorsKept

\* Steps of call c that write the row or the vector of m, and leave c with nothing
\* in hand: they record whether somebody else had m in hand.
LEMMA OwnWriteStep ==
    ASSUME TypeOK, VectorsKept, NEW c \in Client, NEW m \in Exists,
           row'[m] \in Doc, meta' \ {m} = meta \ {m}, UNCHANGED <<job, on, doc>>,
           pc'[c] \notin {"insert", "embed", "write"}, Busy(c), mem[c] = m,
           Busy(c)' => mem'[c] = m,
           \A b \in Client \ {c} : /\ pc'[b] = pc[b] /\ mem'[b] = mem[b]
                                   /\ new'[b] = new[b] /\ gave'[b] = gave[b],
           \A n \in Memory \ {m} : /\ row'[n] = row[n] /\ vec'[n] = vec[n]
                                   /\ lapses'[n] = lapses[n],
           Overlaps(c, m) \subseteq lapses'[m],
           m \in meta' /\ lapses'[m] \cap {"overlap", "vector"} = {} => vec'[m] = row'[m]
    PROVE  VectorsKept'
<1>1. Exists' = Exists /\ m \in Memory
  BY DEF Exists
<1>2. meta' \subseteq Exists'
  BY <1>1 DEF VectorsKept
<1>3. InsertOK'
  <2> SUFFICES ASSUME NEW b \in Client, pc'[b] = "insert"
               PROVE  /\ row'[mem'[b]] = Unborn
                      /\ \A a \in Client \ {b} : Busy(a)' => mem'[a] # mem'[b]
    BY DEF InsertOK
  <2>1. b # c /\ pc[b] = "insert" /\ mem'[b] = mem[b] /\ Busy(b) /\ mem[b] \in Memory
    BY DEF TypeOK, Busy
  <2>2. mem[b] # m /\ row[mem[b]] = Unborn
    BY <2>1 DEF VectorsKept, InsertOK
  <2>3. \A a \in Client \ {b} : Busy(a) => mem[a] # mem[b]
    BY <2>1 DEF VectorsKept, InsertOK
  <2> QED BY <2>1, <2>2, <2>3 DEF Busy
<1>4. \A w \in Worker : job'[w] = "embed" => row'[on'[w]] # Unborn
  BY Nulls DEF VectorsKept, TypeOK
<1>5. ASSUME NEW n \in Exists', "overlap" \notin lapses'[n], n # m PROVE InHand(n)'
  <2>1. InHand(n) /\ n \in Memory
    BY <1>1, <1>5 DEF VectorsKept, Exists
  <2>2. \A b \in Client : mem'[b] = n
                          /\ (pc'[b] = "embed" \/ (pc'[b] = "write" /\ gave'[b] = {}))
                          => new'[b] = row'[n]
    BY <1>5, <2>1 DEF InHand
  <2>3. \A w \in Worker : on'[w] = n /\ job'[w] = "embed" => doc'[w] = row'[n]
    BY <1>5, <2>1 DEF InHand
  <2>4. n \in meta' /\ "vector" \notin lapses'[n] => vec'[n] = row'[n]
    BY <1>5, <2>1 DEF InHand
  <2> QED BY <2>2, <2>3, <2>4 DEF InHand
<1>6. ASSUME "overlap" \notin lapses'[m] PROVE InHand(m)'
  <2>1. ~Overlap(c, m)
    BY <1>6 DEF Overlaps
  <2>2. \A b \in Client : mem'[b] = m => pc'[b] \notin {"embed", "write"}
    BY <2>1 DEF Overlap, Busy
  <2>3. \A w \in Worker : ~(on'[w] = m /\ job'[w] = "embed")
    BY <2>1 DEF Overlap
  <2> QED BY <1>6, <2>2, <2>3 DEF InHand
<1> QED BY <1>2, <1>3, <1>4, <1>5, <1>6 DEF VectorsKept

\* The steps of a call that pass on, and cuts, take nothing into hand.
LEMMA PassVectorsKept ==
    ASSUME TypeOK, VectorsKept, NEW c \in Client, Busy(c), NEW l, Goto(c, l),
           l \notin {"insert", "embed", "write"}, UNCHANGED <<row, vec, meta, thread>>,
           \A m \in Memory : lapses[m] \cap {"overlap", "vector"} \subseteq lapses'[m]
    PROVE  VectorsKept'
<1>1. \A b \in Client : /\ Busy(b)' => Busy(b) /\ mem'[b] = mem[b]
                        /\ pc'[b] \in {"insert", "embed", "write"} =>
                               pc'[b] = pc[b] /\ new'[b] = new[b] /\ gave'[b] = gave[b]
  BY DEF Goto, Busy, TypeOK
<1> QED BY <1>1, QuietVectorStep DEF thread

LEMMA StoreVectorsKept ==
    ASSUME TypeOK, VectorsKept, NEW c \in Client, Store(c) \/ Enqueue(c) \/ Cut(c)
    PROVE  VectorsKept'
<1>a. Busy(c) /\ mem[c] \in Memory /\ new[c] \in Doc
  BY DEF Store, StoreInsert, StoreEmbed, StoreEmbedFails, StoreChunk, StoreUnchunked,
         Enqueue, Cut, Busy, TypeOK
<1>1. CASE StoreInsert(c)
  <2> DEFINE m == mem[c]
  <2>1. /\ row[m] = Unborn /\ m \notin Exists
        /\ \A b \in Client \ {c} : Busy(b) => mem[b] # m
    BY <1>1, Nulls DEF StoreInsert, VectorsKept, InsertOK, Exists
  <2>2. row' = [row EXCEPT ![m] = new[c]] /\ Exists' = Exists \cup {m}
    BY <1>1, <1>a DEF StoreInsert, Exists, TypeOK
  <2>3. \A b \in Client \ {c} : /\ pc'[b] = pc[b] /\ mem'[b] = mem[b]
                                /\ new'[b] = new[b] /\ gave'[b] = gave[b]
    BY <1>1 DEF StoreInsert, Goto
  <2>4. pc'[c] = "embed" /\ mem'[c] = m /\ new'[c] = new[c]
    BY <1>1 DEF StoreInsert, Goto, TypeOK
  <2>5. UNCHANGED <<vec, meta, lapses, job, on, doc>>
    BY <1>1 DEF StoreInsert, thread
  <2>6. meta' \subseteq Exists'
    BY <2>2, <2>5 DEF VectorsKept
  <2>7. InsertOK'
    BY <1>a, <2>1, <2>2, <2>3, <2>4 DEF VectorsKept, InsertOK, Busy, TypeOK
  <2>8. \A w \in Worker : job'[w] = "embed" => row'[on'[w]] # Unborn /\ on[w] # m
    BY <2>1, <2>2, <2>5 DEF VectorsKept, TypeOK
  <2>9. ASSUME NEW n \in Exists', n = m PROVE InHand(n)'
    <3>1. row'[n] = new[c] /\ n \notin meta'
      BY <1>a, <2>1, <2>2, <2>5, <2>9 DEF VectorsKept, TypeOK
    <3> QED BY <2>1, <2>3, <2>4, <2>5, <2>8, <2>9, <3>1 DEF InHand, Busy
  <2>10. ASSUME NEW n \in Exists', "overlap" \notin lapses'[n], n # m PROVE InHand(n)'
    <3>1. n \in Exists /\ InHand(n)
      BY <2>2, <2>5, <2>10 DEF VectorsKept
    <3>2. row'[n] = row[n]
      BY <2>2, <2>10, <3>1 DEF TypeOK, Exists
    <3> QED BY <2>3, <2>4, <2>5, <2>10, <3>1, <3>2 DEF InHand
  <2> QED BY <2>6, <2>7, <2>8, <2>9, <2>10 DEF VectorsKept
<1>2. CASE StoreEmbed(c)
  <2> DEFINE m == mem[c]
  <2>1. /\ m \in Exists /\ row' = row /\ row[m] \in Doc
        /\ vec' = [vec EXCEPT ![m] = new[c]] /\ meta' = meta \cup {m}
        /\ lapses' = [lapses EXCEPT ![m] = @ \cup Overlaps(c, m)]
    BY <1>2 DEF StoreEmbed, Exists, Note
  <2>2. UNCHANGED <<job, on, doc>>
    BY <1>2 DEF StoreEmbed, thread
  <2>3. \A b \in Client \ {c} : /\ pc'[b] = pc[b] /\ mem'[b] = mem[b]
                                /\ new'[b] = new[b] /\ gave'[b] = gave[b]
    BY <1>2 DEF StoreEmbed, Goto
  <2>4. pc'[c] = "chunk" /\ mem'[c] = m
    BY <1>2 DEF StoreEmbed, Goto, TypeOK
  <2>5. "overlap" \notin lapses'[m] => vec'[m] = row'[m]
    BY <1>2, <1>a, <2>1 DEF StoreEmbed, VectorsKept, InHand, TypeOK
  <2>6. Overlaps(c, m) \subseteq lapses'[m]
    BY <1>a, <2>1 DEF TypeOK
  <2>7. \A n \in Memory \ {m} : row'[n] = row[n] /\ vec'[n] = vec[n] /\ lapses'[n] = lapses[n]
    BY <2>1 DEF TypeOK
  <2> QED BY <1>a, <2>1, <2>2, <2>3, <2>4, <2>5, <2>6, <2>7, OwnWriteStep
<1>3. CASE StoreEmbedFails(c) \/ StoreUnchunked(c)
  <2>1. \E l \in {"chunk", "idle"} : Goto(c, l)
    BY <1>3 DEF StoreEmbedFails, StoreUnchunked
  <2>2. UNCHANGED <<row, vec, meta, thread, lapses>>
    BY <1>3 DEF StoreEmbedFails, StoreUnchunked, data
  <2> QED BY <1>a, <2>1, <2>2, PassVectorsKept
<1>4. CASE StoreChunk(c)
  <2>1. \A m \in Memory : lapses[m] \cap {"overlap", "vector"} \subseteq lapses'[m]
    BY <1>4 DEF StoreChunk, Note, TypeOK
  <2>2. Goto(c, "enqueue") /\ UNCHANGED <<row, vec, meta, thread>>
    BY <1>4 DEF StoreChunk
  <2> QED BY <1>a, <2>1, <2>2, PassVectorsKept
<1>5. CASE Enqueue(c)
  <2>1. Goto(c, "idle") /\ UNCHANGED <<row, vec, meta, thread, lapses>>
    BY <1>5 DEF Enqueue
  <2> QED BY <1>a, <2>1, PassVectorsKept
<1>6. CASE Cut(c)
  <2>1. \A m \in Memory : lapses[m] \cap {"overlap", "vector"} \subseteq lapses'[m]
    BY <1>6 DEF Cut, Note, TypeOK
  <2>2. Goto(c, "idle") /\ UNCHANGED <<row, vec, meta, thread>>
    BY <1>6 DEF Cut, data
  <2> QED BY <1>a, <2>1, <2>2, PassVectorsKept
<1> QED BY <1>1, <1>2, <1>3, <1>4, <1>5, <1>6 DEF Store

LEMMA UpdateVectorsKept ==
    ASSUME TypeOK, VectorsKept, NEW c \in Client, Update(c)
    PROVE  VectorsKept'
<1>a. Busy(c) /\ mem[c] \in Memory /\ new[c] \in Doc
  BY DEF Update, UpdateTags, UpdateEmbed, UpdateEmbedFails, UpdateNothing, UpdateLook,
         UpdateRechunk, Rewrite, Busy, TypeOK
<1> DEFINE m == mem[c]
<1>b. ASSUME Rewrite(c), NEW l \in {"idle", "look", "enqueue"}, Goto(c, l),
             UNCHANGED <<job, on, doc>>,
             meta' \ {m} = meta \ {m},
             \A n \in Memory \ {m} : vec'[n] = vec[n] /\ lapses'[n] = lapses[n],
             Overlaps(c, m) \subseteq lapses'[m],
             m \in meta' /\ lapses'[m] \cap {"overlap", "vector"} = {} => vec'[m] = new[c]
      PROVE  VectorsKept'
  <2>1. m \in Exists /\ row'[m] = new[c] /\ \A n \in Memory \ {m} : row'[n] = row[n]
    BY <1>a, <1>b DEF Rewrite, TypeOK
  <2>2. \A b \in Client \ {c} : /\ pc'[b] = pc[b] /\ mem'[b] = mem[b]
                                /\ new'[b] = new[b] /\ gave'[b] = gave[b]
    BY <1>b DEF Goto
  <2>3. pc'[c] \notin {"insert", "embed", "write"} /\ (Busy(c)' => mem'[c] = m)
    BY <1>b DEF Goto, Busy, TypeOK
  <2> QED BY <1>a, <1>b, <2>1, <2>2, <2>3, OwnWriteStep
<1>1. CASE UpdateTags(c)
  <2>1. Rewrite(c) /\ Goto(c, "idle") /\ UNCHANGED <<vec, meta, job, on, doc>>
    BY <1>1 DEF UpdateTags, thread
  <2>2. lapses' = [lapses EXCEPT ![m] = @ \cup Overlaps(c, m)]
    BY <1>1 DEF UpdateTags, Note
  <2>3. lapses'[m] = lapses[m] \cup Overlaps(c, m)
    BY <1>a, <2>2 DEF TypeOK
  <2>4. m \in meta /\ lapses'[m] \cap {"overlap", "vector"} = {} => vec[m] = new[c]
    BY <1>1, <2>3 DEF UpdateTags, Rewrite, VectorsKept, InHand
  <2>5. \A n \in Memory \ {m} : lapses'[n] = lapses[n]
    BY <2>2 DEF TypeOK
  <2> QED BY <1>b, <2>1, <2>3, <2>4, <2>5
<1>2. CASE UpdateEmbed(c)
  <2>1. Rewrite(c) /\ UNCHANGED <<job, on, doc>> /\ meta' = meta \cup {m}
    BY <1>2 DEF UpdateEmbed, thread
  <2>2. \E l \in {"idle", "look"} : Goto(c, l)
    BY <1>2 DEF UpdateEmbed
  <2>3. /\ lapses' = [lapses EXCEPT ![m] = (@ \ {"vector"}) \cup Overlaps(c, m)]
        /\ vec' = [vec EXCEPT ![m] = new[c]]
    BY <1>2 DEF UpdateEmbed
  <2>4. Overlaps(c, m) \subseteq lapses'[m] /\ vec'[m] = new[c]
    BY <1>a, <2>3 DEF TypeOK
  <2>5. \A n \in Memory \ {m} : vec'[n] = vec[n] /\ lapses'[n] = lapses[n]
    BY <2>3 DEF TypeOK
  <2> QED BY <1>b, <2>1, <2>2, <2>4, <2>5
<1>3. CASE UpdateEmbedFails(c)
  <2>1. Rewrite(c) /\ UNCHANGED <<meta, job, on, doc>>
    BY <1>3 DEF UpdateEmbedFails, thread
  <2>2. \E l \in {"idle", "enqueue"} : Goto(c, l)
    BY <1>3 DEF UpdateEmbedFails
  <2>3. vec' = [vec EXCEPT ![m] = None] /\ NoteRechunk(m, Overlaps(c, m) \cup {"vector"})
    BY <1>3 DEF UpdateEmbedFails
  <2>4. Overlaps(c, m) \subseteq lapses'[m] /\ "vector" \in lapses'[m]
    BY <1>a, <2>3 DEF NoteRechunk, Excuses, TypeOK
  <2>5. \A n \in Memory \ {m} : vec'[n] = vec[n] /\ lapses'[n] = lapses[n]
    BY <2>3 DEF NoteRechunk, Excuses, TypeOK
  <2> QED BY <1>b, <2>1, <2>2, <2>4, <2>5
<1>4. CASE UpdateNothing(c)
  <2>1. \E l \in {"idle", "look"} : Goto(c, l)
    BY <1>4 DEF UpdateNothing
  <2>2. UNCHANGED <<row, vec, meta, thread, lapses>>
    BY <1>4 DEF UpdateNothing, data
  <2> QED BY <1>a, <2>1, <2>2, PassVectorsKept
<1>5. CASE UpdateLook(c)
  <2>1. UNCHANGED <<row, vec, meta, job, on, doc, lapses>>
    BY <1>5 DEF UpdateLook, data, thread
  <2>2. \A b \in Client : /\ Busy(b)' => Busy(b) /\ mem'[b] = mem[b]
                          /\ pc'[b] \in {"insert", "embed", "write"} =>
                                 pc'[b] = pc[b] /\ new'[b] = new[b] /\ gave'[b] = gave[b]
    BY <1>5, <1>a DEF UpdateLook, Busy, TypeOK
  <2> QED BY <2>1, <2>2, QuietVectorStep
<1>6. CASE UpdateRechunk(c)
  <2>1. \E l \in {"idle", "enqueue"} : Goto(c, l)
    BY <1>6 DEF UpdateRechunk
  <2>2. NoteRechunk(m, Overlaps(c, m)) /\ UNCHANGED <<row, vec, meta, thread>>
    BY <1>6 DEF UpdateRechunk
  <2>3. \A n \in Memory : lapses[n] \cap {"overlap", "vector"} \subseteq lapses'[n]
    BY <2>2 DEF NoteRechunk, Excuses, TypeOK
  <2> QED BY <1>a, <2>1, <2>2, <2>3, PassVectorsKept
<1> QED BY <1>1, <1>2, <1>3, <1>4, <1>5, <1>6 DEF Update

LEMMA BeginVectorsKept ==
    ASSUME TypeOK, VectorsKept, NEW c \in Client, Call(c)
    PROVE  VectorsKept'
<1>1. ASSUME NEW m \in Memory, NEW d \in Doc, StoreLook(c, m, d) PROVE VectorsKept'
  <2>1. UNCHANGED <<row, vec, meta, lapses, job, on, doc>> /\ Exists' = Exists
    BY <1>1 DEF StoreLook, data, thread, Exists
  <2>2. \A b \in Client \ {c} : /\ pc'[b] = pc[b] /\ mem'[b] = mem[b]
                                /\ new'[b] = new[b] /\ gave'[b] = gave[b]
    BY <1>1 DEF StoreLook
  <2>3. /\ pc'[c] = "insert" /\ mem'[c] = m /\ row[m] = Unborn
        /\ \A b \in Client : mem[b] # m
    BY <1>1 DEF StoreLook, TypeOK
  <2>4. InsertOK'
    BY <2>1, <2>2, <2>3 DEF VectorsKept, InsertOK, Busy
  <2>5. ASSUME NEW n \in Exists', "overlap" \notin lapses'[n] PROVE InHand(n)'
    BY <2>1, <2>2, <2>3, <2>5 DEF VectorsKept, InHand
  <2> QED BY <2>1, <2>4, <2>5 DEF VectorsKept
<1>2. ASSUME NEW m \in Memory, NEW t \in Title \cup {None}, NEW x \in Text \cup {None},
             UpdateRead(c, m, t, x)
      PROVE  VectorsKept'
  <2>1. UNCHANGED <<row, vec, meta, lapses, job, on, doc>> /\ Exists' = Exists
    BY <1>2 DEF UpdateRead, data, thread, Exists
  <2>2. \A b \in Client \ {c} : /\ pc'[b] = pc[b] /\ mem'[b] = mem[b]
                                /\ new'[b] = new[b] /\ gave'[b] = gave[b]
    BY <1>2 DEF UpdateRead
  <2>3. pc'[c] = "write" /\ mem'[c] = m /\ m \in Exists /\ row[m] \in Doc
    BY <1>2 DEF UpdateRead, TypeOK, Exists
  <2>4. gave'[c] = {} => new'[c] = row[m]
    <3>a. gave'[c] = {f \in {"title", "content"} :
                         IF f = "title" THEN t # None ELSE x # None}
      BY <1>2 DEF UpdateRead, TypeOK
    <3>b. t # None => "title" \in gave'[c]
      BY <3>a
    <3>c. x # None => "content" \in gave'[c]
      BY <3>a
    <3>1. gave'[c] = {} => t = None /\ x = None
      BY <3>b, <3>c
    <3>2. t = None /\ x = None => new'[c] = [title |-> row[m].title, content |-> row[m].content]
      BY <1>2 DEF UpdateRead, TypeOK
    <3>3. row[m] = [title |-> row[m].title, content |-> row[m].content]
      BY <2>3 DEF Doc
    <3> QED BY <3>1, <3>2, <3>3
  <2>5. InsertOK'
    BY <2>1, <2>2, <2>3, Nulls DEF VectorsKept, InsertOK, Busy, Exists, TypeOK
  <2>6. ASSUME NEW n \in Exists', "overlap" \notin lapses'[n] PROVE InHand(n)'
    BY <2>1, <2>2, <2>3, <2>4, <2>6 DEF VectorsKept, InHand
  <2> QED BY <2>1, <2>5, <2>6 DEF VectorsKept
<1>3. ASSUME NEW m \in Memory, Delete(c, m) PROVE VectorsKept'
  <2>1. /\ m \in Exists /\ row' = [row EXCEPT ![m] = Gone] /\ Exists' = Exists \ {m}
        /\ vec' = [vec EXCEPT ![m] = None] /\ meta' = meta \ {m}
    BY <1>3, Nulls DEF Delete, Exists, TypeOK
  <2>2. UNCHANGED <<pc, mem, new, gave, job, on, doc, lapses>>
    BY <1>3 DEF Delete, thread
  <2>3. InsertOK'
    BY <2>1, <2>2, Nulls DEF VectorsKept, InsertOK, Busy, Exists, TypeOK
  <2>4. \A w \in Worker : job'[w] = "embed" => row'[on'[w]] # Unborn
    BY <2>1, <2>2, Nulls DEF VectorsKept, TypeOK
  <2>5. ASSUME NEW n \in Exists', "overlap" \notin lapses'[n] PROVE InHand(n)'
    <3>1. n \in Exists /\ n # m /\ InHand(n)
      BY <2>1, <2>2, <2>5 DEF VectorsKept
    <3>2. row'[n] = row[n] /\ vec'[n] = vec[n]
      BY <2>1, <3>1 DEF TypeOK, Exists
    <3> QED BY <2>1, <2>2, <3>1, <3>2 DEF InHand
  <2> QED BY <2>1, <2>3, <2>4, <2>5 DEF VectorsKept
<1> QED BY <1>1, <1>2, <1>3 DEF Call

\* A worker forgives nothing.
LEMMA WorkKeepsLapses ==
    ASSUME TypeOK, NEW w \in Worker,
           Run(w) \/ Stop(w) \/ Die(w) \/ \E m \in Memory : Claim(w, m)
    PROVE  \A n \in Memory : lapses[n] \subseteq lapses'[n]
<1>1. ASSUME NEW m, NEW L, Note(m, L) PROVE \A n \in Memory : lapses[n] \subseteq lapses'[n]
  BY <1>1 DEF Note, TypeOK
<1>2. CASE WriteChunks(w) \/ NoChunkVectors(w) \/ Stop(w)
  <2>1. \E m, L : Note(m, L)
    BY <1>2 DEF WriteChunks, NoChunkVectors, Stop
  <2> QED BY <1>1, <2>1
<1>3. CASE ~(WriteChunks(w) \/ NoChunkVectors(w) \/ Stop(w))
  <2>1. lapses' = lapses
    BY <1>3 DEF Run, ReadMemory, WriteVector, NoVector, ReadChunks, NoChunks, Die, Claim
  <2> QED BY <2>1
<1> QED BY <1>2, <1>3

LEMMA WorkVectorsKept ==
    ASSUME TypeOK, VectorsKept, NEW w \in Worker,
           Run(w) \/ Stop(w) \/ Die(w) \/ \E m \in Memory : Claim(w, m)
    PROVE  VectorsKept'
<1>a. UNCHANGED <<row, pc, mem, new, gave>> /\ Exists' = Exists
  BY DEF Run, ReadMemory, WriteVector, NoVector, ReadChunks, NoChunks, WriteChunks,
         NoChunkVectors, Stop, Die, Claim, data, call, Exists
<1>b. \A v \in Worker \ {w} : job'[v] = job[v] /\ on'[v] = on[v] /\ doc'[v] = doc[v]
  <2>1. CASE Run(w)
    BY <2>1 DEF Run, ReadMemory, WriteVector, NoVector, ReadChunks, NoChunks,
                WriteChunks, NoChunkVectors, Work, EndRound, TypeOK
  <2>2. CASE Stop(w) \/ Die(w) \/ \E m \in Memory : Claim(w, m)
    BY <2>2 DEF Stop, Die, Claim, Work, Finish, EndRound, TypeOK
  <2> QED BY <2>1, <2>2
<1>c. \A n \in Memory : lapses[n] \subseteq lapses'[n]
  BY WorkKeepsLapses
<1>d. ASSUME job'[w] # "embed", UNCHANGED <<vec, meta>> PROVE VectorsKept'
  BY <1>a, <1>b, <1>c, <1>d, QuietVectorStep DEF Busy
<1>1. CASE ReadMemory(w)
  <2>1. UNCHANGED <<vec, meta, lapses>>
    BY <1>1 DEF ReadMemory, data
  <2>2. job'[w] = "embed" => on'[w] \in Exists /\ doc'[w] = row[on'[w]]
    BY <1>1 DEF ReadMemory, Work, TypeOK
  <2>3. InsertOK'
    BY <1>a DEF VectorsKept, InsertOK, Busy
  <2>4. \A v \in Worker : job'[v] = "embed" => row'[on'[v]] # Unborn
    BY <1>a, <1>b, <2>2, Nulls DEF VectorsKept, Exists
  <2>5. ASSUME NEW n \in Exists', "overlap" \notin lapses'[n] PROVE InHand(n)'
    BY <1>a, <1>b, <2>1, <2>2, <2>5 DEF VectorsKept, InHand
  <2> QED BY <1>a, <2>1, <2>3, <2>4, <2>5 DEF VectorsKept
<1>2. CASE WriteVector(w)
  <2> DEFINE m == on[w]
  <2>1. /\ m \in Exists /\ m \in Memory /\ job[w] = "embed" /\ job'[w] = "chunks"
        /\ vec' = [vec EXCEPT ![m] = doc[w]] /\ meta' = meta \cup {m} /\ lapses' = lapses
    BY <1>2 DEF WriteVector, Work, Exists, TypeOK
  <2>2. InsertOK'
    BY <1>a DEF VectorsKept, InsertOK, Busy
  <2>3. \A v \in Worker : job'[v] = "embed" => row'[on'[v]] # Unborn
    BY <1>a, <1>b, <2>1 DEF VectorsKept
  <2>4. ASSUME NEW n \in Exists', "overlap" \notin lapses'[n] PROVE InHand(n)'
    <3>1. InHand(n) /\ n \in Memory
      BY <1>a, <2>1, <2>4 DEF VectorsKept, Exists
    <3>2. n = m => vec'[n] = row[n]
      BY <2>1, <3>1 DEF InHand, TypeOK
    <3>3. n # m => vec'[n] = vec[n]
      BY <2>1, <3>1 DEF TypeOK
    <3> QED BY <1>a, <1>b, <2>1, <3>1, <3>2, <3>3 DEF InHand
  <2> QED BY <1>a, <2>1, <2>2, <2>3, <2>4 DEF VectorsKept
<1>3. CASE NoVector(w) \/ ReadChunks(w) \/ NoChunks(w) \/ WriteChunks(w) \/ NoChunkVectors(w)
  <2>1. UNCHANGED <<vec, meta>>
    BY <1>3 DEF NoVector, ReadChunks, NoChunks, WriteChunks, NoChunkVectors, data
  <2>2. job'[w] # "embed"
    BY <1>3 DEF NoVector, ReadChunks, NoChunks, WriteChunks, NoChunkVectors, Work,
                EndRound, TypeOK
  <2> QED BY <1>d, <2>1, <2>2
<1>4. CASE Stop(w) \/ Die(w) \/ \E m \in Memory : Claim(w, m)
  <2>1. UNCHANGED <<vec, meta>>
    BY <1>4 DEF Stop, Die, Claim, data
  <2>2. job'[w] # "embed"
    BY <1>4 DEF Stop, Die, Claim, Work, Finish, EndRound, TypeOK
  <2> QED BY <1>d, <2>1, <2>2
<1> QED BY <1>1, <1>2, <1>3, <1>4 DEF Run

LEMMA NextVectorsKept == TypeOK /\ VectorsKept /\ [Next]_vars => VectorsKept'
<1>1. ASSUME TypeOK, VectorsKept, UNCHANGED vars PROVE VectorsKept'
  BY <1>1 DEF vars, data, call, thread, VectorsKept, InsertOK, InHand, Exists, Busy
<1> QED
  BY <1>1, BeginVectorsKept, StoreVectorsKept, UpdateVectorsKept, WorkVectorsKept
  DEF Next, Proceed

\* A memory that counts as embedded has the vector of its present title and
\* content, unless calls or runs on it overlapped or update()'s embedder raised,
\* for any number of memories, processes, workers and calls.
THEOREM VectorsCurrent == Spec => []VectorIsCurrent
<1>1. Init => TypeOK /\ VectorsKept
  BY InitTypeOK, InitVectorsKept
<1>2. TypeOK /\ VectorsKept /\ [Next]_vars => TypeOK' /\ VectorsKept'
  BY NextTypeOK, NextVectorsKept
<1> QED
  BY <1>1, <1>2, KeptIsCurrent, PTL DEF Spec
-----------------------------------------------------------------------------
(* Chunks and the content *)

\* m's chunk rows are what its content asks for.
Fits(m) ==
    IF chunks[m] = None THEN row[m].content \notin Long
    ELSE textOf[chunks[m]] = row[m].content /\ row[m].content \notin Short

\* Call c has written m's content, or not yet inserted its chunk rows.
Owes(c, m) == mem[c] = m /\ pc[c] \in {"embed", "chunk", "look", "rechunk"}

\* What c has in hand about m's content and chunk rows is still so.
Knows(c, m) ==
    /\ pc[c] \in {"embed", "chunk"} => new[c].content = row[m].content /\ chunks[m] = None
    /\ pc[c] \in {"look", "rechunk"} => new[c].content = row[m].content
    /\ pc[c] = "rechunk" => saw[c] = (chunks[m] # None)
    /\ pc[c] = "write" /\ "content" \notin gave[c] => new[c].content = row[m].content

Due(m) ==
    /\ \A c \in Client : mem[c] = m => Knows(c, m)
    /\ "cut" \in lapses[m] \/ (\E c \in Client : Owes(c, m)) \/ Fits(m)

\* ChunksFollowContent made inductive.
ChunksDue == \A m \in Exists : "overlap" \notin lapses[m] => Due(m)

LEMMA InitChunksDue == Init => ChunksDue
BY Nulls DEF Init, ChunksDue, Exists

LEMMA DueFollows == TypeOK /\ ChunksDue => ChunksFollowContent
<1> SUFFICES ASSUME ChunksDue, NEW m \in Exists, \A c \in Client : mem[c] # m,
                    lapses[m] \cap {"overlap", "cut"} = {}
             PROVE  Fits(m)
  BY DEF ChunksFollowContent, Fits
<1>1. Due(m)
  BY DEF ChunksDue
<1> QED BY <1>1 DEF Due, Owes

\* The calls that d is part of are as they were.
SameCall(d) == /\ pc'[d] = pc[d] /\ mem'[d] = mem[d] /\ new'[d] = new[d]
               /\ gave'[d] = gave[d] /\ saw'[d] = saw[d]

\* What m's chunk rows are due for depends on m's row, rows and calls alone; new
\* splits get new ids.
LEMMA SameDue ==
    ASSUME ChunksDue, NEW m \in Exists, "overlap" \notin lapses[m],
           row'[m] = row[m], chunks'[m] = chunks[m], lapses[m] \cap {"cut"} \subseteq lapses'[m],
           \A k : textOf[k] # None => textOf'[k] = textOf[k],
           \A c \in Client : mem'[c] = m => pc'[c] = "idle" \/ SameCall(c),
           \A c \in Client : Owes(c, m) => SameCall(c)
    PROVE  Due(m)'
<1>1. Due(m) /\ row[m].content \in Text
  BY DEF ChunksDue, Exists, Doc
<1>2. ASSUME NEW c \in Client, mem'[c] = m PROVE Knows(c, m)'
  <2>1. CASE pc'[c] = "idle"
    BY <2>1 DEF Knows
  <2>2. CASE SameCall(c)
    BY <1>1, <1>2, <2>2 DEF Due, Knows, SameCall
  <2> QED BY <1>2, <2>1, <2>2
<1>3. Fits(m) => Fits(m)'
  BY <1>1, Nulls DEF Fits
<1>4. (\E c \in Client : Owes(c, m)) => (\E c \in Client : Owes(c, m)')
  BY DEF Owes, SameCall
<1>5. "cut" \in lapses[m] => "cut" \in lapses'[m]
  OBVIOUS
<1> QED BY <1>1, <1>2, <1>3, <1>4, <1>5 DEF Due

\* Steps of workers and of clients that change no row, no content and no chunks.
LEMMA QuietDueStep ==
    ASSUME TypeOK, ChunksDue, UNCHANGED <<row, chunks, textOf, call>>,
           \A m \in Memory : lapses[m] \subseteq lapses'[m]
    PROVE  ChunksDue'
<1> SUFFICES ASSUME NEW m \in Exists', "overlap" \notin lapses'[m] PROVE Due(m)'
  BY DEF ChunksDue
<1>1. m \in Exists /\ m \in Memory
  BY DEF Exists
<1>2. \A c \in Client : SameCall(c)
  BY DEF call, SameCall
<1> QED BY <1>1, <1>2, SameDue

\* Steps of call c about m: what is due for the other memories stays.
LEMMA OwnDueStep ==
    ASSUME TypeOK, ChunksDue, NEW c \in Client, NEW m \in Memory, mem[c] = m \/ ~Busy(c),
           mem'[c] = m \/ pc'[c] = "idle",
           \A d \in Client \ {c} : SameCall(d),
           \A n \in Memory \ {m} : /\ row'[n] = row[n] /\ chunks'[n] = chunks[n]
                                   /\ lapses'[n] = lapses[n],
           \A k : textOf[k] # None => textOf'[k] = textOf[k],
           m \in Exists' /\ "overlap" \notin lapses'[m] => Due(m)'
    PROVE  ChunksDue'
<1> SUFFICES ASSUME NEW n \in Exists', "overlap" \notin lapses'[n], n # m PROVE Due(n)'
  BY DEF ChunksDue
<1>1. n \in Exists /\ n \in Memory
  BY DEF Exists
<1>2. \A d \in Client : mem'[d] = n => pc'[d] = "idle" \/ SameCall(d)
  OBVIOUS
<1>3. \A d \in Client : Owes(d, n) => SameCall(d)
  BY DEF Owes, Busy
<1> QED BY <1>1, <1>2, <1>3, SameDue

\* Where a step says who overlaps and nobody does, c alone is at work on m.
LEMMA AloneDue ==
    ASSUME NEW c \in Client, NEW m, Overlaps(c, m) \subseteq lapses'[m],
           "overlap" \notin lapses'[m], \A d \in Client \ {c} : SameCall(d),
           Knows(c, m)', "cut" \in lapses'[m] \/ Owes(c, m)' \/ Fits(m)'
    PROVE  Due(m)'
<1>1. \A d \in Client \ {c} : Busy(d) => mem[d] # m
  BY DEF Overlaps, Overlap
<1>2. ASSUME NEW d \in Client \ {c}, mem'[d] = m PROVE Knows(d, m)'
  <2>1. pc'[d] = "idle"
    BY <1>1, <1>2 DEF SameCall, Busy
  <2> QED BY <2>1 DEF Knows
<1> QED BY <1>2 DEF Due

LEMMA GotoIsOwn ==
    ASSUME TypeOK, NEW c \in Client, NEW l, Goto(c, l)
    PROVE  /\ \A d \in Client \ {c} : SameCall(d)
           /\ pc'[c] = l
           /\ l # "idle" => /\ mem'[c] = mem[c] /\ new'[c] = new[c]
                            /\ gave'[c] = gave[c] /\ saw'[c] = saw[c]
BY DEF TypeOK, Goto, SameCall

\* A call that leaves rows and chunk rows alone: it goes on with what it knows, or
\* ends and owes nothing.
LEMMA PassDue ==
    ASSUME TypeOK, ChunksDue, NEW c \in Client, NEW m \in Memory, mem[c] = m, NEW l, Goto(c, l),
           UNCHANGED <<row, chunks, textOf>>,
           \A n \in Memory \ {m} : lapses'[n] = lapses[n],
           lapses[m] \cap {"cut", "overlap"} \subseteq lapses'[m],
           m \in Exists /\ "overlap" \notin lapses[m] =>
               /\ l = "idle" \/ Knows(c, m)'
               /\ "cut" \in lapses'[m] \/ (Owes(c, m) => Owes(c, m)' \/ Fits(m))
    PROVE  ChunksDue'
<1>1. ASSUME m \in Exists', "overlap" \notin lapses'[m] PROVE Due(m)'
  <2>1. m \in Exists /\ "overlap" \notin lapses[m] /\ Due(m)
    BY <1>1 DEF Exists, ChunksDue
  <2>2. ASSUME NEW d \in Client, mem'[d] = m PROVE Knows(d, m)'
    <3>1. CASE d = c /\ l = "idle"
      BY <3>1, GotoIsOwn DEF Knows
    <3>2. CASE d = c /\ l # "idle"
      BY <2>1, <3>2
    <3>3. CASE d # c
      BY <2>1, <2>2, <3>3, GotoIsOwn DEF Due, Knows, SameCall
    <3> QED BY <3>1, <3>2, <3>3
  <2>3. Fits(m) => Fits(m)'
    BY DEF Fits
  <2>4. \A d \in Client \ {c} : Owes(d, m) => Owes(d, m)'
    BY GotoIsOwn DEF Owes, SameCall
  <2> QED BY <2>1, <2>2, <2>3, <2>4 DEF Due
<1> QED BY <1>1, GotoIsOwn, OwnDueStep

\* A new split is of m, under an id that had no text.
LEMMA ResplitIsOwn ==
    ASSUME TypeOK, NEW m \in Memory, NEW x, Resplit(m, x)
    PROVE  /\ \A n \in Memory \ {m} : chunks'[n] = chunks[n]
           /\ \A k : textOf[k] # None => textOf'[k] = textOf[k]
BY DEF Resplit, TypeOK

LEMMA ResplitFits ==
    ASSUME TypeOK, NEW m \in Memory, NEW x \in Text \ Short, Resplit(m, x), row'[m].content = x
    PROVE  Fits(m)'
<1>1. PICK k \in Split : /\ textOf' = [textOf EXCEPT ![k] = x]
                         /\ chunks' = [chunks EXCEPT ![m] = k]
  BY DEF Resplit
<1>2. chunks'[m] = k /\ textOf'[k] = x /\ k # None
  BY <1>1, Nulls DEF TypeOK
<1> QED BY <1>2 DEF Fits

LEMMA HysteresisIsOwn ==
    ASSUME TypeOK, NEW m \in Memory, NEW x, NEW had, NEW follows, Hysteresis(m, x, had, follows)
    PROVE  /\ \A n \in Memory \ {m} : chunks'[n] = chunks[n]
           /\ \A k : textOf[k] # None => textOf'[k] = textOf[k]
BY ResplitIsOwn DEF Hysteresis, TypeOK

\* The hysteresis gives a content the chunk rows it asks for, if it knows whether
\* there were any.
LEMMA HysteresisFits ==
    ASSUME TypeOK, NEW m \in Memory, NEW x \in Text, NEW had \in BOOLEAN, NEW follows \in BOOLEAN,
           Hysteresis(m, x, had, follows), had = (chunks[m] # None), row'[m].content = x
    PROVE  Fits(m)'
<1>1. CASE Resplit(m, x) /\ (had \/ x \in Long) /\ ~(had /\ x \in Short)
  <2>1. x \notin Short
    BY <1>1, Lengths
  <2> QED BY <1>1, <2>1, ResplitFits
<1>2. CASE had /\ x \in Short /\ chunks' = [chunks EXCEPT ![m] = None]
  <2>1. chunks'[m] = None /\ x \notin Long
    BY <1>2, Lengths DEF TypeOK
  <2> QED BY <2>1 DEF Fits
<1>3. CASE ~had /\ x \notin Long /\ UNCHANGED chunks
  BY <1>3 DEF Fits
<1> QED BY <1>1, <1>2, <1>3 DEF Hysteresis

LEMMA StoreDue ==
    ASSUME TypeOK, ChunksDue, ChunksServed, VectorsKept, NEW c \in Client,
           Store(c) \/ Enqueue(c) \/ Cut(c)
    PROVE  ChunksDue'
<1>a. Busy(c) /\ new[c] \in Doc
  BY DEF Store, StoreInsert, StoreEmbed, StoreEmbedFails, StoreChunk, StoreUnchunked,
         Enqueue, Cut, Busy, TypeOK
<1>b. PICK m \in Memory : m = mem[c]
  BY <1>a DEF TypeOK
<1>1. CASE StoreInsert(c)
  <2>1. /\ row[m] = Unborn /\ chunks[m] = None
        /\ \A b \in Client \ {c} : Busy(b) => mem[b] # m
    BY <1>1, <1>b, Nulls DEF StoreInsert, VectorsKept, InsertOK, ChunksServed, Exists
  <2>2. row'[m] = new[c] /\ \A n \in Memory \ {m} : row'[n] = row[n]
    BY <1>1, <1>b DEF StoreInsert, TypeOK
  <2>3. Goto(c, "embed") /\ UNCHANGED <<chunks, textOf, lapses>>
    BY <1>1 DEF StoreInsert
  <2>4. Due(m)'
    <3>1. Knows(c, m)' /\ Owes(c, m)'
      BY <1>b, <2>1, <2>2, <2>3, GotoIsOwn DEF Knows, Owes
    <3>2. ASSUME NEW d \in Client \ {c}, mem'[d] = m PROVE Knows(d, m)'
      BY <2>1, <2>3, <3>2, GotoIsOwn DEF Knows, SameCall, Busy
    <3> QED BY <3>1, <3>2 DEF Due
  <2> QED BY <1>b, <2>2, <2>3, <2>4, GotoIsOwn, OwnDueStep
<1>2. CASE StoreEmbed(c) \/ StoreEmbedFails(c)
  <2>1. Goto(c, "chunk") /\ UNCHANGED <<row, chunks, textOf>> /\ pc[c] = "embed"
    BY <1>2 DEF StoreEmbed, StoreEmbedFails, data
  <2>2. /\ \A n \in Memory \ {m} : lapses'[n] = lapses[n]
        /\ lapses[m] \subseteq lapses'[m]
    BY <1>2, <1>b DEF StoreEmbed, StoreEmbedFails, Note, TypeOK
  <2>3. ASSUME m \in Exists, "overlap" \notin lapses[m] PROVE Knows(c, m)' /\ Owes(c, m)'
    <3>1. Knows(c, m)
      BY <1>b, <2>3 DEF ChunksDue, Due
    <3> QED BY <1>b, <2>1, <3>1, GotoIsOwn DEF Knows, Owes
  <2> QED BY <1>b, <2>1, <2>2, <2>3, PassDue
<1>3. CASE StoreChunk(c)
  <2>1. /\ new[c].content \in Long /\ Resplit(m, new[c].content) /\ Goto(c, "enqueue")
        /\ UNCHANGED row /\ pc[c] = "chunk" /\ Note(m, Overlaps(c, m))
    BY <1>3, <1>b DEF StoreChunk
  <2>2. lapses'[m] = lapses[m] \cup Overlaps(c, m) /\ \A n \in Memory \ {m} : lapses'[n] = lapses[n]
    BY <2>1 DEF Note, TypeOK
  <2>3. ASSUME m \in Exists', "overlap" \notin lapses'[m] PROVE Due(m)'
    <3>1. new[c].content = row[m].content
      BY <1>b, <2>1, <2>2, <2>3 DEF ChunksDue, Due, Knows, Exists
    <3>a. new[c].content \in Text \ Short /\ row'[m].content = new[c].content
      BY <1>a, <2>1, <3>1, Lengths DEF Doc
    <3>2. Fits(m)'
      BY <2>1, <3>a, ResplitFits
    <3>3. Knows(c, m)'
      BY <2>1, GotoIsOwn DEF Knows
    <3> QED BY <2>1, <2>2, <2>3, <3>2, <3>3, GotoIsOwn, AloneDue
  <2> QED BY <1>b, <2>1, <2>2, <2>3, ResplitIsOwn, GotoIsOwn, OwnDueStep
<1>4. CASE StoreUnchunked(c)
  <2>1. Goto(c, "idle") /\ UNCHANGED <<row, chunks, textOf, lapses>> /\ pc[c] = "chunk"
        /\ new[c].content \notin Long
    BY <1>4 DEF StoreUnchunked, data
  <2>2. m \in Exists /\ "overlap" \notin lapses[m] => Fits(m)
    BY <1>b, <2>1 DEF ChunksDue, Due, Knows, Fits
  <2> QED BY <1>b, <2>1, <2>2, PassDue
<1>5. CASE Enqueue(c)
  <2>1. Goto(c, "idle") /\ UNCHANGED <<row, chunks, textOf, lapses>> /\ ~Owes(c, m)
    BY <1>5 DEF Enqueue, Owes
  <2> QED BY <1>b, <2>1, PassDue
<1>6. CASE Cut(c)
  <2>1. Goto(c, "idle") /\ UNCHANGED <<row, chunks, textOf>> /\ Note(m, {"cut"})
    BY <1>6, <1>b DEF Cut, data
  <2>2. lapses'[m] = lapses[m] \cup {"cut"} /\ \A n \in Memory \ {m} : lapses'[n] = lapses[n]
    BY <2>1 DEF Note, TypeOK
  <2> QED BY <1>b, <2>1, <2>2, PassDue
<1> QED BY <1>1, <1>2, <1>3, <1>4, <1>5, <1>6 DEF Store

LEMMA UpdateDue ==
    ASSUME TypeOK, ChunksDue, ChunksServed, NEW c \in Client, Update(c)
    PROVE  ChunksDue'
<1>a. Busy(c) /\ new[c] \in Doc
  BY DEF Update, UpdateTags, UpdateEmbed, UpdateEmbedFails, UpdateNothing, UpdateLook,
         UpdateRechunk, Rewrite, Busy, TypeOK
<1>b. PICK m \in Memory : m = mem[c]
  BY <1>a DEF TypeOK
<1>c. ASSUME Rewrite(c)
      PROVE  /\ m \in Exists /\ pc[c] = "write"
             /\ row'[m] = new[c] /\ \A n \in Memory \ {m} : row'[n] = row[n]
  BY <1>a, <1>b, <1>c DEF Rewrite, TypeOK
\* A rewrite that passes no content leaves it.
<1>d. ASSUME Rewrite(c), "content" \notin gave[c], Goto(c, "idle"), UNCHANGED <<chunks, textOf>>,
             \A n \in Memory \ {m} : lapses'[n] = lapses[n],
             Overlaps(c, m) \cup (lapses[m] \cap {"cut", "overlap"}) \subseteq lapses'[m]
      PROVE  ChunksDue'
  <2>1. ASSUME "overlap" \notin lapses'[m] PROVE Due(m)'
    <3>1. Due(m) /\ ~Overlap(c, m)
      BY <1>c, <1>d, <2>1 DEF ChunksDue, Overlaps
    <3>2. row'[m].content = row[m].content
      BY <1>b, <1>c, <1>d, <3>1 DEF Due, Knows
    <3>3. ~\E d \in Client : Owes(d, m)
      BY <1>c, <1>d, <3>1 DEF Owes, Overlap, Busy
    <3>4. Fits(m) => Fits(m)'
      BY <1>d, <3>2 DEF Fits
    <3>5. "cut" \in lapses'[m] \/ Fits(m)'
      BY <1>d, <3>1, <3>3, <3>4 DEF Due
    <3>6. Knows(c, m)'
      BY <1>d, GotoIsOwn DEF Knows
    <3> QED BY <1>d, <2>1, <3>5, <3>6, GotoIsOwn, AloneDue
  <2> QED BY <1>b, <1>c, <1>d, <2>1, GotoIsOwn, OwnDueStep
<1>1. CASE UpdateTags(c)
  <2>1. /\ Rewrite(c) /\ "content" \notin gave[c] /\ Goto(c, "idle") /\ UNCHANGED <<chunks, textOf>>
        /\ Note(m, Overlaps(c, m))
    BY <1>1, <1>b DEF UpdateTags
  <2>2. lapses'[m] = lapses[m] \cup Overlaps(c, m) /\ \A n \in Memory \ {m} : lapses'[n] = lapses[n]
    BY <2>1 DEF Note, TypeOK
  <2> QED BY <1>d, <2>1, <2>2
<1>2. CASE UpdateEmbed(c)
  <2>1. /\ Rewrite(c) /\ Goto(c, IF "content" \in gave[c] THEN "look" ELSE "idle")
        /\ UNCHANGED <<chunks, textOf>>
        /\ lapses' = [lapses EXCEPT ![m] = (@ \ {"vector"}) \cup Overlaps(c, m)]
    BY <1>2, <1>b DEF UpdateEmbed
  <2>2. /\ lapses'[m] = (lapses[m] \ {"vector"}) \cup Overlaps(c, m)
        /\ \A n \in Memory \ {m} : lapses'[n] = lapses[n]
    BY <2>1 DEF TypeOK
  <2>3. CASE "content" \notin gave[c]
    BY <1>d, <2>1, <2>2, <2>3
  <2>4. CASE "content" \in gave[c]
    <3>1. Goto(c, "look")
      BY <2>1, <2>4
    <3>2. Knows(c, m)' /\ Owes(c, m)'
      BY <1>b, <1>c, <2>1, <3>1, GotoIsOwn DEF Knows, Owes
    <3>3. "overlap" \notin lapses'[m] => Due(m)'
      BY <2>2, <3>1, <3>2, GotoIsOwn, AloneDue
    <3> QED BY <1>b, <1>c, <2>1, <2>2, <3>1, <3>3, GotoIsOwn, OwnDueStep
  <2> QED BY <2>3, <2>4
<1>3. CASE UpdateEmbedFails(c)
  <2>1. /\ Rewrite(c)
        /\ NoteRechunk(m, Overlaps(c, m) \cup {"vector"})
    BY <1>3, <1>b DEF UpdateEmbedFails
  <2>2. CASE "content" \notin gave[c]
    <3>1. Goto(c, "idle") /\ UNCHANGED <<chunks, textOf>>
      BY <1>3, <2>2 DEF UpdateEmbedFails
    <3>2. /\ lapses[m] \cup Overlaps(c, m) \subseteq lapses'[m]
          /\ \A n \in Memory \ {m} : lapses'[n] = lapses[n]
      BY <2>1, <3>1 DEF NoteRechunk, Excuses, TypeOK
    <3> QED BY <1>d, <2>1, <2>2, <3>1, <3>2
  <2>3. CASE "content" \in gave[c]
    <3>1. PICK follows \in BOOLEAN :
              /\ Hysteresis(m, new[c].content, chunks[m] # None, follows)
              /\ Goto(c, IF follows THEN "enqueue" ELSE "idle")
      BY <1>3, <1>b, <2>3 DEF UpdateEmbedFails
    <3>2. PICK l \in {"enqueue", "idle"} : Goto(c, l)
      BY <3>1
    <3>a. PICK had \in BOOLEAN : had = (chunks[m] # None)
      OBVIOUS
    <3>b. new[c].content \in Text /\ row'[m].content = new[c].content
      BY <1>a, <1>c, <2>1 DEF Doc
    <3>c. Hysteresis(m, new[c].content, had, follows)
      BY <3>1, <3>a
    <3>3. Fits(m)'
      BY <3>a, <3>b, <3>c, HysteresisFits
    <3>4. Knows(c, m)'
      BY <3>2, GotoIsOwn DEF Knows
    <3>5. /\ Overlaps(c, m) \subseteq lapses'[m]
          /\ \A n \in Memory \ {m} : lapses'[n] = lapses[n]
      BY <2>1 DEF NoteRechunk, Excuses, TypeOK
    <3>6. "overlap" \notin lapses'[m] => Due(m)'
      BY <3>2, <3>3, <3>4, <3>5, GotoIsOwn, AloneDue
    <3>7. /\ \A n \in Memory \ {m} : chunks'[n] = chunks[n]
          /\ \A k : textOf[k] # None => textOf'[k] = textOf[k]
      BY <3>1, HysteresisIsOwn
    <3> QED BY <1>b, <1>c, <2>1, <3>2, <3>5, <3>6, <3>7, GotoIsOwn, OwnDueStep
  <2> QED BY <2>2, <2>3
<1>4. CASE UpdateNothing(c)
  <2>1. PICK l \in {"look", "idle"} : Goto(c, l)
    BY <1>4 DEF UpdateNothing
  <2>2. UNCHANGED <<row, chunks, textOf, lapses>> /\ m \notin Exists
    BY <1>4, <1>b DEF UpdateNothing, data
  <2> QED BY <1>b, <2>1, <2>2, PassDue
<1>5. CASE UpdateLook(c)
  <2>1. UNCHANGED <<row, chunks, textOf, lapses, mem, new, gave>> /\ pc[c] = "look"
    BY <1>5 DEF UpdateLook, data
  <2>2. /\ \A d \in Client \ {c} : SameCall(d)
        /\ pc'[c] = "rechunk" /\ saw'[c] = (chunks[m] # None)
    BY <1>5, <1>b DEF UpdateLook, SameCall, TypeOK
  <2>3. ASSUME m \in Exists', "overlap" \notin lapses'[m] PROVE Due(m)'
    <3>1. Due(m)
      BY <2>1, <2>3 DEF ChunksDue, Exists
    <3>2. Knows(c, m)' /\ Owes(c, m)'
      BY <1>b, <2>1, <2>2, <3>1 DEF Due, Knows, Owes
    <3>3. \A d \in Client \ {c} : mem'[d] = m => Knows(d, m)'
      BY <2>1, <2>2, <3>1 DEF Due, Knows, SameCall
    <3> QED BY <3>2, <3>3 DEF Due
  <2> QED BY <1>b, <2>1, <2>2, <2>3, OwnDueStep
<1>6. CASE UpdateRechunk(c)
  <2>1. PICK follows \in BOOLEAN :
            /\ Hysteresis(m, new[c].content, saw[c], follows)
            /\ Goto(c, IF follows THEN "enqueue" ELSE "idle")
    BY <1>6, <1>b DEF UpdateRechunk
  <2>2. PICK l \in {"enqueue", "idle"} : Goto(c, l)
    BY <2>1
  <2>3. NoteRechunk(m, Overlaps(c, m)) /\ UNCHANGED row /\ pc[c] = "rechunk"
    BY <1>6, <1>b DEF UpdateRechunk
  <2>4. /\ Overlaps(c, m) \cup (lapses[m] \cap {"overlap"}) \subseteq lapses'[m]
        /\ \A n \in Memory \ {m} : lapses'[n] = lapses[n]
    BY <2>3 DEF NoteRechunk, Excuses, TypeOK
  <2>5. ASSUME m \in Exists', "overlap" \notin lapses'[m] PROVE Due(m)'
    <3>1. Knows(c, m)
      BY <1>b, <2>3, <2>4, <2>5 DEF ChunksDue, Due, Exists
    <3>2. saw[c] = (chunks[m] # None) /\ new[c].content = row'[m].content
      BY <2>3, <3>1 DEF Knows
    <3>a. new[c].content \in Text /\ saw[c] \in BOOLEAN
      BY <1>a DEF Doc, TypeOK
    <3>3. Fits(m)'
      BY <2>1, <3>2, <3>a, HysteresisFits
    <3>4. Knows(c, m)'
      BY <2>2, GotoIsOwn DEF Knows
    <3> QED BY <2>2, <2>4, <2>5, <3>3, <3>4, GotoIsOwn, AloneDue
  <2>6. /\ \A n \in Memory \ {m} : chunks'[n] = chunks[n]
        /\ \A k : textOf[k] # None => textOf'[k] = textOf[k]
    BY <2>1, HysteresisIsOwn
  <2> QED BY <1>b, <2>2, <2>3, <2>4, <2>5, <2>6, GotoIsOwn, OwnDueStep
<1> QED BY <1>1, <1>2, <1>3, <1>4, <1>5, <1>6 DEF Update

LEMMA BeginDue ==
    ASSUME TypeOK, ChunksDue, NEW c \in Client, Call(c)
    PROVE  ChunksDue'
<1>1. ASSUME NEW m \in Memory, NEW d \in Doc, StoreLook(c, m, d) PROVE ChunksDue'
  <2>1. UNCHANGED <<row, chunks, textOf, lapses>> /\ ~Busy(c) /\ row[m] = Unborn
    BY <1>1 DEF StoreLook, data
  <2>2. (\A b \in Client \ {c} : SameCall(b)) /\ mem'[c] = m
    BY <1>1 DEF StoreLook, SameCall, TypeOK
  <2>3. m \notin Exists'
    BY <2>1, Nulls DEF Exists
  <2> QED BY <2>1, <2>2, <2>3, OwnDueStep
<1>2. ASSUME NEW m \in Memory, NEW t \in Title \cup {None}, NEW x \in Text \cup {None},
             UpdateRead(c, m, t, x)
      PROVE  ChunksDue'
  <2>1. UNCHANGED <<row, chunks, textOf, lapses>> /\ ~Busy(c)
    BY <1>2 DEF UpdateRead, data
  <2>2. (\A b \in Client \ {c} : SameCall(b)) /\ mem'[c] = m /\ pc'[c] = "write"
    BY <1>2 DEF UpdateRead, SameCall, TypeOK
  <2>3. Knows(c, m)'
    <3>1. new'[c].content = IF x = None THEN row[m].content ELSE x
      BY <1>2 DEF UpdateRead, TypeOK
    <3>2. gave'[c] = {f \in {"title", "content"} : IF f = "title" THEN t # None ELSE x # None}
      BY <1>2 DEF UpdateRead, TypeOK
    <3>3. x # None => "content" \in gave'[c]
      BY <3>2
    <3> QED BY <2>1, <2>2, <3>1, <3>3 DEF Knows
  <2>4. ASSUME m \in Exists', "overlap" \notin lapses'[m] PROVE Due(m)'
    <3>1. Due(m)
      BY <2>1, <2>4 DEF ChunksDue, Exists
    <3>2. \A b \in Client \ {c} : mem'[b] = m => Knows(b, m)'
      BY <2>1, <2>2, <3>1 DEF Due, Knows, SameCall
    <3>3. \A b \in Client : Owes(b, m) => Owes(b, m)'
      BY <2>1, <2>2 DEF Owes, SameCall, Busy
    <3>4. Fits(m) => Fits(m)'
      BY <2>1 DEF Fits
    <3> QED BY <2>1, <2>3, <3>1, <3>2, <3>3, <3>4 DEF Due
  <2> QED BY <2>1, <2>2, <2>4, OwnDueStep
<1>3. ASSUME NEW m \in Memory, Delete(c, m) PROVE ChunksDue'
  <2>1. /\ row' = [row EXCEPT ![m] = Gone] /\ chunks' = [chunks EXCEPT ![m] = None]
        /\ ~Busy(c) /\ UNCHANGED <<textOf, lapses, pc, mem, new, gave, saw>>
    BY <1>3 DEF Delete
  <2>2. m \notin Exists'
    BY <2>1, Nulls DEF Exists, TypeOK
  <2>3. /\ \A n \in Memory \ {m} : row'[n] = row[n] /\ chunks'[n] = chunks[n]
        /\ \A b \in Client : SameCall(b)
        /\ pc'[c] = "idle"
    BY <2>1 DEF TypeOK, SameCall, Busy
  <2> QED BY <2>1, <2>2, <2>3, OwnDueStep
<1> QED BY <1>1, <1>2, <1>3 DEF Call

LEMMA WorkDue ==
    ASSUME TypeOK, ChunksDue, NEW w \in Worker,
           Run(w) \/ Stop(w) \/ Die(w) \/ \E m \in Memory : Claim(w, m)
    PROVE  ChunksDue'
<1>1. UNCHANGED <<row, chunks, textOf, call>>
  BY DEF Run, ReadMemory, WriteVector, NoVector, ReadChunks, NoChunks, WriteChunks,
         NoChunkVectors, Stop, Die, Claim, data
<1>2. \A n \in Memory : lapses[n] \subseteq lapses'[n]
  BY WorkKeepsLapses
<1> QED BY <1>1, <1>2, QuietDueStep

DueInv == TypeOK /\ ChunksServed /\ VectorsKept /\ ChunksDue

LEMMA NextDueInv == DueInv /\ [Next]_vars => DueInv'
<1> SUFFICES ASSUME DueInv, [Next]_vars PROVE DueInv'
  OBVIOUS
<1>1. TypeOK' /\ ChunksServed' /\ VectorsKept'
  BY NextTypeOK, NextChunksServed, NextVectorsKept DEF DueInv
<1>2. ASSUME UNCHANGED vars PROVE ChunksDue'
  <2>1. UNCHANGED <<row, chunks, textOf, call>> /\ UNCHANGED lapses
    BY <1>2 DEF vars, data
  <2> QED BY <2>1, QuietDueStep DEF DueInv
<1>3. ASSUME NEW c \in Client, Call(c) \/ Proceed(c) \/ Cut(c) PROVE ChunksDue'
  BY <1>3, BeginDue, StoreDue, UpdateDue DEF DueInv, Proceed
<1>4. ASSUME NEW w \in Worker, Run(w) \/ Stop(w) \/ Die(w) \/ \E m \in Memory : Claim(w, m)
      PROVE  ChunksDue'
  BY <1>4, WorkDue DEF DueInv
<1>5. ChunksDue'
  BY <1>2, <1>3, <1>4 DEF Next
<1> QED BY <1>1, <1>5 DEF DueInv

\* Between calls a memory's chunk rows are those of its content, and there are some
\* if it is long and none if it is short, unless calls overlapped or one was cut
\* short: whatever the order of stores, updates, failures of the embedder, deletes
\* and worker runs.
THEOREM ChunksFollow == Spec => []ChunksFollowContent
<1>1. Init => DueInv
  BY InitTypeOK, InitChunksServed, InitVectorsKept, InitChunksDue DEF DueInv
<1>2. DueInv => ChunksFollowContent
  BY DueFollows DEF DueInv
<1> QED BY <1>1, <1>2, NextDueInv, PTL DEF Spec
=============================================================================
