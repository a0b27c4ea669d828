--------------------------- MODULE EntitiesProofs ---------------------------
(***************************************************************************)
(* What TLAPS proves of Entities for any memories, texts, entities,        *)
(* payloads, clients, workers and --sync processes, and any number of      *)
(* calls, passes and failures.                                             *)
(***************************************************************************)
EXTENDS Entities, SequenceTheorems, TLAPS

-----------------------------------------------------------------------------
(* Payloads and writes *)

\* What an agent's payload is accepted as, or a model's answer cleaned to, has no
\* invalid items.
LEMMA AcceptedIsClean ==
    ASSUME NEW raw \in Payload, AgentAccepts(raw) PROVE raw \in Clean
BY PayloadsNameEntities DEF AgentAccepts, Clean

LEMMA CleanedIsClean ==
    ASSUME NEW raw \in Payload, NEW pay \in WorkerCleans(raw) PROVE pay \in Clean
<1>1. PICK E \in SUBSET (raw.ents \ {Bad}) : pay = [ents |-> E, rels |-> raw.rels \ {Bad}]
  BY DEF WorkerCleans
<1>2. E \in SUBSET Entity /\ raw.rels \ {Bad} \in SUBSET (Name \X Name)
  BY PayloadsNameEntities
<1> QED BY <1>1, <1>2 DEF Clean

\* write_extraction adds the payload's mentions and, of the memory written for,
\* relations between entities of the payload's names -- nothing if it is gone.
LEMMA WriteEffect ==
    ASSUME TypeOK, NEW m \in Memory, NEW pay \in Clean,
           NEW M, NEW R, Write(m, pay, M, R)
    PROVE  /\ count' \in [Entity -> Nat]
           /\ mentions' = (mentions \ M) \cup (IF Alive(m) THEN {m} \X pay.ents ELSE {})
           /\ \E new \in SUBSET [src : Entity, tgt : Entity, mem : {m}] :
                 /\ relations' = (relations \ R) \cup new
                 /\ \A r \in new : <<NameOf[r.src], NameOf[r.tgt]>> \in pay.rels
<1> DEFINE cnt  == [e \in Entity |-> IF e \in pay.ents THEN count[e] + 1 ELSE count[e]]
           ends == [n \in Name |-> Ends(n, pay, cnt)]
<1>1. count' = cnt /\ cnt \in [Entity -> Nat]
  BY DEF Write, TypeOK
<1>2. PICK f \in [Name -> Entity \cup {None}] :
        /\ \A n \in Name : IF ends[n] = {} THEN f[n] = None ELSE f[n] \in ends[n]
        /\ relations' = (relations \ R) \cup
              {[src |-> f[r[1]], tgt |-> f[r[2]], mem |-> m] :
                  r \in {r \in pay.rels : /\ Alive(m)
                                          /\ f[r[1]] # None /\ f[r[2]] # None}}
  BY DEF Write
<1> DEFINE new == {[src |-> f[r[1]], tgt |-> f[r[2]], mem |-> m] :
                      r \in {r \in pay.rels : /\ Alive(m)
                                              /\ f[r[1]] # None /\ f[r[2]] # None}}
<1>3. pay.rels \in SUBSET (Name \X Name) /\ pay.ents \in SUBSET Entity
  BY DEF Clean
<1>4. ASSUME NEW n \in Name, f[n] # None PROVE f[n] \in Entity /\ NameOf[f[n]] = n
  <2>1. f[n] \in Ends(n, pay, cnt)
    BY <1>2, <1>4
  <2> HIDE DEF cnt
  <2> QED BY <1>3, <2>1 DEF Ends
<1>5. ASSUME NEW r \in new
      PROVE  r \in [src : Entity, tgt : Entity, mem : {m}] /\ <<NameOf[r.src], NameOf[r.tgt]>> \in pay.rels
  <2>1. PICK q \in pay.rels : /\ f[q[1]] # None /\ f[q[2]] # None
                              /\ r = [src |-> f[q[1]], tgt |-> f[q[2]], mem |-> m]
    BY <1>5
  <2>2. q[1] \in Name /\ q[2] \in Name /\ q = <<q[1], q[2]>>
    BY <1>3
  <2>3. /\ f[q[1]] \in Entity /\ NameOf[f[q[1]]] = q[1]
        /\ f[q[2]] \in Entity /\ NameOf[f[q[2]]] = q[2]
    BY <1>4, <2>1, <2>2
  <2>4. r.src = f[q[1]] /\ r.tgt = f[q[2]]
    BY <2>1
  <2> QED BY <2>1, <2>2, <2>3, <2>4
<1>6. relations' = (relations \ R) \cup new /\ new \in SUBSET [src : Entity, tgt : Entity, mem : {m}]
  BY <1>2, <1>5
<1>7. mentions' = (mentions \ M) \cup (IF Alive(m) THEN {m} \X pay.ents ELSE {})
  BY DEF Write
<1> HIDE DEF new
<1> QED BY <1>1, <1>5, <1>6, <1>7

-----------------------------------------------------------------------------
(* Types *)

\* A call or a task that is under way has its memory.
InHand ==
    /\ \A p \in Client : call[p].kind # "none" => call[p].mem \in Memory
    /\ \A w \in Worker : /\ job[w].kind \in {"extract", "applied"} => job[w].mem \in Memory
                         /\ job[w].kind = "none" => job[w] = NoJob

Typed == TypeOK /\ InHand

LEMMA InitTyped == Init => Typed
BY PayloadsNameEntities, EmptySeq
DEF Init, Typed, TypeOK, InHand, NoCall, NoJob, NoPass, Actor

\* What is queued when a call ends.
LEMMA EnqueueType ==
    ASSUME TypeOK, NEW m \in Memory, Enqueue(m) PROVE queue' \in Seq(Memory \cup {Dedup})
BY AppendProperties DEF TypeOK, Enqueue

\* The graph columns after a write on behalf of a memory, whatever of its own rows go.
LEMMA WriteType ==
    ASSUME TypeOK, NEW m \in Memory, NEW pay \in Clean, NEW M, NEW R,
           Write(m, pay, M, R), content' = content
    PROVE  /\ count' \in [Entity -> Nat]
           /\ mentions' \subseteq {n \in Memory : Alive(n)'} \X Entity
           /\ relations' \subseteq [src : Entity, tgt : Entity, mem : Memory \cup {None}]
<1>1. PICK new \in SUBSET [src : Entity, tgt : Entity, mem : {m}] : relations' = (relations \ R) \cup new
  BY WriteEffect
<1>2. relations' \subseteq [src : Entity, tgt : Entity, mem : Memory \cup {None}]
  BY <1>1 DEF TypeOK
<1>3. mentions' = (mentions \ M) \cup (IF Alive(m) THEN {m} \X pay.ents ELSE {}) /\ count' \in [Entity -> Nat]
  BY WriteEffect
<1>4. mentions' \subseteq {n \in Memory : Alive(n)'} \X Entity
  BY <1>3 DEF TypeOK, Clean, Alive
<1> QED BY <1>2, <1>3, <1>4

LEMMA ClientTyped ==
    ASSUME Typed, NEW p \in Client, NEW m \in Memory, NEW c \in Text,
           NEW raw \in Payload \cup {None}, StoreRow(p, m, c, raw) \/ UpdateRow(p, m, c, raw)
    PROVE  Typed'
<1>1. Cleaned(raw) \in Clean \cup {None}
  BY AcceptedIsClean DEF Cleaned, StoreRow, UpdateRow
<1>2. CASE StoreRow(p, m, c, raw)
  BY <1>1, <1>2, PayloadsNameEntities, NullsAreNew
  DEF StoreRow, Calls, Typed, TypeOK, InHand, Alive, NoCall
<1>3. CASE UpdateRow(p, m, c, raw)
  BY <1>1, <1>3, PayloadsNameEntities, NullsAreNew
  DEF UpdateRow, Calls, Typed, TypeOK, InHand, Alive, NoCall
<1> QED BY <1>2, <1>3

LEMMA FinishTyped ==
    ASSUME Typed, NEW p \in Client, FinishStore(p) \/ FinishUpdate(p)
    PROVE  Typed'
<1> DEFINE m == call[p].mem
           pay == call[p].pay
<1>1. m \in Memory /\ pay \in Clean \cup {None} /\ content' = content
  BY DEF FinishStore, FinishUpdate, Typed, TypeOK, InHand
<1>2. /\ count' \in [Entity -> Nat]
      /\ mentions' \subseteq {n \in Memory : Alive(n)'} \X Entity
      /\ relations' \subseteq [src : Entity, tgt : Entity, mem : Memory \cup {None}]
      /\ queue' \in Seq(Memory \cup {Dedup})
  <2>1. CASE pay # None
    <3>1. pay \in Clean /\ queue' = queue
      BY <1>1, <2>1 DEF FinishStore, FinishUpdate
    <3>2. Write(m, pay, {}, {}) \/ Write(m, pay, MentionsOf(m), RelationsOf(m))
      BY <2>1 DEF FinishStore, FinishUpdate, Replace
    <3> HIDE DEF m, pay
    <3> QED BY <1>1, <3>1, <3>2, WriteType DEF Typed, TypeOK
  <2>2. CASE pay = None
    <3>1. Enqueue(m) /\ UNCHANGED <<mentions, relations, count>>
      BY <2>2 DEF FinishStore, FinishUpdate
    <3>2. queue' \in Seq(Memory \cup {Dedup})
      BY <1>1, <3>1, EnqueueType DEF Typed
    <3> QED BY <1>1, <3>1, <3>2 DEF Typed, TypeOK, Alive
  <2> QED BY <2>1, <2>2
<1>3. read' \in [Memory -> {None, "read", Given, Lost}]
  BY <1>1 DEF FinishStore, FinishUpdate, Replace, Typed, TypeOK
<1>4. replaced' \in [Memory -> Clean \cup {None}]
  BY <1>1 DEF FinishStore, FinishUpdate, Replace, Typed, TypeOK
<1>5. /\ call' = [call EXCEPT ![p] = NoCall]
      /\ UNCHANGED <<content, canonical, job, pass, locked, confirmed, calls, passes, trouble>>
  BY DEF FinishStore, FinishUpdate
<1> HIDE DEF m, pay
<1> QED BY <1>2, <1>3, <1>4, <1>5 DEF Typed, TypeOK, InHand, NoCall

LEMMA UpdateGraphTyped ==
    ASSUME Typed, NEW p \in Client, NEW m \in Memory, NEW raw \in Payload, UpdateGraph(p, m, raw)
    PROVE  Typed'
<1>1. raw \in Clean
  BY AcceptedIsClean DEF UpdateGraph
<1>2. Write(m, raw, MentionsOf(m), RelationsOf(m)) /\ content' = content
  BY DEF UpdateGraph, Replace
<1>3. /\ count' \in [Entity -> Nat]
      /\ mentions' \subseteq {n \in Memory : Alive(n)'} \X Entity
      /\ relations' \subseteq [src : Entity, tgt : Entity, mem : Memory \cup {None}]
  BY <1>1, <1>2, WriteType DEF Typed
<1>4. /\ read' \in [Memory -> {None, "read", Given, Lost}]
      /\ replaced' \in [Memory -> Clean \cup {None}]
  BY <1>1 DEF UpdateGraph, Replace, Typed, TypeOK
<1> QED
  BY <1>3, <1>4, PayloadsNameEntities DEF UpdateGraph, Calls, Typed, TypeOK, InHand

LEMMA DeleteTyped ==
    ASSUME Typed, NEW m \in Memory, Delete(m)
    PROVE  Typed'
<1>1. relations' \subseteq [src : Entity, tgt : Entity, mem : Memory \cup {None}]
  BY DEF Delete, RelationsOf, Orphaned, Typed, TypeOK
<1>2. mentions' \subseteq {n \in Memory : Alive(n)'} \X Entity
  <2>1. \A n \in Memory \ {m} : Alive(n) => Alive(n)'
    BY DEF Delete, Typed, TypeOK, Alive
  <2> QED BY <2>1 DEF Delete, MentionsOf, Typed, TypeOK
<1> QED
  BY <1>1, <1>2, PayloadsNameEntities DEF Delete, Calls, Typed, TypeOK, InHand

LEMMA CallCutTyped ==
    ASSUME Typed, NEW p \in Client, CallCut(p)
    PROVE  Typed'
<1>1. read' \in [Memory -> {None, "read", Given, Lost}]
  BY DEF CallCut, Typed, TypeOK
<1>3. call' \in [Client -> [kind : {"none", "store", "update"},
                           mem : Memory \cup {None}, pay : Clean \cup {None}]]
  BY DEF CallCut, Typed, TypeOK, NoCall
<1>4. trouble' \in 0..MaxTrouble
  BY PayloadsNameEntities DEF CallCut, Typed, TypeOK
<1>2. InHand'
  BY DEF CallCut, Typed, TypeOK, InHand, NoCall
<1> QED BY <1>1, <1>2, <1>3, <1>4 DEF CallCut, Typed, TypeOK, graph, Alive

\* A row of the queue is a memory or the dedup row, and leaves or joins it whole.
LEMMA QueueMoves ==
    ASSUME TypeOK
    PROVE  /\ queue # <<>> => /\ Head(queue) \in Memory \cup {Dedup}
                              /\ Tail(queue) \in Seq(Memory \cup {Dedup})
           /\ \A x \in Memory \cup {Dedup} : /\ Append(queue, x) \in Seq(Memory \cup {Dedup})
                                             /\ <<x>> \o queue \in Seq(Memory \cup {Dedup})
<1> queue \in Seq(Memory \cup {Dedup})
  BY DEF TypeOK
<1> QED BY HeadTailProperties, AppendProperties, ConcatProperties

\* A worker's row: what it may be, and what one worker's step leaves of all of them.
Jobs == [kind : {"none", "extract", "applied", "dedup"},
         mem : Memory \cup {None}, text : Text \cup {None}, tries : 0..2]
InJob(j) == /\ j.kind \in {"extract", "applied"} => j.mem \in Memory
            /\ j.kind = "none" => j = NoJob
JobsTyped == job \in [Worker -> Jobs] /\ \A w \in Worker : InJob(job[w])

LEMMA TypedJobs == Typed => JobsTyped
BY DEF Typed, TypeOK, InHand, JobsTyped, Jobs, InJob

LEMMA IdleJob == NoJob \in Jobs /\ InJob(NoJob)
BY DEF NoJob, Jobs, InJob

LEMMA JobStep ==
    ASSUME JobsTyped, NEW w \in Worker, NEW j \in Jobs, InJob(j), job' = [job EXCEPT ![w] = j]
    PROVE  JobsTyped'
BY DEF JobsTyped

LEMMA TaskTyped ==
    ASSUME Typed, NEW w \in Worker,
           Claim(w) \/ ReadText(w) \/ Malformed(w) \/ MarkDone(w)
    PROVE  Typed'
<1>1. queue' \in Seq(Memory \cup {Dedup})
  BY QueueMoves DEF Claim, ReadText, Malformed, MarkDone, Typed, TypeOK
<1>2. JobsTyped'
  <2>1. JobsTyped /\ job[w] \in Jobs /\ InJob(job[w])
    BY TypedJobs DEF JobsTyped
  <2>2. CASE Claim(w)
    <3> DEFINE j == IF Head(queue) = Dedup
                    THEN [kind |-> "dedup", mem |-> None, text |-> None, tries |-> 0]
                    ELSE [kind |-> "extract", mem |-> Head(queue), text |-> None, tries |-> 0]
    <3>1. Head(queue) # Dedup => Head(queue) \in Memory
      BY <2>2, QueueMoves DEF Claim, Typed
    <3>2. j \in Jobs /\ InJob(j)
      BY <3>1 DEF Jobs, InJob
    <3>3. [NoJob EXCEPT !.kind = "dedup"] = [kind |-> "dedup", mem |-> None, text |-> None, tries |-> 0]
      BY DEF NoJob
    <3>4. job' = [job EXCEPT ![w] = j]
      BY <2>2, <3>3 DEF Claim
    <3> HIDE DEF j
    <3> QED BY <2>1, <3>2, <3>4, JobStep
  <2>3. CASE ReadText(w)
    <3> DEFINE j == IF Alive(job[w].mem)
                    THEN [kind |-> job[w].kind, mem |-> job[w].mem,
                          text |-> content[job[w].mem], tries |-> job[w].tries]
                    ELSE NoJob
    <3>1. [job[w] EXCEPT !.text = content[job[w].mem]] =
            [kind |-> job[w].kind, mem |-> job[w].mem,
             text |-> content[job[w].mem], tries |-> job[w].tries]
      BY <2>1 DEF Jobs
    <3>3. job' = [job EXCEPT ![w] = j]
      BY <2>3, <3>1 DEF ReadText
    <3>2. j \in Jobs /\ InJob(j)
      BY <2>1, <2>3, IdleJob DEF ReadText, Jobs, InJob, Alive
    <3> HIDE DEF j
    <3> QED BY <2>1, <3>2, <3>3, JobStep
  <2>4. CASE Malformed(w)
    <3> DEFINE j == IF job[w].tries = 0
                    THEN [kind |-> job[w].kind, mem |-> job[w].mem, text |-> job[w].text, tries |-> 1]
                    ELSE NoJob
    <3>1. job' = [job EXCEPT ![w] = j]
      BY <2>1, <2>4 DEF Malformed, Jobs, JobsTyped
    <3>2. j \in Jobs /\ InJob(j)
      BY <2>1, <2>4, IdleJob DEF Malformed, Jobs, InJob
    <3> HIDE DEF j
    <3> QED BY <2>1, <3>1, <3>2, JobStep
  <2>5. CASE MarkDone(w)
    BY <2>1, <2>5, IdleJob, JobStep DEF MarkDone
  <2> QED BY <2>2, <2>3, <2>4, <2>5
<1>3. read' \in [Memory -> {None, "read", Given, Lost}]
  BY DEF Claim, ReadText, Malformed, MarkDone, ReadAs, Typed, TypeOK
<1>4. trouble' \in 0..MaxTrouble
  BY PayloadsNameEntities DEF Claim, ReadText, Malformed, MarkDone, Typed, TypeOK
<1>5. UNCHANGED <<graph, canonical, call, pass, locked, confirmed, replaced, calls, passes>>
  BY DEF Claim, ReadText, Malformed, MarkDone
<1> QED
  BY <1>1, <1>2, <1>3, <1>4, <1>5
  DEF Typed, TypeOK, InHand, graph, Alive, JobsTyped, Jobs, InJob

LEMMA ExtractTyped ==
    ASSUME Typed, NEW w \in Worker, NEW raw \in Payload, Extract(w, raw)
    PROVE  Typed'
<1> DEFINE m == job[w].mem
           j == [kind |-> "applied", mem |-> m, text |-> job[w].text, tries |-> job[w].tries]
<1>1. m \in Memory /\ content' = content
  BY DEF Extract, Typed, InHand
<1>2. PICK pay \in WorkerCleans(raw) : Write(m, pay, {}, {})
  BY DEF Extract
<1>3. pay \in Clean
  BY CleanedIsClean
<1>4. JobsTyped'
  <2>1. JobsTyped /\ job[w] \in Jobs
    BY TypedJobs DEF JobsTyped
  <2>2. j \in Jobs /\ InJob(j)
    BY <1>1, <2>1 DEF Jobs, InJob
  <2>3. [job[w] EXCEPT !.kind = "applied"] = j
    BY <2>1 DEF Jobs
  <2>4. job' = [job EXCEPT ![w] = [job[w] EXCEPT !.kind = "applied"]]
    BY DEF Extract
  <2> HIDE DEF j
  <2> QED BY <2>1, <2>2, <2>3, <2>4, JobStep
<1>5. read' \in [Memory -> {None, "read", Given, Lost}]
  BY DEF Extract, ReadAs, Typed, TypeOK
<1>6. UNCHANGED <<content, canonical, queue, call, pass, locked, confirmed, replaced,
                  calls, passes, trouble>>
  BY DEF Extract
<1> HIDE DEF m
<1>7. /\ count' \in [Entity -> Nat]
      /\ mentions' \subseteq {n \in Memory : Alive(n)'} \X Entity
      /\ relations' \subseteq [src : Entity, tgt : Entity, mem : Memory \cup {None}]
  BY <1>1, <1>2, <1>3, WriteType DEF Typed
<1> QED BY <1>4, <1>5, <1>6, <1>7 DEF Typed, TypeOK, InHand, JobsTyped, Jobs, InJob

LEMMA WorkerDiesTyped ==
    ASSUME Typed, NEW w \in Worker, WorkerDies(w)
    PROVE  Typed'
<1>1. (IF job[w].kind = "dedup" THEN Dedup ELSE job[w].mem) \in Memory \cup {Dedup}
  BY DEF WorkerDies, Typed, TypeOK, InHand
<1>2. queue' \in Seq(Memory \cup {Dedup})
  BY <1>1, QueueMoves DEF WorkerDies, Typed
<1>3. JobsTyped'
  BY TypedJobs, IdleJob, JobStep DEF WorkerDies
<1>4. pass' \in [Actor -> [on : BOOLEAN, todo : SUBSET (Entity \X Entity),
                           merges : [Entity -> Entity \cup {None}]]]
  BY DEF WorkerDies, Typed, TypeOK, NoPass, Actor
<1>5. locked' \in Actor \cup {None} /\ trouble' \in 0..MaxTrouble
  BY PayloadsNameEntities DEF WorkerDies, Typed, TypeOK
<1>6. UNCHANGED <<graph, canonical, call, confirmed, read, replaced, calls, passes>>
  BY DEF WorkerDies
<1> QED
  BY <1>2, <1>3, <1>4, <1>5, <1>6
  DEF Typed, TypeOK, InHand, graph, Alive, JobsTyped, Jobs, InJob

\* A pass, and what one actor's step leaves of all of them.
Passes == [on : BOOLEAN, todo : SUBSET (Entity \X Entity), merges : [Entity -> Entity \cup {None}]]

LEMMA PassUpdates ==
    ASSUME NEW q \in Passes, NEW t, NEW g
    PROVE  /\ [q EXCEPT !.todo = t] = [on |-> q.on, todo |-> t, merges |-> q.merges]
           /\ [q EXCEPT !.merges = g] = [on |-> q.on, todo |-> q.todo, merges |-> g]
BY DEF Passes

LEMMA PassStepTyped ==
    ASSUME pass \in [Actor -> Passes], NEW a \in Actor, NEW q \in Passes,
           pass' = [pass EXCEPT ![a] = q]
    PROVE  pass' \in [Actor -> Passes]
OBVIOUS

\* What a dedup pass does changes neither the graph nor the calls.
LEMMA PassTyped ==
    ASSUME Typed, NEW a \in Actor,
           \/ a \in Worker /\ WorkerPass(a)
           \/ a \in Cli /\ SyncPass(a)
           \/ Skip(a) \/ Merge(a) \/ EndPass(a) \/ PassRaises(a)
    PROVE  Typed'
<1>1. UNCHANGED <<graph, queue, call, read, replaced, calls>>
  BY DEF WorkerPass, SyncPass, Skip, Merge, EndPass, PassRaises
<1>2. pass' \in [Actor -> Passes]
  <2>1. pass \in [Actor -> Passes] /\ pass[a] \in Passes
    BY DEF Typed, TypeOK, Passes
  <2>2. CASE (a \in Worker /\ WorkerPass(a)) \/ (a \in Cli /\ SyncPass(a))
    <3> DEFINE q == [on |-> TRUE, todo |-> Pairs(Candidates), merges |-> [e \in Entity |-> None]]
    <3>1. q \in Passes
      BY DEF Pairs, Candidates, Passes
    <3>2. pass' = [pass EXCEPT ![a] = q]
      BY <2>2 DEF WorkerPass, SyncPass, Begin, NoPass
    <3> HIDE DEF q
    <3> QED BY <2>1, <3>1, <3>2, PassStepTyped
  <2>3. CASE Skip(a)
    <3>1. PICK x \in pass[a].todo : pass' = [pass EXCEPT ![a].todo = @ \ {x}]
      BY <2>3 DEF Skip
    <3> DEFINE q == [on |-> pass[a].on, todo |-> pass[a].todo \ {x}, merges |-> pass[a].merges]
    <3>2. [pass[a] EXCEPT !.todo = @ \ {x}] = q
      BY <2>1, PassUpdates
    <3>4. q \in Passes
      BY <2>1 DEF Passes
    <3>3. pass' = [pass EXCEPT ![a] = [pass[a] EXCEPT !.todo = @ \ {x}]]
      BY <3>1
    <3> HIDE DEF q
    <3> QED BY <2>1, <3>2, <3>3, <3>4, PassStepTyped
  <2>4. CASE Merge(a)
    <3>1. PICK x \in pass[a].todo :
            pass' = [pass EXCEPT ![a].todo = @ \ {x}, ![a].merges[x[2]] = x[1]]
      BY <2>4 DEF Merge
    <3> DEFINE q == [on |-> pass[a].on, todo |-> pass[a].todo \ {x},
                     merges |-> [pass[a].merges EXCEPT ![x[2]] = x[1]]]
    <3>2. x[1] \in Entity /\ x[2] \in Entity
      BY <2>1 DEF Passes
    <3>3. q \in Passes
      BY <2>1, <3>2 DEF Passes
    <3>4. pass' = [pass EXCEPT ![a] = q]
      <4> DEFINE t == pass[a].todo \ {x}
                 g == [pass[a].merges EXCEPT ![x[2]] = x[1]]
                 k == [on |-> pass[a].on, todo |-> t, merges |-> pass[a].merges]
      <4>1. [pass[a] EXCEPT !.todo = t] = k
        BY <2>1, PassUpdates
      <4>2. k \in Passes
        BY <2>1 DEF Passes
      <4>3. [k EXCEPT !.merges = g] = q
        <5>1. [k EXCEPT !.merges = g] = [on |-> k.on, todo |-> k.todo, merges |-> g]
          <6> HIDE DEF k, g
          <6> QED BY <4>2, PassUpdates
        <5> QED BY <5>1
      <4>4. pass' = [pass EXCEPT ![a] = [[pass[a] EXCEPT !.todo = t] EXCEPT !.merges = g]]
        BY <2>1, <3>1
      <4> HIDE DEF q, k
      <4> QED BY <4>1, <4>3, <4>4
    <3> HIDE DEF q
    <3> QED BY <2>1, <3>3, <3>4, PassStepTyped
  <2>5. CASE EndPass(a) \/ PassRaises(a)
    <3>1. NoPass \in Passes
      BY DEF NoPass, Passes
    <3> QED BY <2>1, <2>5, <3>1, PassStepTyped DEF EndPass, PassRaises, Release
  <2> QED BY <2>2, <2>3, <2>4, <2>5
<1>3. canonical' \in [Entity -> Entity \cup {None}]
  <2>1. UNCHANGED canonical \/ Commit(a)
    <3>1. CASE WorkerPass(a) \/ SyncPass(a) \/ Skip(a)
      BY <3>1 DEF WorkerPass, SyncPass, Skip
    <3>2. CASE Merge(a)
      BY <3>2 DEF Merge
    <3>3. CASE EndPass(a) \/ PassRaises(a)
      BY <3>3 DEF EndPass, PassRaises
    <3> QED BY <3>1, <3>2, <3>3
  <2>2. pass[a].merges \in [Entity -> Entity \cup {None}]
    BY DEF Typed, TypeOK
  <2> QED BY <2>1, <2>2 DEF Commit, Typed, TypeOK
<1>4. JobsTyped'
  <2>1. job' = job \/ (a \in Worker /\ job' = [job EXCEPT ![a] = NoJob])
    BY DEF WorkerPass, SyncPass, Skip, Merge, EndPass, PassRaises, Release
  <2>2. CASE job' = job
    BY <2>2, TypedJobs DEF JobsTyped
  <2>3. CASE a \in Worker /\ job' = [job EXCEPT ![a] = NoJob]
    BY <2>3, TypedJobs, IdleJob, JobStep
  <2> QED BY <2>1, <2>2, <2>3
<1>5. locked' \in Actor \cup {None} /\ passes' \in 0..MaxPasses /\ trouble' \in 0..MaxTrouble
  BY PayloadsNameEntities
  DEF WorkerPass, SyncPass, Skip, Merge, EndPass, PassRaises, Release, Typed, TypeOK
<1>6. confirmed' \subseteq Entity \X Entity
  BY DEF WorkerPass, SyncPass, Skip, Merge, EndPass, PassRaises, Typed, TypeOK
<1> QED
  BY <1>1, <1>2, <1>3, <1>4, <1>5, <1>6
  DEF Typed, TypeOK, InHand, graph, Alive, JobsTyped, Jobs, InJob, Passes

LEMMA DedupEnqueueTyped == Typed /\ DedupEnqueue => Typed'
<1> SUFFICES ASSUME Typed, DedupEnqueue PROVE Typed'
  OBVIOUS
<1>1. queue' \in Seq(Memory \cup {Dedup})
  BY QueueMoves DEF DedupEnqueue, Typed
<1>2. passes' \in 0..MaxPasses
  BY PayloadsNameEntities DEF DedupEnqueue, Typed, TypeOK
<1> QED BY <1>1, <1>2 DEF DedupEnqueue, Typed, TypeOK, InHand, graph, Alive

LEMMA NextTyped == Typed /\ [Next]_vars => Typed'
<1> SUFFICES ASSUME Typed, [Next]_vars PROVE Typed'
  OBVIOUS
<1>1. CASE \E p \in Client, m \in Memory, c \in Text, raw \in Payload \cup {None} :
              StoreRow(p, m, c, raw) \/ UpdateRow(p, m, c, raw)
  BY <1>1, ClientTyped
<1>2. CASE \E p \in Client, m \in Memory, raw \in Payload : UpdateGraph(p, m, raw)
  BY <1>2, UpdateGraphTyped
<1>3. CASE \E p \in Client : ClientStep(p)
  BY <1>3, FinishTyped DEF ClientStep
<1>4. CASE \E p \in Client : CallCut(p)
  BY <1>4, CallCutTyped
<1>5. CASE \E m \in Memory : Delete(m)
  BY <1>5, DeleteTyped
<1>6. CASE \E w \in Worker : Claim(w) \/ ReadText(w) \/ Malformed(w) \/ MarkDone(w)
  BY <1>6, TaskTyped
<1>7. CASE \E w \in Worker, raw \in Payload : Extract(w, raw)
  BY <1>7, ExtractTyped
<1>8. CASE \E w \in Worker : WorkerDies(w)
  BY <1>8, WorkerDiesTyped
<1>9. CASE \/ \E w \in Worker : WorkerPass(w)
           \/ \E s \in Cli : SyncPass(s)
           \/ \E a \in Actor : Skip(a) \/ Merge(a) \/ EndPass(a) \/ PassRaises(a)
  BY <1>9, PassTyped DEF Actor
<1>10. CASE DedupEnqueue
  BY <1>10, DedupEnqueueTyped
<1>11. CASE UNCHANGED vars
  BY <1>11 DEF vars, graph, Typed, TypeOK, InHand, Alive
<1> QED
  BY <1>1, <1>2, <1>3, <1>4, <1>5, <1>6, <1>7, <1>8, <1>9, <1>10, <1>11
  DEF Next, ExtractStep, PassStep

LEMMA AlwaysTyped == Spec => []Typed
BY InitTyped, NextTyped, PTL DEF Spec

\* Whatever agents, workers and passes run, fail or die, every variable has its
\* type: mention rows only of memories that exist, relations of them or of none.
THEOREM TypeCorrect == Spec => []TypeOK
<1>1. Typed => TypeOK
  BY DEF Typed
<1> QED BY <1>1, AlwaysTyped, PTL

-----------------------------------------------------------------------------
(* Merges *)

\* What a pass holds and has not committed is already what MergesAreConfirmed asks
\* of the database: its pairs are of one type and in order, its merges confirmed.
PassesAreConfirmed ==
    \A a \in Actor :
        /\ \A x \in pass[a].todo : x[1] < x[2] /\ TypeOf[x[1]] = TypeOf[x[2]]
        /\ \A e \in Entity : pass[a].merges[e] # None =>
              /\ pass[a].merges[e] < e /\ TypeOf[pass[a].merges[e]] = TypeOf[e]
              /\ <<pass[a].merges[e], e>> \in confirmed

MergesInv == Typed /\ PassesAreConfirmed /\ MergesAreConfirmed

LEMMA InitMerges == Init => MergesInv
<1> SUFFICES ASSUME Init PROVE PassesAreConfirmed /\ MergesAreConfirmed
  BY InitTyped DEF MergesInv
<1> QED BY DEF Init, NoPass, PassesAreConfirmed, MergesAreConfirmed

\* A pass begins with pairs in order, of one type, and nothing merged.
LEMMA BeginMerges ==
    ASSUME MergesInv, NEW a \in Actor, Begin(a), UNCHANGED <<canonical, confirmed>>
    PROVE  PassesAreConfirmed' /\ MergesAreConfirmed'
<1> DEFINE q == [on |-> TRUE, todo |-> Pairs(Candidates), merges |-> [e \in Entity |-> None]]
<1>1. pass' = [pass EXCEPT ![a] = q]
  BY DEF Begin, NoPass
<1>4. pass \in [Actor -> Passes]
  BY DEF MergesInv, Typed, TypeOK, Passes
<1>2. \A x \in q.todo : x[1] < x[2] /\ TypeOf[x[1]] = TypeOf[x[2]]
  BY DEF Pairs
<1>3. \A e \in Entity : q.merges[e] = None
  OBVIOUS
<1> HIDE DEF q
<1> QED BY <1>1, <1>2, <1>3, <1>4 DEF MergesInv, PassesAreConfirmed, MergesAreConfirmed

\* A confirmed pair joins the merges of its pass.
LEMMA MergeMerges ==
    ASSUME MergesInv, NEW a \in Actor, Merge(a)
    PROVE  PassesAreConfirmed' /\ MergesAreConfirmed'
<1>1. PICK x \in pass[a].todo :
        /\ confirmed' = confirmed \cup {x}
        /\ pass' = [pass EXCEPT ![a].todo = @ \ {x}, ![a].merges[x[2]] = x[1]]
  BY DEF Merge
<1>2. pass \in [Actor -> Passes] /\ pass[a] \in Passes /\ canonical' = canonical
  BY DEF Merge, MergesInv, Typed, TypeOK, Passes
<1>3. /\ x[1] \in Entity /\ x[2] \in Entity /\ x = <<x[1], x[2]>>
      /\ x[1] < x[2] /\ TypeOf[x[1]] = TypeOf[x[2]]
  BY <1>2 DEF Passes, MergesInv, PassesAreConfirmed
<1>4. ASSUME NEW b \in Actor
      PROVE  pass'[b].todo \subseteq pass[b].todo
  BY <1>1, <1>2 DEF Passes
<1>5. ASSUME NEW b \in Actor, NEW e \in Entity
      PROVE  pass'[b].merges[e] = pass[b].merges[e] \/ (pass'[b].merges[e] = x[1] /\ e = x[2])
  BY <1>1, <1>2 DEF Passes
<1>7. ASSUME NEW b \in Actor, NEW e \in Entity, pass'[b].merges[e] # None
      PROVE  LET f == pass'[b].merges[e]
             IN  f < e /\ TypeOf[f] = TypeOf[e] /\ <<f, e>> \in confirmed'
  <2>1. CASE pass'[b].merges[e] = pass[b].merges[e]
    <3>1. LET f == pass[b].merges[e]
          IN  f # None => f < e /\ TypeOf[f] = TypeOf[e] /\ <<f, e>> \in confirmed
      BY DEF MergesInv, PassesAreConfirmed
    <3>2. confirmed \subseteq confirmed'
      BY <1>1
    <3> QED BY <1>7, <2>1, <3>1, <3>2
  <2>2. CASE pass'[b].merges[e] = x[1] /\ e = x[2]
    <3>1. <<pass'[b].merges[e], e>> = x /\ x \in confirmed'
      BY <1>1, <1>3, <2>2
    <3> QED BY <1>3, <2>2, <3>1
  <2> QED BY <1>5, <2>1, <2>2
<1>8. ASSUME NEW b \in Actor, NEW y \in pass'[b].todo
      PROVE  y[1] < y[2] /\ TypeOf[y[1]] = TypeOf[y[2]]
  BY <1>4 DEF MergesInv, PassesAreConfirmed
<1>6. PassesAreConfirmed'
  BY <1>7, <1>8 DEF PassesAreConfirmed
<1> QED BY <1>1, <1>2, <1>6 DEF MergesInv, MergesAreConfirmed

\* A pass that ends, or dies, leaves its merges in the database or nothing of them.
LEMMA EndMerges ==
    ASSUME MergesInv, NEW a \in Actor, pass' = [pass EXCEPT ![a] = NoPass],
           Commit(a) \/ canonical' = canonical, confirmed' = confirmed
    PROVE  PassesAreConfirmed' /\ MergesAreConfirmed'
<1>1. pass \in [Actor -> Passes]
  BY DEF MergesInv, Typed, TypeOK, Passes
<1>2. PassesAreConfirmed'
  BY <1>1 DEF NoPass, MergesInv, PassesAreConfirmed
<1>3. MergesAreConfirmed'
  BY DEF Commit, MergesInv, PassesAreConfirmed, MergesAreConfirmed
<1> QED BY <1>2, <1>3

LEMMA NextMerges == MergesInv /\ [Next]_vars => MergesInv'
<1> SUFFICES ASSUME MergesInv, [Next]_vars PROVE PassesAreConfirmed' /\ MergesAreConfirmed'
  BY NextTyped DEF MergesInv
<1>1. CASE UNCHANGED <<pass, canonical, confirmed>>
  BY <1>1 DEF MergesInv, PassesAreConfirmed, MergesAreConfirmed
<1>2. CASE \E a \in Actor : \/ a \in Worker /\ WorkerPass(a)
                            \/ a \in Cli /\ SyncPass(a)
  BY <1>2, BeginMerges DEF WorkerPass, SyncPass
<1>3. ASSUME NEW a \in Actor, Skip(a) PROVE PassesAreConfirmed' /\ MergesAreConfirmed'
  <2>1. PICK x \in pass[a].todo : pass' = [pass EXCEPT ![a].todo = @ \ {x}]
    BY <1>3 DEF Skip
  <2>2. pass \in [Actor -> Passes]
    BY DEF MergesInv, Typed, TypeOK, Passes
  <2>3. \A b \in Actor : pass'[b].todo \subseteq pass[b].todo /\ pass'[b].merges = pass[b].merges
    BY <2>1, <2>2 DEF Passes
  <2> QED BY <1>3, <2>3 DEF Skip, MergesInv, PassesAreConfirmed, MergesAreConfirmed
<1>4. CASE \E a \in Actor : Merge(a)
  BY <1>4, MergeMerges
<1>5. CASE \E a \in Actor : \/ EndPass(a) \/ PassRaises(a)
                            \/ a \in Worker /\ WorkerDies(a)
  BY <1>5, EndMerges DEF EndPass, PassRaises, WorkerDies, Release
<1>6. \/ UNCHANGED <<pass, canonical, confirmed>>
      \/ \E a \in Actor : \/ a \in Worker /\ (WorkerPass(a) \/ WorkerDies(a))
                          \/ a \in Cli /\ SyncPass(a)
                          \/ Skip(a) \/ Merge(a) \/ EndPass(a) \/ PassRaises(a)
  <2>1. CASE UNCHANGED vars
    BY <2>1 DEF vars
  <2>2. CASE \E p \in Client :
               \/ \E m \in Memory, c \in Text, raw \in Payload \cup {None} :
                     StoreRow(p, m, c, raw) \/ UpdateRow(p, m, c, raw)
               \/ \E m \in Memory, raw \in Payload : UpdateGraph(p, m, raw)
               \/ FinishStore(p) \/ FinishUpdate(p) \/ CallCut(p)
    BY <2>2 DEF StoreRow, UpdateRow, UpdateGraph, FinishStore, FinishUpdate, CallCut
  <2>3. CASE \/ \E m \in Memory : Delete(m)
             \/ DedupEnqueue
             \/ \E w \in Worker : \/ Claim(w) \/ ReadText(w) \/ MarkDone(w) \/ Malformed(w)
                                  \/ \E raw \in Payload : Extract(w, raw)
    BY <2>3 DEF Delete, DedupEnqueue, Claim, ReadText, MarkDone, Malformed, Extract
  <2> QED BY <2>1, <2>2, <2>3 DEF Next, ClientStep, ExtractStep, PassStep, Actor
<1> QED BY <1>1, <1>2, <1>3, <1>4, <1>5, <1>6

\* However passes of the worker and of --sync overlap, whatever died or failed
\* half-way: an entity is merged only into an earlier one of its own type that the
\* model called the same.
THEOREM MergesConfirmed == Spec => []MergesAreConfirmed
<1>1. Spec => []MergesInv
  BY InitMerges, NextMerges, PTL DEF Spec
<1>2. MergesInv => MergesAreConfirmed
  BY DEF MergesInv
<1> QED BY <1>1, <1>2, PTL

-----------------------------------------------------------------------------
(* REPLACE *)

\* Nothing else is under way for m; m has what it was last given, and no more.
Untouched(m) == Alive(m) /\ ~Pending(m) /\ \A q \in Client : call[q].mem # m
Exact(m) ==
    /\ MentionsOf(m) = {m} \X replaced[m].ents
    /\ \A r \in RelationsOf(m) : <<NameOf[r.src], NameOf[r.tgt]>> \in replaced[m].rels

ReplaceInv == Typed /\ \A m \in Memory : replaced[m] # None => Untouched(m) /\ Exact(m)

\* A write for one memory leaves the rows of the others alone.
LEMMA WriteLeaves ==
    ASSUME TypeOK, NEW m \in Memory, NEW pay \in Clean,
           NEW M \in SUBSET MentionsOf(m), NEW R \in SUBSET RelationsOf(m), Write(m, pay, M, R),
           NEW n \in Memory, n # m
    PROVE  MentionsOf(n)' = MentionsOf(n) /\ RelationsOf(n)' = RelationsOf(n)
<1>1. mentions' = (mentions \ M) \cup (IF Alive(m) THEN {m} \X pay.ents ELSE {})
  BY WriteEffect
<1>2. PICK new \in SUBSET [src : Entity, tgt : Entity, mem : {m}] : relations' = (relations \ R) \cup new
  BY WriteEffect
<1>3. MentionsOf(n)' = MentionsOf(n)
  BY <1>1 DEF MentionsOf
<1>4. \A r \in new \cup R : r.mem = m
  BY DEF RelationsOf
<1>5. RelationsOf(n)' = RelationsOf(n)
  BY <1>2, <1>4 DEF RelationsOf
<1> QED BY <1>3, <1>5

\* REPLACE: the memory has what the payload names, as long as nothing else is
\* under way for it.
LEMMA ReplaceIsExact ==
    ASSUME TypeOK, NEW p \in Client, NEW m \in Memory, NEW pay \in Clean,
           Replace(p, m, pay), replaced'[m] # None
    PROVE  /\ Alive(m) /\ ~Pending(m) /\ \A q \in Client \ {p} : call[q].mem # m
           /\ Exact(m)'
<1>1. Alive(m) /\ ~Pending(m) /\ ~Shared(p, m) /\ replaced'[m] = pay
  BY DEF Replace, TypeOK
<1>2. Write(m, pay, MentionsOf(m), RelationsOf(m))
  BY DEF Replace
<1>3. mentions' = (mentions \ MentionsOf(m)) \cup ({m} \X pay.ents)
  BY <1>1, <1>2, WriteEffect
<1>4. PICK new \in SUBSET [src : Entity, tgt : Entity, mem : {m}] :
         /\ relations' = (relations \ RelationsOf(m)) \cup new
         /\ \A r \in new : <<NameOf[r.src], NameOf[r.tgt]>> \in pay.rels
  BY <1>2, WriteEffect
<1>5. MentionsOf(m)' = {m} \X pay.ents
  BY <1>3 DEF MentionsOf
<1>6. RelationsOf(m)' \subseteq new
  BY <1>4 DEF RelationsOf
<1> QED BY <1>1, <1>4, <1>5, <1>6 DEF Shared, Exact

\* What an action that writes nothing for n has to leave alone.
LEMMA StaysExact ==
    ASSUME ReplaceInv, NEW n \in Memory, replaced'[n] # None, replaced'[n] = replaced[n],
           MentionsOf(n)' = MentionsOf(n), RelationsOf(n)' = RelationsOf(n)
    PROVE  Untouched(n) /\ Exact(n)'
BY DEF ReplaceInv, Exact

LEMMA CallsStand ==
    ASSUME ReplaceInv, NEW p \in Client, NEW m \in Memory, NEW n \in Memory, replaced'[n] # None,
           \/ \E c \in Text, raw \in Payload \cup {None} : StoreRow(p, m, c, raw) \/ UpdateRow(p, m, c, raw)
           \/ CallCut(p)
    PROVE  Untouched(n)' /\ Exact(n)'
<1>1. CASE \E c \in Text, raw \in Payload \cup {None} : StoreRow(p, m, c, raw)
  <2>1. PICK c \in Text, raw \in Payload \cup {None} : StoreRow(p, m, c, raw)
    BY <1>1
  <2>2. Untouched(n) /\ Exact(n)'
    BY <2>1, StaysExact DEF StoreRow, MentionsOf, RelationsOf
  <2>3. n # m
    BY <2>1, <2>2, NullsAreNew DEF StoreRow, Untouched, Alive
  <2>4. Untouched(n)'
    BY <2>1, <2>2, <2>3 DEF StoreRow, Untouched, Alive, Pending, ReplaceInv, Typed, TypeOK
  <2> QED BY <2>2, <2>4
<1>2. CASE \E c \in Text, raw \in Payload \cup {None} : UpdateRow(p, m, c, raw)
  <2>1. PICK c \in Text, raw \in Payload \cup {None} : UpdateRow(p, m, c, raw)
    BY <1>2
  <2>2. n # m /\ replaced'[n] = replaced[n]
    BY <2>1 DEF UpdateRow, ReplaceInv, Typed, TypeOK
  <2>3. Untouched(n) /\ Exact(n)'
    BY <2>1, <2>2, StaysExact DEF UpdateRow, MentionsOf, RelationsOf
  <2>4. Untouched(n)'
    BY <2>1, <2>2, <2>3 DEF UpdateRow, Untouched, Alive, Pending, ReplaceInv, Typed, TypeOK
  <2> QED BY <2>3, <2>4
<1>3. CASE CallCut(p)
  <2>1. Untouched(n) /\ Exact(n)'
    BY <1>3, StaysExact DEF CallCut, graph, MentionsOf, RelationsOf
  <2>2. Untouched(n)'
    BY <1>3, <2>1, NullsAreNew
    DEF CallCut, graph, NoCall, Untouched, Alive, Pending, ReplaceInv, Typed, TypeOK
  <2> QED BY <2>1, <2>2
<1> QED BY <1>1, <1>2, <1>3

LEMMA DeleteStands ==
    ASSUME ReplaceInv, NEW m \in Memory, NEW n \in Memory, replaced'[n] # None, Delete(m)
    PROVE  Untouched(n)' /\ Exact(n)'
<1>1. n # m /\ replaced'[n] = replaced[n]
  BY DEF Delete, ReplaceInv, Typed, TypeOK
<1>2. MentionsOf(n)' = MentionsOf(n)
  BY <1>1 DEF Delete, MentionsOf
<1>3. RelationsOf(n)' = RelationsOf(n)
  <2>1. \A r \in Orphaned(m) : r.mem # n
    BY NullsAreNew DEF Orphaned
  <2>2. \A r \in RelationsOf(m) : r.mem # n
    BY <1>1 DEF RelationsOf
  <2>3. relations' = (relations \ RelationsOf(m)) \cup Orphaned(m)
    BY DEF Delete
  <2> HIDE DEF Orphaned
  <2> QED BY <2>1, <2>2, <2>3 DEF RelationsOf
<1>4. Untouched(n) /\ Exact(n)'
  BY <1>1, <1>2, <1>3, StaysExact
<1>5. Untouched(n)'
  BY <1>1, <1>4 DEF Delete, Untouched, Alive, Pending, ReplaceInv, Typed, TypeOK
<1> QED BY <1>4, <1>5

\* A call that ends queues a row for its own memory at most.
LEMMA EnqueueElse ==
    ASSUME TypeOK, NEW m \in Memory, NEW n \in Memory, n # m, ~Pending(n), job' = job,
           queue' = queue \/ queue' = Append(queue, m)
    PROVE  ~Pending(n)'
<1>1. queue \in Seq(Memory \cup {Dedup})
  BY DEF TypeOK
<1>2. CASE queue' = Append(queue, m)
  <2>1. /\ Len(queue') = Len(queue) + 1 /\ Len(queue) \in Nat
        /\ \A i \in 1..Len(queue) : queue'[i] = queue[i]
        /\ queue'[Len(queue) + 1] = m
    BY <1>1, <1>2, AppendProperties
  <2> HIDE <1>2
  <2>2. ASSUME NEW i \in 1..Len(queue') PROVE queue'[i] # n
    BY <2>1 DEF Pending
  <2> QED BY <2>2 DEF Pending
<1> QED BY <1>2 DEF Pending

LEMMA FinishesStand ==
    ASSUME ReplaceInv, NEW p \in Client, NEW n \in Memory, replaced'[n] # None,
           FinishStore(p) \/ FinishUpdate(p)
    PROVE  Untouched(n)' /\ Exact(n)'
<1> DEFINE m == call[p].mem
           pay == call[p].pay
<1>1. m \in Memory /\ pay \in Clean \cup {None}
  BY DEF FinishStore, FinishUpdate, ReplaceInv, Typed, TypeOK, InHand
<1>2. /\ call' = [call EXCEPT ![p] = NoCall]
      /\ UNCHANGED <<content, canonical, job, pass, locked, confirmed, calls, passes, trouble>>
  BY DEF FinishStore, FinishUpdate
<1>3. pay = None => /\ UNCHANGED <<mentions, relations, replaced>>
                    /\ queue' = queue \/ queue' = Append(queue, m)
  BY DEF FinishStore, FinishUpdate, Enqueue
<1>4. pay # None => /\ queue' = queue
                    /\ \/ Write(m, pay, {}, {}) /\ replaced' = replaced
                       \/ Replace(p, m, pay)
  BY DEF FinishStore, FinishUpdate
<1>5. call \in [Client -> [kind : {"none", "store", "update"},
                           mem : Memory \cup {None}, pay : Clean \cup {None}]]
  BY DEF ReplaceInv, Typed, TypeOK
<1>6. m = call[p].mem
  OBVIOUS
<1>7. TypeOK
  BY DEF ReplaceInv, Typed
<1> HIDE DEF m, pay
<1>8. CASE n # m
  <2>1. replaced'[n] = replaced[n]
    BY <1>1, <1>3, <1>4, <1>7, <1>8 DEF Replace, TypeOK
  <2>2. MentionsOf(n)' = MentionsOf(n) /\ RelationsOf(n)' = RelationsOf(n)
    <3>1. CASE pay = None
      BY <1>3, <3>1 DEF MentionsOf, RelationsOf
    <3>2. CASE pay # None
      <4>1. \/ Write(m, pay, {}, {})
            \/ Write(m, pay, MentionsOf(m), RelationsOf(m))
        BY <1>4, <3>2 DEF Replace
      <4> QED BY <1>1, <1>7, <1>8, <3>2, <4>1, WriteLeaves
    <3> QED BY <3>1, <3>2
  <2>3. Untouched(n) /\ Exact(n)'
    BY <2>1, <2>2, StaysExact
  <2>4. ~Pending(n)'
    BY <1>1, <1>2, <1>3, <1>4, <1>7, <1>8, <2>3, EnqueueElse DEF Untouched
  <2>5. Untouched(n)'
    BY <1>2, <1>5, <2>3, <2>4, NullsAreNew DEF Untouched, Alive, NoCall
  <2> QED BY <2>3, <2>5
<1>9. CASE n = m
  <2>1. replaced[n] = None
    BY <1>6, <1>9 DEF ReplaceInv, Untouched
  <2>2. pay # None /\ Replace(p, n, pay)
    BY <1>3, <1>4, <1>9, <2>1
  <2>3. /\ Alive(n) /\ ~Pending(n) /\ \A q \in Client \ {p} : call[q].mem # n
        /\ Exact(n)'
    BY <1>1, <1>7, <2>2, ReplaceIsExact
  <2>4. Untouched(n)'
    BY <1>2, <1>4, <1>5, <2>2, <2>3, NullsAreNew DEF Untouched, Alive, Pending, NoCall
  <2> QED BY <2>3, <2>4
<1> QED BY <1>8, <1>9

LEMMA UpdateGraphStands ==
    ASSUME ReplaceInv, NEW p \in Client, NEW m \in Memory, NEW raw \in Payload, UpdateGraph(p, m, raw),
           NEW n \in Memory, replaced'[n] # None
    PROVE  Untouched(n)' /\ Exact(n)'
<1>1. /\ raw \in Clean /\ TypeOK /\ Replace(p, m, raw)
      /\ Write(m, raw, MentionsOf(m), RelationsOf(m))
      /\ UNCHANGED <<content, queue, call, job>>
  BY AcceptedIsClean DEF UpdateGraph, Replace, ReplaceInv, Typed
<1>2. CASE n # m
  <2>1. replaced'[n] = replaced[n]
    BY <1>1, <1>2 DEF Replace, TypeOK
  <2>2. MentionsOf(n)' = MentionsOf(n) /\ RelationsOf(n)' = RelationsOf(n)
    BY <1>1, <1>2, WriteLeaves
  <2>3. Untouched(n) /\ Exact(n)'
    BY <2>1, <2>2, StaysExact
  <2> QED BY <1>1, <2>3 DEF Untouched, Alive, Pending
<1>3. CASE n = m
  <2>1. /\ Alive(n) /\ ~Pending(n) /\ \A q \in Client \ {p} : call[q].mem # n
        /\ Exact(n)'
    BY <1>1, <1>3, ReplaceIsExact
  <2>2. call[p].mem # n
    BY NullsAreNew DEF UpdateGraph, NoCall
  <2> QED BY <1>1, <2>1, <2>2 DEF Untouched, Alive, Pending
<1> QED BY <1>2, <1>3

\* A worker only takes rows on that are open already.
LEMMA TasksStand ==
    ASSUME ReplaceInv, NEW w \in Worker, NEW n \in Memory, replaced'[n] # None,
           \/ Claim(w) \/ ReadText(w) \/ Malformed(w) \/ MarkDone(w) \/ WorkerDies(w)
           \/ \E raw \in Payload : Extract(w, raw)
    PROVE  Untouched(n)' /\ Exact(n)'
<1>1. UNCHANGED <<content, call, replaced>>
  BY DEF Claim, ReadText, Malformed, MarkDone, WorkerDies, Extract, graph
<1>2. replaced[n] # None /\ Untouched(n) /\ JobsTyped /\ TypeOK
  BY <1>1, TypedJobs DEF ReplaceInv, Typed
<1>3. MentionsOf(n)' = MentionsOf(n) /\ RelationsOf(n)' = RelationsOf(n)
  <2>1. CASE \E raw \in Payload : Extract(w, raw)
    <3>1. PICK raw \in Payload : Extract(w, raw)
      BY <2>1
    <3>2. PICK pay \in WorkerCleans(raw) : Write(job[w].mem, pay, {}, {})
      BY <3>1 DEF Extract
    <3>3. job[w].mem \in Memory /\ job[w].mem # n
      BY <1>2, <3>1 DEF Extract, JobsTyped, InJob, Untouched, Pending
    <3> QED BY <1>2, <3>2, <3>3, CleanedIsClean, WriteLeaves
  <2>2. CASE Claim(w) \/ ReadText(w) \/ Malformed(w) \/ MarkDone(w) \/ WorkerDies(w)
    BY <2>2 DEF Claim, ReadText, Malformed, MarkDone, WorkerDies, graph, MentionsOf, RelationsOf
  <2> QED BY <2>1, <2>2
<1>4. ~Pending(n)'
  <2>0. /\ queue \in Seq(Memory \cup {Dedup}) /\ job \in [Worker -> Jobs]
        /\ \A i \in 1..Len(queue) : queue[i] # n
        /\ \A v \in Worker : job[v].kind \in {"extract", "applied"} => job[v].mem # n
    BY <1>2 DEF TypeOK, JobsTyped, Untouched, Pending
  <2>1. CASE Claim(w)
    <3>1. queue # <<>> /\ queue' = Tail(queue)
      BY <2>1 DEF Claim
    <3>2. /\ Len(queue') = Len(queue) - 1 /\ Len(queue) \in Nat \ {0}
          /\ Head(queue) = queue[1]
          /\ \A i \in 1..Len(queue') : queue'[i] = queue[i + 1]
      BY <2>0, <3>1, HeadTailProperties, EmptySeq
    <3>3. \A i \in 1..Len(queue') : queue'[i] # n
      BY <2>0, <3>2
    <3>4. \A v \in Worker : job'[v].kind \in {"extract", "applied"} => job'[v].mem # n
      BY <2>0, <2>1, <3>2 DEF Claim, NoJob
    <3> QED BY <3>3, <3>4 DEF Pending
  <2>2. CASE WorkerDies(w)
    <3> DEFINE x == IF job[w].kind = "dedup" THEN Dedup ELSE job[w].mem
    <3>1. x \in Memory \cup {Dedup} /\ x # n
      BY <1>2, <2>0, <2>2, NullsAreNew DEF WorkerDies, JobsTyped, Jobs, InJob
    <3>2. queue' = <<x>> \o queue
      BY <2>2 DEF WorkerDies
    <3> HIDE DEF x
    <3>3. \A i \in 1..Len(queue') : queue'[i] # n
      BY <2>0, <3>1, <3>2
    <3>4. \A v \in Worker : job'[v].kind \in {"extract", "applied"} => job'[v].mem # n
      BY <2>0, <2>2 DEF WorkerDies, NoJob
    <3> QED BY <3>3, <3>4 DEF Pending
  <2>3. CASE ReadText(w) \/ Malformed(w) \/ MarkDone(w) \/ \E raw \in Payload : Extract(w, raw)
    <3>1. queue' = queue
      BY <2>3 DEF ReadText, Malformed, MarkDone, Extract
    <3>2. \A v \in Worker : \/ job'[v].kind = "none"
                            \/ job[v].kind \in {"extract", "applied"} /\ job'[v].mem = job[v].mem
                            \/ job'[v] = job[v]
      BY <2>0, <2>3 DEF ReadText, Malformed, MarkDone, Extract, NoJob, Jobs
    <3> QED BY <2>0, <3>1, <3>2 DEF Pending
  <2> QED BY <2>1, <2>2, <2>3
<1> QED BY <1>1, <1>2, <1>3, <1>4, StaysExact DEF Untouched, Alive

\* Passes move no extract rows.
LEMMA PassesStand ==
    ASSUME ReplaceInv, NEW n \in Memory, replaced'[n] # None,
           \/ DedupEnqueue
           \/ \E w \in Worker : WorkerPass(w)
           \/ \E s \in Cli : SyncPass(s)
           \/ \E a \in Actor : Skip(a) \/ Merge(a) \/ EndPass(a) \/ PassRaises(a)
    PROVE  Untouched(n)' /\ Exact(n)'
<1>1. UNCHANGED <<graph, call, replaced>>
  BY DEF DedupEnqueue, WorkerPass, SyncPass, Skip, Merge, EndPass, PassRaises
<1>2. Untouched(n) /\ Exact(n)'
  BY <1>1, StaysExact DEF graph, MentionsOf, RelationsOf
<1>3. TypeOK /\ JobsTyped
  BY TypedJobs DEF ReplaceInv, Typed
<1>4. queue' = queue \/ (queue' = Append(queue, Dedup))
  BY DEF DedupEnqueue, WorkerPass, SyncPass, Skip, Merge, EndPass, PassRaises
<1>5. \A i \in 1..Len(queue') : queue'[i] # n
  <2>1. queue \in Seq(Memory \cup {Dedup}) /\ \A i \in 1..Len(queue) : queue[i] # n
    BY <1>2, <1>3 DEF TypeOK, Untouched, Pending
  <2> QED BY <1>4, <2>1, NullsAreNew
<1>6. job' = job \/ \E w \in Worker : job' = [job EXCEPT ![w] = NoJob]
  BY DEF DedupEnqueue, WorkerPass, SyncPass, Skip, Merge, EndPass, PassRaises, Release
<1>7. \A v \in Worker : job'[v].kind \in {"extract", "applied"} => job'[v].mem # n
  BY <1>2, <1>3, <1>6 DEF NoJob, JobsTyped, Untouched, Pending
<1> QED BY <1>1, <1>2, <1>5, <1>7 DEF graph, Untouched, Alive, Pending

LEMMA NextReplace == ReplaceInv /\ [Next]_vars => ReplaceInv'
<1> SUFFICES ASSUME ReplaceInv, [Next]_vars, NEW n \in Memory, replaced'[n] # None
             PROVE  Untouched(n)' /\ Exact(n)'
  BY NextTyped DEF ReplaceInv
<1>1. CASE \E p \in Client, m \in Memory, c \in Text, raw \in Payload \cup {None} :
              StoreRow(p, m, c, raw) \/ UpdateRow(p, m, c, raw)
  BY <1>1, CallsStand
<1>2. CASE \E p \in Client, m \in Memory, raw \in Payload : UpdateGraph(p, m, raw)
  BY <1>2, UpdateGraphStands
<1>3. CASE \E p \in Client : ClientStep(p)
  BY <1>3, FinishesStand DEF ClientStep
<1>4. CASE \E p \in Client : CallCut(p)
  BY <1>4, CallsStand
<1>5. CASE \E m \in Memory : Delete(m)
  BY <1>5, DeleteStands
<1>6. CASE \E w \in Worker : \/ Claim(w) \/ ReadText(w) \/ Malformed(w) \/ MarkDone(w) \/ WorkerDies(w)
                             \/ \E raw \in Payload : Extract(w, raw)
  BY <1>6, TasksStand
<1>7. CASE \/ DedupEnqueue
           \/ \E w \in Worker : WorkerPass(w)
           \/ \E s \in Cli : SyncPass(s)
           \/ \E a \in Actor : Skip(a) \/ Merge(a) \/ EndPass(a) \/ PassRaises(a)
  BY <1>7, PassesStand
<1>8. CASE UNCHANGED vars
  BY <1>8 DEF vars, graph, ReplaceInv, Untouched, Exact, Alive, Pending, MentionsOf, RelationsOf
<1> QED
  BY <1>1, <1>2, <1>3, <1>4, <1>5, <1>6, <1>7, <1>8 DEF Next, ExtractStep, PassStep

\* REPLACE stands: until the memory is changed again, its mentions are exactly the
\* payload's and its relations join the payload's names, whatever other agents,
\* workers and passes do -- if nothing was under way for the memory.
THEOREM ReplacementStands == Spec => []ReplaceStands
<1>1. Init => ReplaceInv
  BY InitTyped DEF Init, ReplaceInv
<1>2. ReplaceInv => ReplaceStands
  BY DEF ReplaceInv, ReplaceStands, Exact
<1> QED BY <1>1, <1>2, NextReplace, PTL DEF Spec

=============================================================================
