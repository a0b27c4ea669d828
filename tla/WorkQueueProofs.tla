-------------------------- MODULE WorkQueueProofs ---------------------------
(***************************************************************************)
(* What TLAPS proves of WorkQueue for any number of tasks, workers, CLIs   *)
(* and for every value of the thresholds.                                  *)
(***************************************************************************)
EXTENDS WorkQueue, FiniteSetTheorems, TLAPS

\* Ageing stops at the cap.
LEMMA OlderIsCapped ==
    ASSUME NEW a \in Nat, NEW cap \in Nat, a <= cap
    PROVE  Older(a, cap) \in Nat /\ Older(a, cap) <= cap
BY DEF Older

\* The cap is a number for every status a row can have.
LEMMA AgeCapIsNat == ASSUME NEW s \in Status PROVE AgeCap(s) \in Nat
BY TimesAreNat DEF AgeCap, Status, Open, Closed

\* A set of rows that moves to a legal status with an age under its cap leaves
\* the two columns well typed.
LEMMA BecomeKeepsTypes ==
    ASSUME TypeOK, NEW S, NEW s \in Status, NEW a \in Nat, a <= AgeCap(s),
           Become(S, s, a)
    PROVE  /\ status' \in [Task -> Status]
           /\ age' \in [Task -> Nat]
           /\ \A t \in Task : age'[t] <= AgeCap(status'[t])
<1> USE DEF TypeOK, Become
<1>1. status' \in [Task -> Status] /\ age' \in [Task -> Nat]
  OBVIOUS
<1>2. ASSUME NEW t \in Task PROVE age'[t] <= AgeCap(status'[t])
  <2>1. CASE t \in S
    <3>1. status'[t] = s /\ age'[t] = a
      BY <2>1
    <3> QED BY <3>1
  <2>2. CASE t \notin S
    <3>1. status'[t] = status[t] /\ age'[t] = age[t]
      BY <2>2
    <3> QED BY <3>1
  <2> QED BY <2>1, <2>2
<1> QED BY <1>1, <1>2

-----------------------------------------------------------------------------
(* Type correctness *)

LEMMA InitTypeOK == Init => TypeOK
<1> SUFFICES ASSUME Init PROVE TypeOK
  OBVIOUS
<1>1. \A t \in Task : AgeCap(status[t]) = 0
  BY DEF Init, AgeCap, Closed
<1> QED
  BY <1>1, TimesAreNat, NullsAreNew
  DEF Init, TypeOK, Status, Kind, Pc, Open, Closed, Executing

LEMMA NextTypeOK == TypeOK /\ [Next]_vars => TypeOK'
<1> SUFFICES ASSUME TypeOK, [Next]_vars PROVE TypeOK'
  OBVIOUS
<1> USE TimesAreNat, NullsAreNew, WaitCapIsSmall
<1>a. /\ "pending" \in Status /\ "running" \in Status /\ "done" \in Status
      /\ "failed" \in Status /\ "gone" \in Status
  BY DEF Status, Open, Closed
<1>b. /\ AgeCap("pending") = WaitCap /\ AgeCap("running") = Stale + 1
      /\ AgeCap("done") = Retention + 1 /\ AgeCap("failed") = Retention + 1
      /\ AgeCap("gone") = 0
  BY DEF AgeCap, Closed
<1>c. /\ 0 <= AgeCap("pending") /\ 0 <= AgeCap("running")
      /\ 0 <= AgeCap("done") /\ 0 <= AgeCap("failed") /\ 0 <= AgeCap("gone")
      /\ WaitCap <= AgeCap("pending") /\ WaitCap \in Nat /\ 0 \in Nat
  BY <1>b
<1>1. ASSUME NEW m \in Memory, NEW x \in Task \cup {NoTask},
             NEW r \in Task \cup {NoTask}, Enqueue(m, x, r)
      PROVE  TypeOK'
  <2>1. Become({x, r}, "pending", 0)
    BY <1>1 DEF Enqueue
  <2> QED
    BY <1>1, <2>1, <1>a, <1>c, BecomeKeepsTypes
    DEF Enqueue, TypeOK, Kind, thread, Executing
<1>2. ASSUME NEW m \in Memory, DeleteMemory(m) PROVE TypeOK'
  <2>1. Become({t \in Task : mem[t] = m}, "gone", 0)
    BY <1>2 DEF DeleteMemory
  <2> QED
    BY <1>2, <2>1, <1>a, <1>c, BecomeKeepsTypes
    DEF DeleteMemory, TypeOK, thread, Executing
<1>3. ASSUME NEW c \in Cli, DedupLook(c) PROVE TypeOK'
  BY <1>3 DEF DedupLook, TypeOK, row, thread, Executing
<1>4. ASSUME NEW c \in Cli, NEW t \in Task, DedupInsert(c, t) PROVE TypeOK'
  <2>1. Become({t}, "pending", 0)
    BY <1>4 DEF DedupInsert
  <2> QED
    BY <1>4, <2>1, <1>a, <1>c, BecomeKeepsTypes
    DEF DedupInsert, TypeOK, Kind, thread, Executing
<1>5. CASE CliPrune
  <2>1. Become(Expired(Retention), "gone", 0)
    BY <1>5 DEF CliPrune, PruneRows
  <2>2. /\ status' \in [Task -> Status]
        /\ age' \in [Task -> Nat]
        /\ \A t \in Task : age'[t] <= AgeCap(status'[t])
    BY <2>1, <1>a, <1>c, BecomeKeepsTypes
  <2> QED
    BY <1>5, <2>2
    DEF CliPrune, PruneRows, TypeOK, thread, Executing
<1>6. ASSUME NEW w \in Worker, MaybePrune(w) PROVE TypeOK'
  <2>1. /\ status' \in [Task -> Status]
        /\ age' \in [Task -> Nat]
        /\ \A t \in Task : age'[t] <= AgeCap(status'[t])
        /\ pruneAge' \in 0..PruneGap
    <3>1. CASE pruneAge >= PruneGap
      <4>1. Become(Expired(Retention), "gone", 0) /\ pruneAge' = 0
        BY <1>6, <3>1 DEF MaybePrune, PruneRows
      <4> QED BY <4>1, <1>a, <1>c, BecomeKeepsTypes
    <3>2. CASE ~(pruneAge >= PruneGap)
      BY <1>6, <3>2 DEF MaybePrune, TypeOK
    <3> QED BY <3>1, <3>2
  <2> QED
    BY <1>6, <2>1 DEF MaybePrune, TypeOK, Goto, Pc, Executing
<1>7. ASSUME NEW w \in Worker, Start(w) PROVE TypeOK'
  BY <1>7 DEF Start, TypeOK, Goto, Pc, row, Executing
<1>8. ASSUME NEW w \in Worker, Recover(w) PROVE TypeOK'
  <2>1. Become({t \in InState("running") : age[t] > Stale}, "pending", WaitCap)
    BY <1>8 DEF Recover
  <2> QED
    BY <1>8, <2>1, <1>a, <1>c, BecomeKeepsTypes
    DEF Recover, TypeOK, Goto, Pc, Executing
<1>9. ASSUME NEW w \in Worker, Select(w) PROVE TypeOK'
  BY <1>9 DEF Select, TypeOK, Goto, Pc, row, InState, Executing
<1>10. ASSUME NEW w \in Worker, SelectNone(w) PROVE TypeOK'
  BY <1>10 DEF SelectNone, TypeOK, Goto, Pc, row, Executing
<1>11. ASSUME NEW w \in Worker, Claim(w) PROVE TypeOK'
  <2>1. Become({sel[w]}, "running", 0)
    BY <1>11 DEF Claim
  <2> QED
    BY <1>11, <2>1, <1>a, <1>c, BecomeKeepsTypes
    DEF Claim, TypeOK, Goto, Pc, Executing
<1>12. ASSUME NEW w \in Worker, ClaimLost(w) PROVE TypeOK'
  BY <1>12 DEF ClaimLost, TypeOK, Goto, Pc, row, Executing
<1>13. ASSUME NEW w \in Worker, Apply(w) PROVE TypeOK'
  BY <1>13 DEF Apply, TypeOK, Goto, Pc, Executing
<1>14. ASSUME NEW w \in Worker, NEW s \in {"done", "failed"}, Mark(w, s),
              applied' \in [Task -> BOOLEAN]
       PROVE  TypeOK'
  <2>1. Become({sel[w]} \ InState("gone"), s, 0) /\ s \in Status
    BY <1>14, <1>a DEF Mark
  <2>2. /\ status' \in [Task -> Status]
        /\ age' \in [Task -> Nat]
        /\ \A t \in Task : age'[t] <= AgeCap(status'[t])
    BY <2>1, <1>14, <1>c, BecomeKeepsTypes
  <2> QED
    BY <1>14, <2>2
    DEF Mark, TypeOK, Goto, Pc, Executing
<1>15. ASSUME NEW w \in Worker, MarkDone(w) PROVE TypeOK'
  BY <1>14, <1>15 DEF MarkDone, TypeOK
<1>16. ASSUME NEW w \in Worker, MarkFailed(w) PROVE TypeOK'
  BY <1>14, <1>16 DEF MarkFailed, TypeOK
<1>17. ASSUME NEW w \in Worker, ExitThread(w) PROVE TypeOK'
  BY <1>17 DEF ExitThread, TypeOK, Goto, Pc, row, Executing
<1>18. ASSUME NEW w \in Worker, StopRequest(w) PROVE TypeOK'
  BY <1>18 DEF StopRequest, TypeOK, row, Executing
<1>19. ASSUME NEW w \in Worker, Kill(w) PROVE TypeOK'
  BY <1>19 DEF Kill, TypeOK, Goto, Pc, row, Executing
<1>20. CASE Tick
  <2>1. \A t \in Task : /\ age'[t] \in Nat
                        /\ age'[t] <= AgeCap(status'[t])
    BY <1>20, AgeCapIsNat, OlderIsCapped DEF Tick, TypeOK
  <2>2. age' \in [Task -> Nat]
    BY <1>20, <2>1 DEF Tick
  <2>3. runFor' \in [Worker -> 0..MaxRun] /\ pruneAge' \in 0..PruneGap
    BY <1>20 DEF Tick, TypeOK, Older
  <2> QED
    BY <1>20, <2>1, <2>2, <2>3 DEF Tick, TypeOK, Executing
<1>21. CASE UNCHANGED vars
  BY <1>21 DEF vars, row, thread, TypeOK, Executing
<1> QED
  BY <1>1, <1>2, <1>3, <1>4, <1>5, <1>6, <1>7, <1>8, <1>9, <1>10, <1>11, <1>12,
     <1>13, <1>15, <1>16, <1>17, <1>18, <1>19, <1>20, <1>21
  DEF Next, Clients, Step

\* The type invariant holds in every reachable state.
THEOREM TypeCorrect == Spec => []TypeOK
BY InitTypeOK, NextTypeOK, PTL DEF Spec

-----------------------------------------------------------------------------
(* Mutual exclusion, as long as no run outlasts the staleness threshold *)

Exclusive == HolderRuns /\ AtMostOneRunner

LEMMA InitExclusive == Init => Exclusive
BY DEF Init, Exclusive, HolderRuns, AtMostOneRunner, Holds, Executing

LEMMA NextExclusive ==
    ASSUME MaxRun <= Stale, TypeOK, Exclusive, [Next]_vars
    PROVE  Exclusive'
<1> USE TimesAreNat, NullsAreNew
<1>a. ASSUME NEW w \in Worker, Executing(w)
      PROVE  /\ sel[w] \in Task
             /\ status[sel[w]] \in {"gone", "running"}
             /\ status[sel[w]] = "running" => age[sel[w]] = runFor[w]
             /\ runFor[w] <= Stale /\ runFor[w] \in Nat
  <2>1. runFor[w] \in 0..MaxRun /\ sel[w] \in Task
    BY <1>a DEF TypeOK
  <2>2. runFor[w] <= Stale /\ runFor[w] \in Nat
    BY <2>1
  <2> QED BY <1>a, <2>1, <2>2 DEF Exclusive, HolderRuns
<1>1. ASSUME NEW m \in Memory, NEW x \in Task \cup {NoTask},
             NEW r \in Task \cup {NoTask}, Enqueue(m, x, r)
      PROVE  Exclusive'
  <2>1. \A t \in {x, r} : t \in Task => status[t] = "fresh"
    BY <1>1 DEF Enqueue, InState
  <2> QED
    BY <1>1, <1>a, <2>1 DEF Enqueue, thread, Become, TypeOK, Exclusive,
       HolderRuns, AtMostOneRunner, Holds, Executing
<1>2. ASSUME NEW m \in Memory, DeleteMemory(m) PROVE Exclusive'
  BY <1>2, <1>a DEF DeleteMemory, thread, Become, TypeOK, Exclusive,
     HolderRuns, AtMostOneRunner, Holds, Executing
<1>3. ASSUME NEW c \in Cli, DedupLook(c) PROVE Exclusive'
  BY <1>3 DEF DedupLook, row, thread, Exclusive, HolderRuns, AtMostOneRunner,
     Holds, Executing
<1>4. ASSUME NEW c \in Cli, NEW t \in Task, DedupInsert(c, t) PROVE Exclusive'
  BY <1>4, <1>a DEF DedupInsert, thread, Become, TypeOK, Exclusive,
     HolderRuns, AtMostOneRunner, Holds, Executing
<1>5. ASSUME PruneRows, UNCHANGED <<sel, runFor>>,
             \A w \in Worker : Executing(w)' => Executing(w) /\ pc'[w] = pc[w],
             \A w \in Worker : Executing(w) => Executing(w)'
      PROVE  Exclusive'
  BY <1>5, <1>a DEF PruneRows, Expired, Closed, Become, TypeOK, Exclusive,
     HolderRuns, AtMostOneRunner, Holds
<1>6. CASE CliPrune
  BY <1>5, <1>6 DEF CliPrune, thread, Executing
<1>7. ASSUME NEW w \in Worker, MaybePrune(w) PROVE Exclusive'
  <2>1. \A v \in Worker : Executing(v)' <=> Executing(v) /\ pc'[v] = pc[v]
    BY <1>7 DEF MaybePrune, Goto, Executing, TypeOK
  <2>2. \A v \in Worker : Executing(v) => Executing(v)'
    BY <1>7 DEF MaybePrune, Goto, Executing, TypeOK
  <2>3. CASE pruneAge >= PruneGap
    BY <1>5, <1>7, <2>1, <2>2, <2>3 DEF MaybePrune
  <2>4. CASE ~(pruneAge >= PruneGap)
    BY <1>7, <2>1, <2>2, <2>4 DEF MaybePrune, Exclusive, HolderRuns,
       AtMostOneRunner, Holds
  <2> QED BY <2>3, <2>4
<1>8. ASSUME NEW w \in Worker, Recover(w) PROVE Exclusive'
  <2>1. \A v \in Worker : Executing(v)' <=> Executing(v)
    BY <1>8 DEF Recover, Goto, Executing, TypeOK
  <2>2. ASSUME NEW v \in Worker, Executing(v)
        PROVE  status'[sel[v]] = status[sel[v]] /\ age'[sel[v]] = age[sel[v]]
    <3>1. ~(status[sel[v]] = "running" /\ age[sel[v]] > Stale)
      BY <1>a, <2>2
    <3> QED BY <1>8, <1>a, <2>2, <3>1 DEF Recover, Become, InState
  <2> QED
    BY <1>8, <2>1, <2>2 DEF Recover, Exclusive, HolderRuns, AtMostOneRunner, Holds
<1>9. ASSUME NEW w \in Worker,
             \/ Start(w) \/ SelectNone(w) \/ ClaimLost(w) \/ ExitThread(w)
             \/ StopRequest(w) \/ Select(w)
      PROVE  Exclusive'
  <2>1. /\ \A v \in Worker \ {w} : pc'[v] = pc[v] /\ sel'[v] = sel[v]
        /\ UNCHANGED <<status, age, runFor>>
    BY <1>9 DEF Start, SelectNone, ClaimLost, ExitThread, StopRequest, Select,
       Goto, TypeOK, row
  <2>2. /\ ~Executing(w) => ~Executing(w)'
        /\ Executing(w) => pc'[w] = pc[w] /\ sel'[w] = sel[w]
    <3>1. CASE StopRequest(w)
      BY <3>1 DEF StopRequest, Executing
    <3>2. CASE Select(w)
      BY <3>2 DEF Select, Goto, Executing, TypeOK
    <3>3. CASE Start(w) \/ SelectNone(w) \/ ClaimLost(w) \/ ExitThread(w)
      BY <3>3 DEF Start, SelectNone, ClaimLost, ExitThread, Goto, Executing, TypeOK
    <3> QED BY <1>9, <3>1, <3>2, <3>3
  <2>3. ASSUME NEW v \in Worker
        PROVE  /\ Executing(v)' <=> Executing(v)
               /\ Executing(v) => sel'[v] = sel[v]
    <3>1. CASE v = w
      BY <2>2, <3>1 DEF Executing
    <3>2. CASE v # w
      BY <2>1, <3>2 DEF Executing
    <3> QED BY <3>1, <3>2
  <2>4. HolderRuns'
    BY <2>1, <2>3 DEF Exclusive, HolderRuns
  <2>5. AtMostOneRunner'
    BY <2>3 DEF Exclusive, AtMostOneRunner, Holds
  <2> QED BY <2>4, <2>5 DEF Exclusive
<1>10. ASSUME NEW w \in Worker, Claim(w) PROVE Exclusive'
  <2>1. sel[w] \in Task /\ ~Executing(w) /\ status[sel[w]] = "pending"
    BY <1>10 DEF Claim, TypeOK, Executing
  <2>2. runFor[w] = 0
    BY <2>1 DEF Exclusive, HolderRuns
  <2>3. /\ status'[sel[w]] = "running" /\ age'[sel[w]] = 0
        /\ Executing(w)' /\ UNCHANGED <<sel, runFor>>
    BY <1>10, <2>1 DEF Claim, Become, TypeOK, Goto, Executing
  <2>4. ASSUME NEW v \in Worker, v # w
        PROVE  /\ Executing(v)' <=> Executing(v)
               /\ Executing(v) => /\ sel[v] # sel[w]
                                  /\ status'[sel[v]] = status[sel[v]]
                                  /\ age'[sel[v]] = age[sel[v]]
    BY <1>10, <1>a, <2>1, <2>4 DEF Claim, Become, TypeOK, Goto, Executing
  <2> QED
    BY <2>2, <2>3, <2>4 DEF Exclusive, HolderRuns, AtMostOneRunner, Holds
<1>11. ASSUME NEW w \in Worker, Apply(w) PROVE Exclusive'
  <2>1. \A v \in Worker : Executing(v)' <=> Executing(v)
    BY <1>11 DEF Apply, Goto, Executing, TypeOK
  <2> QED
    BY <1>11, <2>1 DEF Apply, Exclusive, HolderRuns, AtMostOneRunner, Holds
<1>12. ASSUME NEW w \in Worker, NEW s, Executing(w), Mark(w, s) PROVE Exclusive'
  <2>1. ~Executing(w)' /\ runFor'[w] = 0
    BY <1>12 DEF Mark, Goto, Executing, TypeOK
  <2>2. ASSUME NEW v \in Worker, v # w
        PROVE  /\ Executing(v)' <=> Executing(v)
               /\ sel'[v] = sel[v] /\ runFor'[v] = runFor[v]
               /\ Executing(v) => /\ status'[sel[v]] = status[sel[v]]
                                  /\ age'[sel[v]] = age[sel[v]]
    <3>1. Executing(v) => sel[v] # sel[w]
      BY <1>a, <1>12, <2>2 DEF Exclusive, AtMostOneRunner, Holds
    <3> QED
      BY <1>12, <1>a, <2>2, <3>1 DEF Mark, Become, Goto, Executing, TypeOK
  <2> QED
    BY <2>1, <2>2 DEF Exclusive, HolderRuns, AtMostOneRunner, Holds
<1>13. ASSUME NEW w \in Worker, MarkDone(w) PROVE Exclusive'
  BY <1>12, <1>13 DEF MarkDone, Executing
<1>14. ASSUME NEW w \in Worker, MarkFailed(w) PROVE Exclusive'
  BY <1>12, <1>14 DEF MarkFailed
<1>15. ASSUME NEW w \in Worker, Kill(w) PROVE Exclusive'
  <2>1. ~Executing(w)' /\ runFor'[w] = 0 /\ UNCHANGED <<status, age>>
    BY <1>15 DEF Kill, Goto, Executing, TypeOK, row
  <2>2. ASSUME NEW v \in Worker, v # w
        PROVE  /\ Executing(v)' <=> Executing(v)
               /\ sel'[v] = sel[v] /\ runFor'[v] = runFor[v]
    BY <1>15, <2>2 DEF Kill, Goto, Executing, TypeOK
  <2> QED
    BY <2>1, <2>2 DEF Exclusive, HolderRuns, AtMostOneRunner, Holds
<1>16. CASE Tick
  <2>1. \A v \in Worker : Executing(v)' <=> Executing(v)
    BY <1>16 DEF Tick, Executing
  <2>2. ASSUME NEW v \in Worker, Executing(v), status[sel[v]] = "running"
        PROVE  age'[sel[v]] = runFor'[v]
    <3>1. AgeCap(status[sel[v]]) = Stale + 1
      BY <2>2 DEF AgeCap, Closed
    <3>2. runFor[v] < MaxRun /\ runFor'[v] = runFor[v] + 1
      BY <1>16, <2>2 DEF Tick
    <3>3. age[sel[v]] < Stale + 1
      BY <1>a, <2>2, <3>2
    <3> QED BY <1>16, <1>a, <2>2, <3>1, <3>2, <3>3 DEF Tick, Older
  <2> QED
    BY <1>16, <2>1, <2>2 DEF Tick, Exclusive, HolderRuns, AtMostOneRunner, Holds
<1>17. CASE UNCHANGED vars
  BY <1>17 DEF vars, row, thread, Exclusive, HolderRuns, AtMostOneRunner, Holds,
     Executing
<1> QED
  BY <1>1, <1>2, <1>3, <1>4, <1>6, <1>7, <1>8, <1>9, <1>10, <1>11, <1>13, <1>14,
     <1>15, <1>16, <1>17
  DEF Next, Clients, Step

\* If no task runs for longer than the recovery's threshold, no two workers ever
\* run the same task: claims, deletes, prunes, restarts and deaths included.
THEOREM OneRunner ==
    ASSUME MaxRun <= Stale PROVE Spec => []AtMostOneRunner
<1>1. Init => TypeOK /\ Exclusive
  BY InitTypeOK, InitExclusive
<1>2. TypeOK /\ Exclusive /\ [Next]_vars => (TypeOK /\ Exclusive)'
  BY NextTypeOK, NextExclusive
<1>3. Exclusive => AtMostOneRunner
  BY DEF Exclusive
<1> QED BY <1>1, <1>2, <1>3, PTL DEF Spec

-----------------------------------------------------------------------------
(* What one step can do to one row *)

\* The edges of a row's life, with what has to hold for each to be taken.
RowStep(t) ==
    \/ status'[t] = status[t]
    \/ status[t] = "fresh" /\ status'[t] = "pending"
    \/ status[t] = "running" /\ status'[t] = "pending"
    \/ status[t] = "pending" /\ status'[t] = "running"
    \/ status'[t] \in Closed /\ \E w \in Worker : Holds(w, t)
    \/ status'[t] = "gone" /\ mem[t] \in memories \ memories'
    \/ status'[t] = "gone" /\ status[t] \in Closed /\ age[t] > Retention

LEMMA EveryRowStep ==
    ASSUME TypeOK, [Next]_vars, NEW t \in Task PROVE RowStep(t)
<1>1. ASSUME NEW m \in Memory, NEW x \in Task \cup {NoTask},
             NEW r \in Task \cup {NoTask}, Enqueue(m, x, r)
      PROVE  RowStep(t)
  BY <1>1, NullsAreNew DEF Enqueue, Become, InState, RowStep
<1>2. ASSUME NEW m \in Memory, DeleteMemory(m) PROVE RowStep(t)
  BY <1>2 DEF DeleteMemory, Become, RowStep
<1>3. ASSUME NEW c \in Cli, NEW u \in Task, DedupInsert(c, u) PROVE RowStep(t)
  BY <1>3 DEF DedupInsert, Become, RowStep
<1>4. ASSUME PruneRows PROVE RowStep(t)
  BY <1>4 DEF PruneRows, Expired, Become, RowStep
<1>5. ASSUME NEW w \in Worker, MaybePrune(w) PROVE RowStep(t)
  <2>1. CASE pruneAge >= PruneGap
    BY <1>4, <1>5, <2>1 DEF MaybePrune
  <2>2. CASE ~(pruneAge >= PruneGap)
    BY <1>5, <2>2 DEF MaybePrune, RowStep
  <2> QED BY <2>1, <2>2
<1>6. ASSUME NEW w \in Worker, Recover(w) PROVE RowStep(t)
  BY <1>6 DEF Recover, InState, Become, RowStep
<1>7. ASSUME NEW w \in Worker, Claim(w) PROVE RowStep(t)
  BY <1>7 DEF Claim, Become, RowStep
<1>8. ASSUME NEW w \in Worker, NEW s \in Closed, Executing(w), Mark(w, s)
      PROVE  RowStep(t)
  <2>1. CASE sel[w] = t
    <3>1. Holds(w, t)
      BY <1>8, <2>1 DEF Holds
    <3>2. status'[t] = s \/ status'[t] = status[t]
      BY <1>8 DEF Mark, Become
    <3> QED BY <1>8, <3>1, <3>2 DEF RowStep
  <2>2. CASE sel[w] # t
    BY <1>8, <2>2 DEF Mark, Become, RowStep
  <2> QED BY <2>1, <2>2
<1>9. ASSUME NEW w \in Worker, MarkDone(w) PROVE RowStep(t)
  BY <1>8, <1>9 DEF MarkDone, Executing, Closed
<1>10. ASSUME NEW w \in Worker, MarkFailed(w) PROVE RowStep(t)
  BY <1>8, <1>10 DEF MarkFailed, Closed
<1>11. ASSUME NEW w \in Worker,
              \/ Start(w) \/ SelectNone(w) \/ ClaimLost(w) \/ ExitThread(w)
              \/ StopRequest(w) \/ Select(w) \/ Kill(w) \/ Apply(w)
       PROVE  RowStep(t)
  <2>1. UNCHANGED status
    BY <1>11 DEF Start, SelectNone, ClaimLost, ExitThread, StopRequest, Select,
       Kill, Apply, row
  <2> QED BY <2>1 DEF RowStep
<1>12. ASSUME UNCHANGED status PROVE RowStep(t)
  BY <1>12 DEF RowStep
<1> QED
  BY <1>1, <1>2, <1>3, <1>4, <1>5, <1>6, <1>7, <1>9, <1>10, <1>11, <1>12
  DEF Next, Clients, Step, DedupLook, CliPrune, Tick, vars, row

\* An unfinished row is only ever dropped together with its memory, and a
\* finished one not before its retention has passed: no assumption on run times.
THEOREM RowsLeave == Spec => RowsLeaveForCause
<1>1. TypeOK /\ [Next]_vars
      => [\A t \in Task : status[t] # "gone" /\ status'[t] = "gone" =>
             \/ mem[t] \in memories \ memories'
             \/ status[t] \in Closed /\ age[t] > Retention]_vars
  <2> SUFFICES ASSUME TypeOK, [Next]_vars, NEW t \in Task,
                      status[t] # "gone", status'[t] = "gone"
               PROVE  \/ mem[t] \in memories \ memories'
                      \/ status[t] \in Closed /\ age[t] > Retention
    OBVIOUS
  <2>1. RowStep(t)
    BY EveryRowStep
  <2> QED BY <2>1 DEF RowStep, Closed
<1> QED BY <1>1, TypeCorrect, PTL DEF Spec, RowsLeaveForCause

\* Marking by id alone is safe while holders are exclusive: what a worker marks
\* still says 'running' (or is gone), so a finished row is never rewritten.
THEOREM ClosedStays == ASSUME MaxRun <= Stale PROVE Spec => ClosedIsFinal
<1>1. TypeOK /\ Exclusive /\ [Next]_vars
      => [\A t \in Task : status[t] \in Closed
                            => status'[t] \in {status[t], "gone"}]_vars
  <2> SUFFICES ASSUME TypeOK, Exclusive, [Next]_vars,
                      NEW t \in Task, status[t] \in Closed
               PROVE  status'[t] \in {status[t], "gone"}
    OBVIOUS
  <2>1. RowStep(t)
    BY EveryRowStep
  <2>2. ASSUME NEW w \in Worker PROVE ~Holds(w, t)
    BY <2>2 DEF Holds, Exclusive, HolderRuns, Closed
  <2> QED BY <2>1, <2>2 DEF RowStep, Closed
<1>2. Init => TypeOK /\ Exclusive
  BY InitTypeOK, InitExclusive
<1>3. TypeOK /\ Exclusive /\ [Next]_vars => (TypeOK /\ Exclusive)'
  BY NextTypeOK, NextExclusive
<1> QED BY <1>1, <1>2, <1>3, PTL DEF Spec, ClosedIsFinal

-----------------------------------------------------------------------------
(* 'done' is the truth *)

\* A thread about to mark a task whose effects it committed.
AppliedIsApplied == \A w \in Worker : pc[w] = "applied" => applied[sel[w]]

\* A history of committed effects is never unwritten.
LEMMA AppliedGrows ==
    ASSUME TypeOK, [Next]_vars, NEW t \in Task, applied[t] PROVE applied'[t]
BY DEF Next, Clients, Step, Enqueue, DeleteMemory, DedupLook, DedupInsert,
   CliPrune, MaybePrune, Recover, Select, SelectNone, Claim, ClaimLost, Apply,
   MarkDone, MarkFailed, ExitThread, Start, StopRequest, Kill, Tick, vars, row,
   TypeOK

LEMMA NextAppliedIsApplied ==
    ASSUME TypeOK, AppliedIsApplied, [Next]_vars PROVE AppliedIsApplied'
<1> SUFFICES ASSUME NEW v \in Worker, pc'[v] = "applied" PROVE applied'[sel'[v]]
  BY DEF AppliedIsApplied
<1>1. \/ pc[v] = "applied" /\ sel'[v] = sel[v]
      \/ Apply(v)
  <2>1. ASSUME NEW w \in Worker,
               Step(w) \/ Start(w) \/ StopRequest(w) \/ Kill(w), w # v
        PROVE  pc'[v] = pc[v] /\ sel'[v] = sel[v]
    BY <2>1 DEF Step, MaybePrune, Recover, Select, SelectNone, Claim, ClaimLost,
       Apply, MarkDone, MarkFailed, Mark, ExitThread, Start, StopRequest, Kill,
       thread, Goto, TypeOK
  <2>2. ASSUME Step(v) \/ Start(v) \/ StopRequest(v) \/ Kill(v)
        PROVE  Apply(v) \/ (pc'[v] = pc[v] /\ sel'[v] = sel[v])
    BY <2>2 DEF Step, MaybePrune, Recover, Select, SelectNone, Claim, ClaimLost,
       MarkDone, MarkFailed, Mark, ExitThread, Start, StopRequest, Kill, Goto,
       TypeOK
  <2>3. ASSUME Clients \/ Tick \/ UNCHANGED vars
        PROVE  pc'[v] = pc[v] /\ sel'[v] = sel[v]
    BY <2>3 DEF Clients, Enqueue, DeleteMemory, DedupLook, DedupInsert, CliPrune,
       Tick, vars, thread
  <2> QED BY <2>1, <2>2, <2>3 DEF Next
<1>2. CASE pc[v] = "applied" /\ sel'[v] = sel[v]
  BY <1>2, AppliedGrows DEF AppliedIsApplied, TypeOK, Executing
<1>3. CASE Apply(v)
  BY <1>3 DEF Apply, TypeOK, Executing
<1> QED BY <1>1, <1>2, <1>3

\* Only MarkDone makes a row 'done'.
LEMMA OnlyMarkDone ==
    ASSUME TypeOK, [Next]_vars, NEW t \in Task, status'[t] = "done",
           status[t] # "done"
    PROVE  \E w \in Worker : MarkDone(w) /\ sel[w] = t
BY DEF Next, Clients, Step, Enqueue, DeleteMemory, DedupLook, DedupInsert,
   CliPrune, PruneRows, MaybePrune, Recover, Select, SelectNone, Claim,
   ClaimLost, Apply, MarkDone, MarkFailed, Mark, Become, ExitThread, Start,
   StopRequest, Kill, Tick, vars, row

\* A row's kind is fixed by its INSERT.
LEMMA KindIsFixed ==
    ASSUME TypeOK, [Next]_vars, NEW t \in Task, status[t] # "fresh"
    PROVE  kind'[t] = kind[t]
BY NullsAreNew DEF Next, Clients, Step, Enqueue, DeleteMemory, DedupLook,
   DedupInsert, CliPrune, MaybePrune, Recover, Select, SelectNone, Claim,
   ClaimLost, Apply, MarkDone, MarkFailed, Mark, ExitThread, Start,
   StopRequest, Kill, Tick, vars, row, InState, TypeOK

LEMMA NextDone ==
    ASSUME TypeOK, AppliedIsApplied, DoneMeansApplied, [Next]_vars
    PROVE  DoneMeansApplied'
<1> SUFFICES ASSUME NEW t \in Task, status'[t] = "done", kind'[t] # "reembed"
             PROVE  applied'[t]
  BY DEF DoneMeansApplied
<1>1. CASE status[t] = "done"
  <2>1. kind'[t] = kind[t]
    BY <1>1, KindIsFixed
  <2> QED BY <1>1, <2>1, AppliedGrows DEF DoneMeansApplied
<1>2. CASE status[t] # "done"
  <2>1. PICK w \in Worker : MarkDone(w) /\ sel[w] = t
    BY <1>2, OnlyMarkDone
  <2>2. kind'[t] = kind[t]
    BY <2>1 DEF MarkDone, Mark
  <2> QED BY <2>1, <2>2 DEF MarkDone, AppliedIsApplied, TypeOK
<1> QED BY <1>1, <1>2

\* However runs, deaths, restarts and resets interleave, an extract or dedup row
\* says 'done' only if the writes of some run of it were committed.
THEOREM DoneIsTrue == Spec => []DoneMeansApplied
<1>1. Init => AppliedIsApplied /\ DoneMeansApplied
  BY DEF Init, AppliedIsApplied, DoneMeansApplied
<1>2. TypeOK /\ AppliedIsApplied /\ DoneMeansApplied /\ [Next]_vars
      => (AppliedIsApplied /\ DoneMeansApplied)'
  BY NextAppliedIsApplied, NextDone
<1> QED BY <1>1, <1>2, TypeCorrect, PTL DEF Spec

-----------------------------------------------------------------------------
(* One dedup task, when dedup invocations do not overlap *)

\* An invocation that looked and is about to insert still sees no open task.
LookIsFresh == \A c \in Cli : looking[c] => OpenDedups = {}

\* A new open dedup task comes from a CLI's INSERT, never from a worker.
LEMMA NextOpenDedups ==
    ASSUME TypeOK, [Next]_vars, NEW t \in Task, t \in OpenDedups'
    PROVE  \/ t \in OpenDedups
           \/ \E c \in Cli : DedupInsert(c, t)
<1>1. RowStep(t)
  BY EveryRowStep
<1>2. kind'[t] = "dedup" /\ status'[t] \in Open
  BY DEF OpenDedups
<1>3. CASE status[t] = "fresh"
  <2>1. status'[t] # status[t]
    BY <1>2, <1>3 DEF Open
  <2>2. ASSUME NEW m \in Memory, NEW x \in Task \cup {NoTask},
               NEW r \in Task \cup {NoTask}
        PROVE  ~Enqueue(m, x, r)
    BY <1>2, <2>1 DEF Enqueue, Become
  <2>3. PICK c \in Cli, u \in Task : DedupInsert(c, u)
    BY <1>2, <1>3, <2>1, <2>2 DEF Next, Clients, Step, DeleteMemory, DedupLook,
       CliPrune, PruneRows, MaybePrune, Recover, Select, SelectNone, Claim,
       ClaimLost, Apply, MarkDone, MarkFailed, Mark, Become, ExitThread, Start,
       StopRequest, Kill, Tick, vars, row, Open, InState, Expired, Closed
  <2>4. u = t
    BY <2>1, <2>3 DEF DedupInsert, Become
  <2> QED BY <2>3, <2>4
<1>4. CASE status[t] # "fresh"
  <2>1. kind[t] = "dedup"
    BY <1>2, <1>4, KindIsFixed
  <2>2. status[t] \in Open
    BY <1>1, <1>2, <1>4 DEF RowStep, Open, Closed
  <2> QED BY <2>1, <2>2 DEF OpenDedups
<1> QED BY <1>3, <1>4

\* Open dedup tasks are one at most, and none while an invocation is between
\* its SELECT and its INSERT.
OneDedup ==
    /\ \A t, u \in OpenDedups : t = u
    /\ LookIsFresh

LEMMA NextOneDedup ==
    ASSUME NEW only, Cli = {only}, TypeOK, OneDedup, [Next]_vars
    PROVE  OneDedup'
<1>1. CASE \E t \in Task : DedupInsert(only, t)
  <2>1. PICK u \in Task : DedupInsert(only, u)
    BY <1>1
  <2>2. OpenDedups = {} /\ ~looking'[only]
    BY <2>1 DEF DedupInsert, OneDedup, LookIsFresh, TypeOK
  <2>3. ASSUME NEW t \in Task, t \in OpenDedups' PROVE t = u
    <3>1. status'[t] # status[t] \/ kind'[t] # kind[t]
      BY <2>2, <2>3 DEF OpenDedups
    <3> QED BY <2>1, <3>1 DEF DedupInsert, Become, TypeOK
  <2>4. \A t \in OpenDedups' : t \in Task
    BY DEF OpenDedups
  <2> QED BY <2>2, <2>3, <2>4 DEF OneDedup, LookIsFresh
<1>2. CASE ~\E t \in Task : DedupInsert(only, t)
  <2>1. \A t \in OpenDedups' : t \in OpenDedups
    <3> SUFFICES ASSUME NEW t \in OpenDedups' PROVE t \in OpenDedups
      OBVIOUS
    <3>1. t \in Task
      BY DEF OpenDedups
    <3> QED BY <1>2, <3>1, NextOpenDedups
  <2>2. ASSUME looking'[only] PROVE OpenDedups = {}
    <3>1. looking'[only] = looking[only] \/ DedupLook(only)
      BY <1>2 DEF Next, Clients, Step, Enqueue, DeleteMemory, CliPrune,
         MaybePrune, Recover, Select, SelectNone, Claim, ClaimLost, Apply,
         MarkDone, MarkFailed, Mark, ExitThread, Start, StopRequest, Kill,
         Tick, vars
    <3> QED BY <2>2, <3>1 DEF OneDedup, LookIsFresh, DedupLook
  <2> QED BY <2>1, <2>2 DEF OneDedup, LookIsFresh
<1> QED BY <1>1, <1>2

\* With one `sage-memory dedup` at a time its check-then-insert is enough: no
\* interleaving with workers, resets and prunes opens a second dedup task.
THEOREM OneOpenDedup ==
    ASSUME NEW only, Cli = {only} PROVE Spec => []AtMostOneOpenDedup
<1>1. Init => OneDedup
  BY DEF Init, OneDedup, LookIsFresh, OpenDedups
<1>2. TypeOK /\ OneDedup /\ [Next]_vars => OneDedup'
  BY NextOneDedup
<1>3. OneDedup => AtMostOneOpenDedup
  <2> SUFFICES ASSUME OneDedup PROVE Cardinality(OpenDedups) <= 1
    BY DEF AtMostOneOpenDedup
  <2>1. CASE OpenDedups = {}
    BY <2>1, FS_EmptySet
  <2>2. CASE OpenDedups # {}
    <3>1. PICK t : OpenDedups = {t}
      BY <2>2 DEF OneDedup
    <3>2. Cardinality({t}) = 1
      BY FS_Singleton
    <3> QED BY <3>1, <3>2
  <2> QED BY <2>1, <2>2
<1> QED BY <1>1, <1>2, <1>3, TypeCorrect, PTL DEF Spec
-----------------------------------------------------------------------------
(* The queue implements the task pool *)

\* The state of Pool, by name.
Waiting  == {t \in Task : status[t] = "pending" \/ Orphaned(t)}
Carried  == [w \in Worker |-> IF Executing(w) /\ status[sel[w]] \in Open
                              THEN sel[w] ELSE NoTask]
Finished == {t \in Task : status[t] \in Closed}
Known    == {t \in Task : status[t] # "fresh"}

\* Rows that are not inserted yet belong to no memory: a delete does not use up
\* their ids.
FreshIsUnbound == \A t \in Task : status[t] = "fresh" => mem[t] = NoMemory

QueueInv == TypeOK /\ Exclusive /\ FreshIsUnbound

LEMMA InitQueueInv == Init => QueueInv
BY InitTypeOK, InitExclusive DEF Init, QueueInv, FreshIsUnbound

LEMMA NextFreshIsUnbound == TypeOK /\ FreshIsUnbound /\ [Next]_vars => FreshIsUnbound'
<1> SUFFICES ASSUME TypeOK, FreshIsUnbound, [Next]_vars PROVE FreshIsUnbound'
  OBVIOUS
<1>1. ASSUME NEW t \in Task
      PROVE  status'[t] = "fresh" => status[t] = "fresh"
  BY <1>1, EveryRowStep DEF RowStep, Closed
<1>2. ASSUME NEW m \in Memory, NEW x \in Task \cup {NoTask}, NEW r \in Task \cup {NoTask},
             Enqueue(m, x, r)
      PROVE  FreshIsUnbound'
  BY <1>2 DEF Enqueue, Become, FreshIsUnbound, TypeOK
<1>3. CASE UNCHANGED mem
  BY <1>1, <1>3 DEF FreshIsUnbound
<1>4. (\E m \in Memory, x, r \in Task \cup {NoTask} : Enqueue(m, x, r)) \/ UNCHANGED mem
  BY DEF Next, Clients, Step, vars, row, DeleteMemory, DedupLook, DedupInsert, CliPrune,
     MaybePrune, Recover, Select, SelectNone, Claim, ClaimLost, Apply, MarkDone, MarkFailed,
     Mark, ExitThread, Start, StopRequest, Kill, Tick
<1> QED BY <1>2, <1>3, <1>4

LEMMA NextQueueInv ==
    ASSUME MaxRun <= Stale, QueueInv, [Next]_vars PROVE QueueInv'
BY NextTypeOK, NextExclusive, NextFreshIsUnbound DEF QueueInv

\* What a runner holds is a row that says running, or is gone.
LEMMA HeldRows ==
    ASSUME QueueInv, NEW w \in Worker, Executing(w)
    PROVE  sel[w] \in Task /\ status[sel[w]] \in {"running", "gone"}
BY DEF QueueInv, TypeOK, Exclusive, HolderRuns

\* Steps that change no row and no holding are invisible.
LEMMA InvisibleStep ==
    ASSUME UNCHANGED status,
           \A v \in Worker : /\ Executing(v)' <=> Executing(v)
                             /\ Executing(v) => sel'[v] = sel[v]
    PROVE  UNCHANGED Pool!vars
<1>1. \A t \in Task : Orphaned(t)' <=> Orphaned(t)
  BY DEF Orphaned, Holds
<1>2. Waiting' = Waiting
  BY <1>1 DEF Waiting
<1>3. Carried' = Carried
  BY DEF Carried
<1>4. Finished' = Finished /\ Known' = Known
  BY DEF Finished, Known
<1> QED BY <1>2, <1>3, <1>4 DEF Pool!vars, Waiting, Carried, Finished, Known

\* Rows are inserted: nobody holds them.
LEMMA SubmitStep ==
    ASSUME QueueInv, UNCHANGED thread,
           NEW S \in SUBSET Task, S # {}, \A t \in S : status[t] = "fresh",
           status' = [t \in Task |-> IF t \in S THEN "pending" ELSE status[t]]
    PROVE  Pool!Submit(S)
<1>1. \A w \in Worker : Executing(w) => sel[w] \in Task \ S
  BY HeldRows
<1>2. \A w \in Worker, t \in Task : Holds(w, t)' <=> Holds(w, t)
  BY DEF thread, Holds, Executing
<1>3. \A t \in Task \ S : Orphaned(t)' <=> Orphaned(t)
  BY <1>2 DEF Orphaned
<1>4. Waiting' = Waiting \cup S
  BY <1>3 DEF Waiting, Orphaned
<1>5. Carried' = Carried
  BY <1>1 DEF Carried, thread, Executing
<1>6. Finished' = Finished
  BY DEF Finished, Closed
<1>7. Known' = Known \cup S /\ S \cap Known = {}
  BY DEF Known
<1> QED BY <1>4, <1>5, <1>6, <1>7 DEF Pool!Submit, Waiting, Carried, Finished, Known

\* Rows are deleted, in whatever state.
LEMMA DiscardStep ==
    ASSUME QueueInv,
           \A v \in Worker : /\ Executing(v)' <=> Executing(v)
                             /\ Executing(v) => sel'[v] = sel[v],
           NEW S \in SUBSET Task, \A t \in S : status[t] # "fresh",
           status' = [t \in Task |-> IF t \in S THEN "gone" ELSE status[t]]
    PROVE  Pool!Discard(S) \/ UNCHANGED Pool!vars
<1>1. CASE S = {}
  <2>1. UNCHANGED status
    BY <1>1 DEF QueueInv, TypeOK
  <2> QED BY <2>1, InvisibleStep
<1>2. CASE S # {}
  <2>1. \A w \in Worker, t \in Task : Holds(w, t)' <=> Holds(w, t)
    BY DEF Holds
  <2>2. \A t \in Task \ S : Orphaned(t)' <=> Orphaned(t)
    BY <2>1 DEF Orphaned
  <2>3. Waiting' = Waiting \ S
    BY <2>2 DEF Waiting, Orphaned
  <2>4. Carried' = [w \in Worker |-> IF Carried[w] \in S THEN NoTask ELSE Carried[w]]
    BY HeldRows, NullsAreNew DEF Carried, Open
  <2>5. Finished' = Finished \ S
    BY DEF Finished, Closed
  <2>6. Known' = Known
    BY DEF Known
  <2> QED BY <1>2, <2>3, <2>4, <2>5, <2>6 DEF Pool!Discard, Waiting, Carried, Finished, Known
<1> QED BY <1>1, <1>2

\* Worker w lets go of its row; the others keep theirs.
LeavesRow(w) ==
    /\ Executing(w) /\ ~Executing(w)'
    /\ \A v \in Worker \ {w} : /\ Executing(v)' <=> Executing(v)
                               /\ Executing(v) => sel'[v] = sel[v]

\* A mark closes the row in hand, if it is still there.
LEMMA CloseStep ==
    ASSUME QueueInv, NEW w \in Worker, LeavesRow(w), NEW s \in Closed,
           Become({sel[w]} \ InState("gone"), s, 0)
    PROVE  Pool!Close(w) \/ UNCHANGED Pool!vars
<1>1. \A v \in Worker \ {w} : Executing(v) => sel[v] # sel[w]
  BY HeldRows DEF LeavesRow, QueueInv, Exclusive, AtMostOneRunner, Holds
<1>2. \A t \in Task \ {sel[w]}, v \in Worker : Holds(v, t)' <=> Holds(v, t)
  BY DEF LeavesRow, Holds
<1>3. \A t \in Task \ {sel[w]} : status'[t] = status[t]
  BY DEF Become
<1>4. \A t \in Task \ {sel[w]} : Orphaned(t)' <=> Orphaned(t)
  BY <1>2, <1>3 DEF Orphaned
<1>5. sel[w] \in Task /\ status[sel[w]] \in {"running", "gone"} /\ ~Orphaned(sel[w])
  BY HeldRows DEF LeavesRow, Orphaned, Holds
<1>6. status'[sel[w]] = IF status[sel[w]] = "gone" THEN "gone" ELSE s
  BY <1>5 DEF Become, InState
<1>7. Waiting' = Waiting
  BY <1>3, <1>4, <1>5, <1>6 DEF Waiting, Orphaned, Closed
<1>8. Known' = Known
  BY <1>3, <1>5, <1>6 DEF Known, Closed
<1>9. Carried' = [Carried EXCEPT ![w] = NoTask]
  <2>1. ASSUME NEW v \in Worker, v # w PROVE Carried'[v] = Carried[v]
    <3>1. Executing(v) => status'[sel[v]] = status[sel[v]]
      BY <1>1, <1>3, <2>1, HeldRows
    <3> QED BY <2>1, <3>1 DEF Carried, LeavesRow
  <2>2. Carried'[w] = NoTask
    BY DEF Carried, LeavesRow
  <2> QED BY <2>1, <2>2 DEF Carried
<1>10. CASE status[sel[w]] = "gone"
  <2>1. Carried' = Carried
    BY <1>9, <1>10 DEF Carried, Open
  <2>2. Finished' = Finished
    BY <1>3, <1>6, <1>10 DEF Finished
  <2> QED BY <1>7, <1>8, <2>1, <2>2 DEF Pool!vars, Waiting, Carried, Finished, Known
<1>11. CASE status[sel[w]] = "running"
  <2>1. Carried[w] = sel[w] /\ sel[w] # NoTask
    BY <1>5, <1>11, NullsAreNew DEF Carried, Open, LeavesRow
  <2>2. Finished' = Finished \cup {Carried[w]}
    BY <1>3, <1>5, <1>6, <1>11, <2>1 DEF Finished
  <2> QED
    BY <1>7, <1>8, <1>9, <2>1, <2>2 DEF Pool!Close, Waiting, Carried, Finished, Known
<1> QED BY <1>5, <1>10, <1>11

\* The row of a worker that dies is nobody's, so it counts as open.
LEMMA GiveBackStep ==
    ASSUME QueueInv, NEW w \in Worker, LeavesRow(w), UNCHANGED status
    PROVE  Pool!GiveBack(w) \/ UNCHANGED Pool!vars
<1>1. \A v \in Worker \ {w} : Executing(v) => sel[v] # sel[w]
  BY HeldRows DEF LeavesRow, QueueInv, Exclusive, AtMostOneRunner, Holds
<1>2. \A t \in Task \ {sel[w]}, v \in Worker : Holds(v, t)' <=> Holds(v, t)
  BY DEF LeavesRow, Holds
<1>3. \A t \in Task \ {sel[w]} : Orphaned(t)' <=> Orphaned(t)
  BY <1>2 DEF Orphaned
<1>4. sel[w] \in Task /\ status[sel[w]] \in {"running", "gone"} /\ ~Orphaned(sel[w])
  BY HeldRows DEF LeavesRow, Orphaned, Holds
<1>5. ASSUME NEW t \in Task, t = sel[w], NEW v \in Worker PROVE ~Holds(v, t)'
  BY <1>1, <1>5 DEF Holds, LeavesRow
<1>6. Finished' = Finished /\ Known' = Known
  BY DEF Finished, Known
<1>7. Carried' = [Carried EXCEPT ![w] = NoTask]
  BY <1>1, HeldRows DEF Carried, LeavesRow
<1>8. CASE status[sel[w]] = "gone"
  <2>1. Carried' = Carried
    BY <1>7, <1>8 DEF Carried, Open
  <2>2. Waiting' = Waiting
    BY <1>3, <1>4, <1>8 DEF Waiting, Orphaned
  <2> QED BY <1>6, <2>1, <2>2 DEF Pool!vars, Waiting, Carried, Finished, Known
<1>9. CASE status[sel[w]] = "running"
  <2>1. Carried[w] = sel[w] /\ sel[w] # NoTask
    BY <1>4, <1>9, NullsAreNew DEF Carried, Open, LeavesRow
  <2>2. ASSUME NEW t \in Task PROVE t \in Waiting' <=> t \in Waiting \/ t = sel[w]
    <3>1. CASE t = sel[w]
      BY <1>5, <1>9, <3>1 DEF Waiting, Orphaned
    <3>2. CASE t # sel[w]
      BY <1>3, <3>2 DEF Waiting
    <3> QED BY <3>1, <3>2
  <2>3. Waiting' = Waiting \cup {Carried[w]}
    BY <1>4, <2>1, <2>2 DEF Waiting
  <2> QED
    BY <1>6, <1>7, <2>1, <2>3 DEF Pool!GiveBack, Waiting, Carried, Finished, Known
<1> QED BY <1>4, <1>8, <1>9
LEMMA ClaimImplements ==
    ASSUME QueueInv, NEW w \in Worker, Claim(w)
    PROVE  \E t \in Task : Pool!Take(w, t)
<1>1. PICK t \in Task : t = sel[w] /\ status[t] = "pending"
  BY DEF Claim, QueueInv, TypeOK
<1>2. ~Executing(w) /\ Executing(w)' /\ UNCHANGED sel
  BY DEF Claim, Goto, Executing, QueueInv, TypeOK
<1>3. \A v \in Worker \ {w} : Executing(v)' <=> Executing(v)
  BY DEF Claim, Goto, Executing, QueueInv, TypeOK
<1>4. status' = [u \in Task |-> IF u = t THEN "running" ELSE status[u]]
  BY <1>1 DEF Claim, Become
<1>5. ASSUME NEW u \in Task, u # t PROVE Orphaned(u)' <=> Orphaned(u)
  <2>1. \A v \in Worker : Holds(v, u)' <=> Holds(v, u)
    BY <1>1, <1>2, <1>3, <1>5 DEF Holds
  <2> QED BY <1>4, <1>5, <2>1 DEF Orphaned
<1>6. ~Orphaned(t)'
  BY <1>1, <1>2 DEF Orphaned, Holds
<1>7. Waiting' = Waiting \ {t} /\ t \in Waiting
  BY <1>1, <1>4, <1>5, <1>6 DEF Waiting
<1>8. \A v \in Worker \ {w} : Executing(v) => sel[v] # t
  BY <1>1, HeldRows
<1>9. Carried' = [Carried EXCEPT ![w] = t]
  <2>1. ASSUME NEW v \in Worker, v # w PROVE Carried'[v] = Carried[v]
    <3>1. Executing(v) => status'[sel[v]] = status[sel[v]]
      BY <1>4, <1>8, <2>1, HeldRows
    <3> QED BY <1>2, <1>3, <2>1, <3>1 DEF Carried
  <2>2. Carried'[w] = t
    BY <1>1, <1>2, <1>4 DEF Carried, Open
  <2> QED BY <2>1, <2>2 DEF Carried
<1>10. Carried[w] = NoTask
  BY <1>2 DEF Carried
<1>11. Finished' = Finished /\ Known' = Known
  BY <1>1, <1>4 DEF Finished, Known, Closed
<1>12. Pool!Take(w, t)
  BY <1>7, <1>9, <1>10, <1>11 DEF Pool!Take, Waiting, Carried, Finished, Known
<1> QED BY <1>12

\* The startup recovery resets only rows nobody runs: they were open already.
LEMMA RecoverImplements ==
    ASSUME MaxRun <= Stale, QueueInv, NEW w \in Worker, Recover(w),
           \A v \in Worker : /\ Executing(v)' <=> Executing(v)
                             /\ Executing(v) => sel'[v] = sel[v]
    PROVE  UNCHANGED Pool!vars
<1>1. PICK S \in SUBSET Task : S = {t \in InState("running") : age[t] > Stale}
  BY DEF InState
<1>2. status' = [t \in Task |-> IF t \in S THEN "pending" ELSE status[t]]
  BY <1>1 DEF Recover, Become
<1>3. \A t \in S : status[t] = "running"
  BY <1>1 DEF InState
<1>4. ASSUME NEW v \in Worker, Executing(v) PROVE sel[v] \in Task \ S
  <2>1. runFor[v] \in Nat /\ runFor[v] <= Stale
    BY TimesAreNat DEF QueueInv, TypeOK
  <2>2. status[sel[v]] = "running" => age[sel[v]] = runFor[v]
    BY <1>4 DEF QueueInv, Exclusive, HolderRuns
  <2> QED BY <1>1, <1>3, <1>4, <2>1, <2>2, HeldRows, TimesAreNat
<1>5. \A v \in Worker, t \in Task : Holds(v, t)' <=> Holds(v, t)
  BY DEF Holds
<1>6. \A t \in Task \ S : Orphaned(t)' <=> Orphaned(t)
  BY <1>2, <1>5 DEF Orphaned
<1>7. \A t \in S : Orphaned(t)
  BY <1>3, <1>4 DEF Orphaned, Holds
<1>8. Waiting' = Waiting
  BY <1>2, <1>6, <1>7 DEF Waiting
<1>9. Carried' = Carried
  BY <1>2, <1>4 DEF Carried
<1>10. Finished' = Finished /\ Known' = Known
  BY <1>2, <1>3 DEF Finished, Known, Closed
<1> QED BY <1>8, <1>9, <1>10 DEF Pool!vars, Waiting, Carried, Finished, Known

\* Retention discards closed rows.
LEMMA PruneImplements ==
    ASSUME QueueInv, PruneRows,
           \A v \in Worker : /\ Executing(v)' <=> Executing(v)
                             /\ Executing(v) => sel'[v] = sel[v]
    PROVE  [Pool!Next]_Pool!vars
<1>1. PICK S \in SUBSET Task : S = Expired(Retention)
  BY DEF Expired
<1>2. \A t \in S : status[t] # "fresh"
  BY <1>1 DEF Expired, Closed
<1>3. status' = [t \in Task |-> IF t \in S THEN "gone" ELSE status[t]]
  BY <1>1 DEF PruneRows, Become
<1> QED BY <1>2, <1>3, DiscardStep DEF Pool!Next

-----------------------------------------------------------------------------
LEMMA ClientsImplement ==
    ASSUME QueueInv, Clients PROVE [Pool!Next]_Pool!vars
<1>1. ASSUME NEW m \in Memory, NEW x \in Task \cup {NoTask},
             NEW r \in Task \cup {NoTask}, Enqueue(m, x, r)
      PROVE  Pool!Next
  <2>1. PICK S \in SUBSET Task : S = {x, r} \ {NoTask}
    OBVIOUS
  <2>2. S # {} /\ \A t \in S : status[t] = "fresh"
    BY <1>1, <2>1 DEF Enqueue, InState
  <2>3. status' = [t \in Task |-> IF t \in S THEN "pending" ELSE status[t]]
    BY <1>1, <2>1, NullsAreNew DEF Enqueue, Become
  <2>4. Pool!Submit(S)
    BY <1>1, <2>2, <2>3, SubmitStep DEF Enqueue
  <2> QED BY <2>4 DEF Pool!Next
<1>2. ASSUME NEW m \in Memory, DeleteMemory(m) PROVE [Pool!Next]_Pool!vars
  <2>1. PICK S \in SUBSET Task : S = {t \in Task : mem[t] = m}
    OBVIOUS
  <2>2. \A t \in S : status[t] # "fresh"
    BY <2>1, NullsAreNew DEF QueueInv, FreshIsUnbound
  <2>3. status' = [t \in Task |-> IF t \in S THEN "gone" ELSE status[t]]
    BY <1>2, <2>1 DEF DeleteMemory, Become
  <2>4. \A v \in Worker : (Executing(v)' <=> Executing(v)) /\ sel'[v] = sel[v]
    BY <1>2 DEF DeleteMemory, thread, Executing
  <2>5. Pool!Discard(S) \/ UNCHANGED Pool!vars
    BY <2>2, <2>3, <2>4, DiscardStep
  <2> QED BY <2>5 DEF Pool!Next
<1>3. ASSUME NEW c \in Cli, DedupLook(c) PROVE UNCHANGED Pool!vars
  BY <1>3, InvisibleStep DEF DedupLook, row, thread, Executing
<1>4. ASSUME NEW c \in Cli, NEW t \in Task, DedupInsert(c, t) PROVE Pool!Next
  <2>1. Pool!Submit({t})
    BY <1>4, SubmitStep DEF DedupInsert, Become
  <2> QED BY <2>1 DEF Pool!Next
<1>5. CASE CliPrune
  <2>1. \A v \in Worker : (Executing(v)' <=> Executing(v)) /\ sel'[v] = sel[v]
    BY <1>5 DEF CliPrune, thread, Executing
  <2> QED BY <1>5, <2>1, PruneImplements DEF CliPrune
<1> QED BY <1>1, <1>2, <1>3, <1>4, <1>5 DEF Clients

LEMMA WorkersImplement ==
    ASSUME MaxRun <= Stale, QueueInv, NEW w \in Worker,
           Step(w) \/ Start(w) \/ StopRequest(w) \/ Kill(w)
    PROVE  [Pool!Next]_Pool!vars
<1> USE DEF QueueInv
<1>1. CASE Start(w) \/ SelectNone(w) \/ ClaimLost(w) \/ ExitThread(w) \/ StopRequest(w)
           \/ Select(w) \/ Apply(w) \/ MaybePrune(w) \/ Recover(w)
  <2>1. \A v \in Worker \ {w} : (Executing(v)' <=> Executing(v)) /\ sel'[v] = sel[v]
    BY <1>1 DEF Start, SelectNone, ClaimLost, ExitThread, StopRequest, Select, Apply,
       MaybePrune, Recover, Goto, TypeOK, Executing
  <2>2. (Executing(w)' <=> Executing(w)) /\ (Executing(w) => sel'[w] = sel[w])
    <3>1. CASE StopRequest(w)
      BY <3>1 DEF StopRequest, Executing
    <3>2. CASE Select(w)
      BY <3>2 DEF Select, Goto, Executing, TypeOK
    <3>3. CASE Start(w) \/ SelectNone(w) \/ ClaimLost(w) \/ ExitThread(w)
      BY <3>3 DEF Start, SelectNone, ClaimLost, ExitThread, Goto, Executing, TypeOK
    <3>4. CASE Apply(w) \/ MaybePrune(w) \/ Recover(w)
      BY <3>4 DEF Apply, MaybePrune, Recover, Goto, Executing, TypeOK
    <3> QED BY <1>1, <3>1, <3>2, <3>3, <3>4
  <2>3. \A v \in Worker : /\ Executing(v)' <=> Executing(v)
                          /\ Executing(v) => sel'[v] = sel[v]
    BY <2>1, <2>2
  <2>4. CASE MaybePrune(w) /\ pruneAge >= PruneGap
    BY <2>3, <2>4, PruneImplements DEF MaybePrune
  <2>5. CASE Recover(w)
    BY <2>3, <2>5, RecoverImplements
  <2>6. CASE UNCHANGED status
    BY <2>3, <2>6, InvisibleStep
  <2>7. \/ MaybePrune(w) /\ pruneAge >= PruneGap
        \/ Recover(w)
        \/ UNCHANGED status
    BY <1>1 DEF Start, SelectNone, ClaimLost, ExitThread, StopRequest, Select, Apply,
       MaybePrune, row
  <2> QED BY <2>4, <2>5, <2>6, <2>7
<1>2. CASE Claim(w)
  BY <1>2, ClaimImplements DEF Pool!Next
<1>3. CASE MarkDone(w) \/ MarkFailed(w)
  <2>1. PICK s \in Closed : Executing(w) /\ Mark(w, s)
    BY <1>3 DEF MarkDone, MarkFailed, Closed, Executing
  <2>2. LeavesRow(w)
    BY <2>1 DEF Mark, Goto, LeavesRow, Executing, TypeOK
  <2> QED BY <2>1, <2>2, CloseStep DEF Mark, Pool!Next
<1>4. CASE Kill(w)
  <2>1. UNCHANGED status
    BY <1>4 DEF Kill, row
  <2>2. \A v \in Worker \ {w} : (Executing(v)' <=> Executing(v)) /\ sel'[v] = sel[v]
    BY <1>4 DEF Kill, Goto, Executing, TypeOK
  <2>3. ~Executing(w)'
    BY <1>4 DEF Kill, Goto, Executing, TypeOK
  <2>4. CASE Executing(w)
    BY <2>1, <2>2, <2>3, <2>4, GiveBackStep DEF LeavesRow, Pool!Next
  <2>5. CASE ~Executing(w)
    BY <2>1, <2>2, <2>3, <2>5, InvisibleStep
  <2> QED BY <2>4, <2>5
<1> QED BY <1>1, <1>2, <1>3, <1>4 DEF Step

\* The queue keeps the task pool's promises, if no task runs for longer than the
\* recovery's threshold: tasks are submitted once, held by one worker at a time,
\* closed once or given back, and otherwise leave with their rows.
THEOREM QueueIsPool ==
    ASSUME MaxRun <= Stale PROVE Spec => ImplementsTaskPool
<1>1. Init => Pool!Init
  BY DEF Init, Pool!Init, Orphaned, Executing, Closed
<1>2. QueueInv /\ [Next]_vars => [Pool!Next]_Pool!vars
  <2> SUFFICES ASSUME QueueInv, [Next]_vars PROVE [Pool!Next]_Pool!vars
    OBVIOUS
  <2>1. CASE Tick
    <3>1. \A v \in Worker : (Executing(v)' <=> Executing(v)) /\ sel'[v] = sel[v]
      BY <2>1 DEF Tick, Executing
    <3> QED BY <2>1, <3>1, InvisibleStep DEF Tick
  <2>2. CASE UNCHANGED vars
    <3>1. \A v \in Worker : (Executing(v)' <=> Executing(v)) /\ sel'[v] = sel[v]
      BY <2>2 DEF vars, thread, Executing
    <3> QED BY <2>2, <3>1, InvisibleStep DEF vars, row
  <2> QED BY <2>1, <2>2, ClientsImplement, WorkersImplement DEF Next
<1>3. Init => QueueInv
  BY InitQueueInv
<1>4. QueueInv /\ [Next]_vars => QueueInv'
  BY NextQueueInv
<1> QED BY <1>1, <1>2, <1>3, <1>4, PTL DEF Spec, ImplementsTaskPool, Pool!Spec
=============================================================================
