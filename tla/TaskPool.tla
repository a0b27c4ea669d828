------------------------------ MODULE TaskPool ------------------------------
(***************************************************************************)
(* What extraction_queue promises its users, with no worker loop, no clock *)
(* and no SQL in it: a submitted task is open until some worker takes it,  *)
(* one worker at a time holds it, and it is closed once.  A holder that    *)
(* dies gives the task back; a task leaves the pool for good when the row  *)
(* is discarded (its memory was deleted, or retention expired).            *)
(* WorkQueue is shown to implement this module.                            *)
(***************************************************************************)

CONSTANTS Task,     \* task ids, each used for one task ever
          Worker,   \* worker threads
          NoTask    \* "holds nothing"

VARIABLES open,     \* submitted, held by nobody
          held,     \* held[w]: the task worker w holds
          closed,   \* finished, successfully or not
          used      \* every id ever submitted

vars == <<open, held, closed, used>>

Init ==
    /\ open = {}
    /\ held = [w \in Worker |-> NoTask]
    /\ closed = {}
    /\ used = {}

\* New tasks enter the pool together, under ids never seen before.
Submit(S) ==
    /\ S # {}
    /\ S \cap used = {}
    /\ open' = open \cup S
    /\ used' = used \cup S
    /\ UNCHANGED <<held, closed>>

Take(w, t) ==
    /\ held[w] = NoTask
    /\ t \in open
    /\ open' = open \ {t}
    /\ held' = [held EXCEPT ![w] = t]
    /\ UNCHANGED <<closed, used>>

Close(w) ==
    /\ held[w] # NoTask
    /\ closed' = closed \cup {held[w]}
    /\ held' = [held EXCEPT ![w] = NoTask]
    /\ UNCHANGED <<open, used>>

\* The holder died: the task is open again.
GiveBack(w) ==
    /\ held[w] # NoTask
    /\ open' = open \cup {held[w]}
    /\ held' = [held EXCEPT ![w] = NoTask]
    /\ UNCHANGED <<closed, used>>

\* Rows disappear, whatever state they are in; nobody holds them any more.
Discard(S) ==
    /\ S # {}
    /\ open' = open \ S
    /\ closed' = closed \ S
    /\ held' = [w \in Worker |-> IF held[w] \in S THEN NoTask ELSE held[w]]
    /\ UNCHANGED used

Next ==
    \/ \E S \in SUBSET Task : Submit(S) \/ Discard(S)
    \/ \E w \in Worker : \/ \E t \in Task : Take(w, t)
                         \/ Close(w)
                         \/ GiveBack(w)

Spec == Init /\ [][Next]_vars
=============================================================================
