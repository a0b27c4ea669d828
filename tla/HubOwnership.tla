---------------------------- MODULE HubOwnership ----------------------------
(***************************************************************************)
(* The owner file of one hub-registered project, .hub-owner.json, and the  *)
(* processes that read, create, replace and unlink it (hub/ownership.py):  *)
(* routed stores (hub/store.py) and imports (hub/importer.py), which hold  *)
(* an ownership token while they write, and plain store, update, delete    *)
(* and link calls, which only look at the file.                            *)
(*                                                                         *)
(* Every file operation is a step.  acquire() reads the clock once, when   *)
(* it starts, so the heartbeat a claim carries is as old as the operation  *)
(* that wrote it: one clock per process and one age for the file, both     *)
(* saturating, stand for all the timestamps.  No production code starts    *)
(* heartbeat_loop and nothing acquires for longer than one operation, so   *)
(* there is no heartbeat here.  A pid is never used twice.                 *)
(***************************************************************************)
EXTENDS Naturals, FiniteSets

CONSTANTS
    Proc,       \* processes, which are also the pids in the file
    NoProc,
    Ttl,        \* STALE_AFTER_SECONDS
    MaxOp,      \* bound: the longest a routed store or import takes
    MaxTries,   \* acquire's _max_retries
    MaxCrash,   \* bound: processes that may die
    RmAllowed   \* whether the operator uses the rm escape hatch

ASSUME BoundsAreNat ==
    /\ Ttl \in Nat /\ MaxOp \in Nat
    /\ MaxTries \in Nat \ {0} /\ MaxCrash \in Nat
    /\ RmAllowed \in BOOLEAN
ASSUME NoProcIsNone == NoProc \notin Proc

VARIABLES
    owner,      \* owner_pid of the file, or who created it; NoProc: no file
    filled,     \* its JSON is there (FALSE between open() and write())
    age,        \* age of its owner_heartbeat
    pc,         \* where process p is
    clock,      \* time since p's acquire() read the clock
    tries,      \* passes through acquire's loop
    cached,     \* age of p's _disabled_writes entry; Ttl + 1: none, or expired
    overrun     \* history: a reclaim replaced the claim of a live process

file == <<owner, filled, age>>
vars == <<file, pc, clock, tries, cached, overrun>>

\* idle -> create -> fill | inspect -> (exists | replace -> verify)
\*      -> own -> leave -> idle, or -> refused -> idle
Pc == {"idle", "create", "fill", "inspect", "exists", "replace", "verify",
       "own", "leave", "refused", "dead"}

\* p is in acquire's loop.
Looping == {"create", "inspect", "exists"}

\* p has, or is about to be told it has, the ownership token.
Claims(p) == pc[p] \in {"fill", "verify", "own", "leave"}

\* p is inside acquire(), or holds what it returned.
Working(p) == pc[p] \notin {"idle", "refused", "dead"}

MaxAge == Ttl + MaxOp + 1

\* Every variable has its type: ages and clocks under their caps, and no more
\* passes through the loop than acquire() allows.
TypeOK ==
    /\ owner \in Proc \cup {NoProc}
    /\ filled \in BOOLEAN
    /\ age \in 0..MaxAge
    /\ pc \in [Proc -> Pc]
    /\ clock \in [Proc -> 0..MaxOp]
    /\ tries \in [Proc -> 0..MaxTries]
    /\ \A p \in Proc : pc[p] \in Looping => tries[p] < MaxTries
    /\ cached \in [Proc -> 0..Ttl + 1]
    /\ overrun \in BOOLEAN

Init ==
    /\ owner = NoProc /\ filled = FALSE /\ age = 0
    /\ pc = [p \in Proc |-> "idle"]
    /\ clock = [p \in Proc |-> 0]
    /\ tries = [p \in Proc |-> 0]
    /\ cached = [p \in Proc |-> Ttl + 1]
    /\ overrun = FALSE

Goto(p, l) == pc' = [pc EXCEPT ![p] = l]

\* What _read_owner makes of the file: an empty one reads like a missing one.
Readable == owner # NoProc /\ filled

-----------------------------------------------------------------------------
(* acquire() *)

Begin(p) ==
    /\ pc[p] = "idle"
    /\ Goto(p, "create")
    /\ clock' = [clock EXCEPT ![p] = 0]
    /\ tries' = [tries EXCEPT ![p] = 0]
    /\ UNCHANGED <<file, cached, overrun>>

CreateOverwrites(p) ==
    /\ pc[p] = "create"
    /\ owner' = p /\ filled' = FALSE /\ age' = 0
    /\ Goto(p, "fill")
    /\ UNCHANGED <<clock, tries, cached, overrun>>

\* Step 1: O_CREAT | O_EXCL.
Create(p) ==
    /\ pc[p] = "create"
    /\ owner = NoProc
    /\ owner' = p /\ filled' = FALSE /\ age' = 0
    /\ Goto(p, "fill")
    /\ UNCHANGED <<clock, tries, cached, overrun>>

CreateExists(p) ==
    /\ pc[p] = "create"
    /\ owner # NoProc
    /\ Goto(p, "inspect")
    /\ UNCHANGED <<file, clock, tries, cached, overrun>>

\* The payload goes to the descriptor; it is lost with a file that was unlinked
\* or replaced in between, and the token is returned all the same.
Fill(p) ==
    /\ pc[p] = "fill"
    /\ IF owner = p /\ ~filled
       THEN owner' = p /\ filled' = TRUE /\ age' = clock[p]
       ELSE UNCHANGED file
    /\ Goto(p, "own")
    /\ UNCHANGED <<clock, tries, cached, overrun>>

\* Step 2: how old the claim on file is, by p's clock reading.
Stale(p) == Readable /\ age > clock[p] + Ttl

InspectRefuses(p) ==
    /\ pc[p] = "inspect"
    /\ Goto(p, IF ~Readable THEN "exists" ELSE "refused")
    /\ UNCHANGED <<file, clock, tries, cached, overrun>>

Inspect(p) ==
    /\ pc[p] = "inspect"
    /\ Goto(p, IF ~Readable THEN "exists"
               ELSE IF Stale(p) THEN "replace" ELSE "refused")
    /\ UNCHANGED <<file, clock, tries, cached, overrun>>

ExistsUnbounded(p) ==
    /\ pc[p] = "exists"
    /\ tries' = [tries EXCEPT ![p] = @ + 1]
    /\ Goto(p, IF owner = NoProc THEN "create" ELSE "refused")
    /\ UNCHANGED <<file, clock, cached, overrun>>

\* Nothing readable: the loop starts over if the file vanished, and gives up on
\* one that exists and is empty (or was created since the read).
Exists(p) ==
    /\ pc[p] = "exists"
    /\ tries' = [tries EXCEPT ![p] = @ + 1]
    /\ Goto(p, IF owner = NoProc /\ tries[p] + 1 < MaxTries THEN "create"
               ELSE "refused")
    /\ UNCHANGED <<file, clock, cached, overrun>>

\* Step 3, _reclaim_stale: os.replace puts p's candidate file in place,
\* whatever is there by now.
Replace(p) ==
    /\ pc[p] = "replace"
    /\ owner' = p /\ filled' = TRUE /\ age' = clock[p]
    /\ overrun' = (overrun \/ \E q \in Proc : Claims(q) /\ owner = q)
    /\ Goto(p, "verify")
    /\ UNCHANGED <<clock, tries, cached>>

\* ... and the read that follows tells whether it still is.
Verify(p) ==
    /\ pc[p] = "verify"
    /\ Goto(p, IF Readable /\ owner = p THEN "own" ELSE "refused")
    /\ UNCHANGED <<file, clock, tries, cached, overrun>>

-----------------------------------------------------------------------------
(* check() and what writers do with it *)

Fresh == Readable /\ age <= Ttl

\* check() followed by is_disabled_for(): p's cache entry afterwards.  A fresh
\* claim of p's own leaves an older entry about another process in place.
Checked(p) == IF ~Fresh THEN Ttl + 1
              ELSE IF owner # p THEN age ELSE cached[p]

Blocked(p) == Checked(p) <= Ttl

RefuseReleases(p) ==
    /\ pc[p] = "refused"
    /\ owner' = NoProc /\ filled' = FALSE /\ age' = 0
    /\ Goto(p, "idle")
    /\ clock' = [clock EXCEPT ![p] = 0]
    /\ UNCHANGED <<tries, cached, overrun>>

\* acquire() returned None: the refusal names the owner check() finds.
Refuse(p) ==
    /\ pc[p] = "refused"
    /\ cached' = [cached EXCEPT ![p] = Checked(p)]
    /\ Goto(p, "idle")
    /\ clock' = [clock EXCEPT ![p] = 0]
    /\ UNCHANGED <<file, tries, overrun>>

\* A plain store(), update(), delete() or link(): block_envelope_if_disabled.
PlainCall(p) ==
    /\ pc[p] = "idle"
    /\ cached' = [cached EXCEPT ![p] = Checked(p)]
    /\ UNCHANGED <<file, pc, clock, tries, overrun>>

\* store_to_project calls store(), which makes the same check again: the write
\* happens, or the token holder is refused like anyone else.
RoutedStore(p) ==
    /\ pc[p] = "own"
    /\ cached' = [cached EXCEPT ![p] = Checked(p)]
    /\ Goto(p, "leave")
    /\ UNCHANGED <<file, clock, tries, overrun>>

\* import_from_project writes without that check.
Import(p) ==
    /\ pc[p] = "own"
    /\ Goto(p, "leave")
    /\ UNCHANGED <<file, clock, tries, cached, overrun>>

\* release(): the file is unlinked, whoever's it is.
Release(p) ==
    /\ pc[p] = "leave"
    /\ owner' = NoProc /\ filled' = FALSE /\ age' = 0
    /\ Goto(p, "idle")
    /\ clock' = [clock EXCEPT ![p] = 0]
    /\ UNCHANGED <<tries, cached, overrun>>

-----------------------------------------------------------------------------
(* The environment *)

\* A process dies where it stands; its claim stays on file.
Crash(p) ==
    /\ pc[p] # "dead"
    /\ Cardinality({q \in Proc : pc[q] = "dead"}) < MaxCrash
    /\ Goto(p, "dead")
    /\ UNCHANGED <<file, clock, tries, cached, overrun>>

\* The documented escape hatch: rm of a crashed process's claim.
OperatorRemoves ==
    /\ RmAllowed
    /\ \E q \in Proc : pc[q] = "dead" /\ owner = q
    /\ owner' = NoProc /\ filled' = FALSE /\ age' = 0
    /\ UNCHANGED <<pc, clock, tries, cached, overrun>>

Older(a, cap) == IF a < cap THEN a + 1 ELSE a

Tick ==
    /\ \A p \in Proc : Working(p) => clock[p] < MaxOp
    /\ age' = IF Readable THEN Older(age, MaxAge) ELSE age
    /\ clock' = [p \in Proc |-> IF Working(p) THEN clock[p] + 1 ELSE clock[p]]
    /\ cached' = [p \in Proc |-> Older(cached[p], Ttl + 1)]
    /\ UNCHANGED <<owner, filled, pc, tries, overrun>>

\* One operation of p, from create to refused or released.
Step(p) ==
    \/ Create(p) \/ CreateExists(p) \/ Fill(p) \/ Inspect(p) \/ Exists(p)
    \/ Replace(p) \/ Verify(p) \/ Refuse(p)
    \/ RoutedStore(p) \/ Import(p) \/ Release(p)

Next ==
    \/ \E p \in Proc : Begin(p) \/ Step(p) \/ PlainCall(p) \/ Crash(p)
    \/ OperatorRemoves
    \/ Tick

Spec == Init /\ [][Next]_vars

\* Operations go on, callers that were refused try again, and time passes.
Fairness == (\A p \in Proc : WF_vars(Step(p)) /\ WF_vars(Begin(p))) /\ WF_vars(Tick)

FairSpec == Spec /\ Fairness

-----------------------------------------------------------------------------
(* Properties *)

Holders == {p \in Proc : pc[p] \in {"own", "leave"}}

\* At most one process holds the token.
OneHolder == Cardinality(Holders) <= 1

\* ... and the only way to lose that is a reclaim that replaced the claim of a
\* process still at work: creations, releases, retries, deaths, the operator's
\* rm and reclaims of dead processes' claims never do.
OneHolderUnlessOverrun == ~overrun => OneHolder

\* As long as that did not happen, nobody but the process itself removes or
\* replaces a claim that is on file for a process at work: release() unlinks
\* without looking, and never hits another's file.
LiveClaimStands ==
    [][\A p \in Proc :
          Claims(p) /\ owner = p /\ ~overrun' =>
              owner' = p \/ (pc[p] = "leave" /\ pc'[p] = "idle")]_vars

\* A crashed process's claim does not block the others for good, provided its
\* payload was written.  (An empty file is for the operator to remove.)
DeadClaimIsReclaimed ==
    \A p \in Proc : pc[p] = "dead" /\ owner = p /\ filled ~> owner # p

\* The holder of the token is not refused by its own store().
HolderMayWrite ==
    \A p \in Proc : pc[p] = "own" /\ Fresh /\ owner = p => ~Blocked(p)
=============================================================================
