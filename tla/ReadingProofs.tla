--------------------------- MODULE ReadingProofs ----------------------------
(***************************************************************************)
(* Proofs about the graphs that are read.  The traversal of the memories'  *)
(* graph and the graph channel of search find what they are meant to       *)
(* (MemoryGraph), and so do the queries of the code graph, in which an     *)
(* import leaves others' rows alone (CodeQueries).  A text's symbols can   *)
(* be inserted in their order, and its names resolve to what they say      *)
(* (CodeText).  MCGraphs is extended for its instances of these; what it   *)
(* gives TLC is not used.                                                  *)
(*                                                                         *)
(* The library's induction theorems have an operator as a parameter; here  *)
(* induction is over a set of numbers, and recursion over a function from  *)
(* one state of the search to the next.                                    *)
(***************************************************************************)
EXTENDS MCGraphs, WellFoundedInduction, FiniteSetTheorems, TLAPS

-----------------------------------------------------------------------------
(* Numbers, and functions defined by recursion *)

\* A set of numbers that is not empty has a least member.
LEMMA LeastNumber ==
    ASSUME NEW T, T \subseteq Nat, T # {}
    PROVE  \E x \in T : \A y \in T : x <= y
<1> DEFINE R == OpToRel(<, Nat)
<1>1. IsWellFoundedOn(R, Nat) BY NatLessThanWellFounded
<1>2. PICK x \in T : \A y \in T : <<y, x>> \notin R
    <2> HIDE DEF R
    <2> QED BY <1>1, WFMin
<1>3. \A y \in T : ~ (y < x) BY <1>2 DEF OpToRel
<1> QED BY <1>3

\* Induction: a set with 0 that has n + 1 when it has n has all numbers.
LEMMA AllNumbers ==
    ASSUME NEW S, 0 \in S, \A n \in Nat : n \in S => n + 1 \in S
    PROVE  \A n \in Nat : n \in S
<1> SUFFICES ASSUME Nat \ S # {} PROVE FALSE OBVIOUS
<1>1. PICK x \in Nat \ S : \A y \in Nat \ S : x <= y BY LeastNumber
<1>2. x # 0 /\ x - 1 \in Nat BY <1>1
<1>3. x - 1 \in S BY <1>1, <1>2
<1>4. (x - 1) + 1 \in S BY <1>2, <1>3
<1> QED BY <1>1, <1>4

\* A function on the numbers that starts with c and goes on by g.
LEMMA Recursion ==
    ASSUME NEW X, NEW c \in X, NEW g \in [X -> X]
    PROVE  \E f \in [Nat -> X] : f = [n \in Nat |-> IF n = 0 THEN c ELSE g[f[n - 1]]]
<1> DEFINE Upto(n) == {f \in [0..n -> X] : f[0] = c /\ \A i \in 1..n : f[i] = g[f[i - 1]]}
<1>1. \A n \in Nat : Upto(n) # {}
    <2> DEFINE S == {n \in Nat : Upto(n) # {}}
    <2>1. 0 \in S
        <3>1. [i \in 0..0 |-> c] \in Upto(0) OBVIOUS
        <3> QED BY <3>1
    <2>2. ASSUME NEW n \in Nat, n \in S PROVE n + 1 \in S
        <3>1. PICK f \in Upto(n) : TRUE BY <2>2
        <3> DEFINE h == [i \in 0..n + 1 |-> IF i \in 0..n THEN f[i] ELSE g[f[n]]]
        <3>2. f[n] \in X /\ \A i \in 0..n : f[i] \in X OBVIOUS
        <3>3. h \in [0..n + 1 -> X] BY <3>2
        <3>4. h[0] = c OBVIOUS
        <3>5. ASSUME NEW i \in 1..n + 1 PROVE h[i] = g[h[i - 1]]
            <4>1. CASE i \in 1..n BY <4>1
            <4>2. CASE i = n + 1 BY <4>2
            <4> QED BY <4>1, <4>2
        <3>6. h \in Upto(n + 1) BY <3>3, <3>4, <3>5
        <3> QED BY <3>6
    <2> HIDE DEF S
    <2>3. \A n \in Nat : n \in S BY <2>1, <2>2, AllNumbers
    <2> QED BY <2>3 DEF S
<1>2. ASSUME NEW n \in Nat, NEW f \in Upto(n), NEW h \in Upto(n + 1)
      PROVE  h[n] = f[n]
    <2> DEFINE S == {i \in Nat : i <= n => h[i] = f[i]}
    <2>1. 0 \in S BY <1>2
    <2>2. ASSUME NEW i \in Nat, i \in S PROVE i + 1 \in S
        <3> SUFFICES ASSUME i + 1 <= n PROVE h[i + 1] = f[i + 1] OBVIOUS
        <3>1. h[i] = f[i] BY <2>2
        <3>2. i + 1 \in 1..n /\ i + 1 \in 1..n + 1 /\ (i + 1) - 1 = i OBVIOUS
        <3> QED BY <3>1, <3>2
    <2> HIDE DEF S
    <2>3. \A i \in Nat : i \in S BY <2>1, <2>2, AllNumbers
    <2> QED BY <2>3 DEF S
<1> DEFINE At(n) == CHOOSE f \in Upto(n) : TRUE
<1>3. \A n \in Nat : At(n) \in Upto(n) BY <1>1
<1>4. PICK F : F = [n \in Nat |-> At(n)[n]] OBVIOUS
<1>5. F \in [Nat -> X]
    <2>1. \A n \in Nat : At(n)[n] \in X
        <3> TAKE n \in Nat
        <3> HIDE DEF At
        <3> QED BY <1>3
    <2> HIDE DEF At
    <2> QED BY <1>4, <2>1
<1>6. F[0] = c BY <1>3, <1>4
<1>7. ASSUME NEW n \in Nat, n # 0 PROVE F[n] = g[F[n - 1]]
    <2>1. n - 1 \in Nat /\ (n - 1) + 1 = n BY <1>7
    <2>2. PICK h : h = At(n) OBVIOUS
    <2>3. PICK f : f = At(n - 1) OBVIOUS
    <2>4. h \in Upto(n) /\ f \in Upto(n - 1) BY <1>3, <2>1, <2>2, <2>3
    <2>5. h[n - 1] = f[n - 1] BY <1>2, <2>1, <2>4
    <2>6. n \in 1..n BY <1>7
    <2>7. h[n] = g[h[n - 1]] BY <2>4, <2>6
    <2>8. F[n] = h[n] /\ F[n - 1] = f[n - 1] BY <1>4, <2>1, <2>2, <2>3
    <2> QED BY <2>5, <2>7, <2>8
<1>8. F = [n \in Nat |-> IF n = 0 THEN c ELSE g[F[n - 1]]]
    <2>1. \A n \in Nat : F[n] = IF n = 0 THEN c ELSE g[F[n - 1]] BY <1>6, <1>7
    <2> QED BY <1>5, <2>1
<1> QED BY <1>5, <1>8

-----------------------------------------------------------------------------
(* The traversal of the memories' graph *)

\* Edges join memories that exist.
Joined == edges \subseteq rows \X Relation \X rows

Direction == {"outbound", "inbound", "both"}

\* The questions that are answered exactly: all but "both" with a relation.
Answered(dir, r) == dir \in Direction /\ ~(dir = "both" /\ r # None)

Touched(N, dir, r) == UNION {Incident(n, dir, r) : n \in N}

\* One edge of a path is one that is read at a node and leads to its other end.
LEMMA EdgeIsRead ==
    ASSUME Joined, NEW dir, NEW r, Answered(dir, r), NEW n \in rows
    PROVE  /\ \A q \in rows : OneEdge(n, q, dir, r) <=>
                 \E x \in Incident(n, dir, r) : OtherEnd(x, n, dir) = q
           /\ \A x \in Incident(n, dir, r) : OtherEnd(x, n, dir) \in rows
<1>1. CASE dir = "outbound"
    BY <1>1 DEF Joined, OneEdge, Incident, OtherEnd
<1>2. CASE dir = "inbound"
    BY <1>2 DEF Joined, OneEdge, Incident, OtherEnd
<1>3. CASE dir = "both"
    BY <1>3 DEF Joined, OneEdge, Incident, OtherEnd, Answered
<1> QED BY <1>1, <1>2, <1>3 DEF Answered, Direction

\* An edge read at two nodes leads from either to the other.
LEMMA ReadTwice ==
    ASSUME Joined, NEW dir, NEW r, Answered(dir, r), NEW n \in rows, NEW q \in rows, n # q,
           NEW x \in Incident(n, dir, r), x \in Incident(q, dir, r)
    PROVE  OtherEnd(x, n, dir) = q
<1>1. CASE dir = "outbound" BY <1>1 DEF Incident
<1>2. CASE dir = "inbound"  BY <1>2 DEF Incident
<1>3. CASE dir = "both"
    BY <1>3 DEF Incident, OtherEnd, Answered
<1> QED BY <1>1, <1>2, <1>3 DEF Answered, Direction

State == [seen : SUBSET rows, edges : SUBSET edges, level : SUBSET rows]

LEMMA LevelType ==
    ASSUME Joined, NEW dir, NEW r, Answered(dir, r), NEW at \in State
    PROVE  Level(at, dir, r) \in State
<1> DEFINE next == UNION {{OtherEnd(x, n, dir) : x \in Incident(n, dir, r) \ at.edges} : n \in at.level}
<1>1. next \subseteq rows BY EdgeIsRead DEF State
<1>2. UNION {Incident(n, dir, r) : n \in at.level} \subseteq edges BY DEF Incident
<1> QED BY <1>1, <1>2 DEF Level, State

\* The walk is what its definition says: the start, and level after level.
LEMMA WalkIs ==
    ASSUME Joined, NEW dir, NEW r, Answered(dir, r), NEW m \in rows
    PROVE  /\ Walk(m, dir, r) \in [Nat -> State]
           /\ Walk(m, dir, r)[0] = [seen |-> {m}, edges |-> {}, level |-> {m}]
           /\ \A d \in Nat : Walk(m, dir, r)[d + 1] = Level(Walk(m, dir, r)[d], dir, r)
<1>1. PICK c : c = [seen |-> {m}, edges |-> {}, level |-> {m}] OBVIOUS
<1>2. PICK g : g = [at \in State |-> Level(at, dir, r)] OBVIOUS
<1>3. c \in State BY <1>1 DEF State
<1>4. g \in [State -> State] BY <1>2, LevelType
<1>5. PICK f \in [Nat -> State] : f = [n \in Nat |-> IF n = 0 THEN c ELSE g[f[n - 1]]]
    BY <1>3, <1>4, Recursion
<1>6. f = [n \in Nat |-> IF n = 0 THEN c ELSE Level(f[n - 1], dir, r)]
    <2>1. \A n \in Nat : n # 0 => g[f[n - 1]] = Level(f[n - 1], dir, r)
        <3> SUFFICES ASSUME NEW n \in Nat, n # 0 PROVE g[f[n - 1]] = Level(f[n - 1], dir, r)
            OBVIOUS
        <3>1. f[n - 1] \in State BY <1>5
        <3> QED BY <1>2, <3>1
    <2> QED BY <1>5, <2>1
<1>7. Walk(m, dir, r) = [n \in Nat |-> IF n = 0 THEN c ELSE Level(Walk(m, dir, r)[n - 1], dir, r)]
    BY <1>1, <1>6 DEF Walk
<1>8. PICK W : W = Walk(m, dir, r) OBVIOUS
<1>9. W[0] = c /\ \A d \in Nat : W[d + 1] = Level(W[d], dir, r)
    <2>1. W = [n \in Nat |-> IF n = 0 THEN c ELSE Level(W[n - 1], dir, r)] BY <1>7, <1>8
    <2>2. \A d \in Nat : d + 1 \in Nat /\ d + 1 # 0 /\ (d + 1) - 1 = d OBVIOUS
    <2> QED BY <2>1, <2>2
<1>10. \A n \in Nat : W[n] \in State
    <2> DEFINE S == {n \in Nat : W[n] \in State}
    <2>1. 0 \in S BY <1>3, <1>9
    <2>2. \A n \in Nat : n \in S => n + 1 \in S BY <1>9, LevelType
    <2> HIDE DEF S
    <2>3. \A n \in Nat : n \in S BY <2>1, <2>2, AllNumbers
    <2> QED BY <2>3 DEF S
<1>11. W \in [Nat -> State] BY <1>7, <1>8, <1>10
<1> QED BY <1>1, <1>8, <1>9, <1>11

\* A path without edges leads nowhere else.
LEMMA WithinNone ==
    ASSUME NEW dir, NEW r, NEW m \in rows
    PROVE  Within(m, dir, r, 0) = {m}
<1> DEFINE Leads(p, k, q) == p[0] = m /\ p[k] = q /\ \A i \in 0..k-1 : OneEdge(p[i], p[i+1], dir, r)
<1>1. PICK p : p = [i \in 0..0 |-> m] OBVIOUS
<1>2. m \in Within(m, dir, r, 0)
    <2>1. p \in [0..0 -> rows] /\ p[0] = m BY <1>1
    <2>2. 0 \in 0..0 /\ \A i \in 0..0-1 : OneEdge(p[i], p[i+1], dir, r) OBVIOUS
    <2>3. \E k \in 0..0, h \in [0..0 -> rows] : Leads(h, k, m) BY <2>1, <2>2
    <2> QED BY <2>3 DEF Within
<1>3. Within(m, dir, r, 0) \subseteq {m} BY DEF Within
<1> QED BY <1>2, <1>3

Beyond(N, dir, r) == {q \in rows : \E n \in N : OneEdge(n, q, dir, r)}

\* What paths of one edge more lead to: what a single edge leads to from there.
LEMMA WithinStep ==
    ASSUME NEW dir, NEW r, NEW m \in rows, NEW d \in Nat
    PROVE  Within(m, dir, r, d + 1) = Within(m, dir, r, d) \cup Beyond(Within(m, dir, r, d), dir, r)
<1> DEFINE Leads(p, k, q) == p[0] = m /\ p[k] = q /\ \A i \in 0..k-1 : OneEdge(p[i], p[i+1], dir, r)
           From == Beyond(Within(m, dir, r, d), dir, r)
<1>1. ASSUME NEW q \in Within(m, dir, r, d + 1)
      PROVE  q \in Within(m, dir, r, d) \cup From
    <2>1. PICK k \in 0..d+1, p \in [0..d+1 -> rows] : Leads(p, k, q) BY DEF Within
    <2> DEFINE h == [i \in 0..d |-> p[i]]
    <2>2. h \in [0..d -> rows] OBVIOUS
    <2>3. CASE k \in 0..d
        <3>1. \A i \in 0..k-1 : i \in 0..d /\ i + 1 \in 0..d BY <2>3
        <3>2. Leads(h, k, q) BY <2>1, <2>3, <3>1
        <3>3. q \in rows BY <2>1, <2>3
        <3> HIDE DEF h
        <3> QED BY <2>2, <2>3, <3>2, <3>3 DEF Within
    <2>4. CASE k = d + 1
        <3>1. \A i \in 0..d-1 : i \in 0..d /\ i + 1 \in 0..d /\ i \in 0..k-1 BY <2>4
        <3>2. Leads(h, d, p[d]) BY <2>1, <2>4, <3>1
        <3>3. p[d] \in rows /\ q \in rows BY <2>1, <2>4
        <3>4. OneEdge(p[d], q, dir, r) BY <2>1, <2>4
        <3>5. d \in 0..d OBVIOUS
        <3> HIDE DEF h
        <3>6. p[d] \in Within(m, dir, r, d) BY <2>2, <3>2, <3>3, <3>5 DEF Within
        <3> QED BY <3>3, <3>4, <3>6 DEF Beyond
    <2> QED BY <2>1, <2>3, <2>4
<1>2. ASSUME NEW q \in Within(m, dir, r, d)
      PROVE  q \in Within(m, dir, r, d + 1)
    <2>1. PICK k \in 0..d, p \in [0..d -> rows] : Leads(p, k, q) BY DEF Within
    <2> DEFINE h == [i \in 0..d+1 |-> IF i \in 0..d THEN p[i] ELSE m]
    <2>2. h \in [0..d+1 -> rows] OBVIOUS
    <2>3. \A i \in 0..k-1 : i \in 0..d /\ i + 1 \in 0..d BY <2>1
    <2>4. Leads(h, k, q) BY <2>1, <2>3
    <2>5. q \in rows /\ k \in 0..d+1 BY <2>1
    <2> HIDE DEF h
    <2> QED BY <2>2, <2>4, <2>5 DEF Within
<1>3. ASSUME NEW q \in From
      PROVE  q \in Within(m, dir, r, d + 1)
    <2>1. PICK n \in Within(m, dir, r, d) : OneEdge(n, q, dir, r) BY DEF Beyond
    <2>2. PICK k \in 0..d, p \in [0..d -> rows] : Leads(p, k, n) BY DEF Within
    <2> DEFINE h == [i \in 0..d+1 |-> IF i \in 0..k THEN p[i] ELSE q]
    <2>3. q \in rows BY DEF Beyond
    <2>4. h \in [0..d+1 -> rows] BY <2>2, <2>3
    <2>5. k + 1 \in 0..d+1 /\ h[0] = m /\ h[k + 1] = q BY <2>2
    <2>6. ASSUME NEW i \in 0..k PROVE OneEdge(h[i], h[i + 1], dir, r)
        <3>1. CASE i = k
            <4>1. h[i] = n /\ h[i + 1] = q BY <2>2, <3>1
            <4> QED BY <2>1, <4>1
        <3>2. CASE i \in 0..k-1
            <4>1. h[i] = p[i] /\ h[i + 1] = p[i + 1] BY <2>2, <3>2
            <4> QED BY <2>2, <3>2, <4>1
        <3> QED BY <2>2, <3>1, <3>2
    <2>7. Leads(h, k + 1, q)
        <3>1. (k + 1) - 1 = k BY <2>2
        <3> QED BY <2>5, <2>6, <3>1
    <2> HIDE DEF h
    <2> QED BY <2>3, <2>4, <2>5, <2>7 DEF Within
<1> QED BY <1>1, <1>2, <1>3

\* What the walk has after d levels: it has seen what paths of d edges lead to, and
\* has read the edges at all it has seen but those of the last level.
Walked(at, m, dir, r, d) ==
    /\ at.seen = Within(m, dir, r, d)
    /\ at.level \subseteq at.seen
    /\ at.edges = Touched(at.seen \ at.level, dir, r)
    /\ \A n \in at.seen \ at.level : \A x \in Incident(n, dir, r) : OtherEnd(x, n, dir) \in at.seen

LEMMA WalkedStep ==
    ASSUME Joined, NEW dir, NEW r, Answered(dir, r), NEW m \in rows, NEW d \in Nat,
           NEW at \in State, Walked(at, m, dir, r, d)
    PROVE  /\ Walked(Level(at, dir, r), m, dir, r, d + 1)
           /\ Level(at, dir, r).edges = Touched(Within(m, dir, r, d), dir, r)
<1> DEFINE next == UNION {{OtherEnd(x, n, dir) : x \in Incident(n, dir, r) \ at.edges} : n \in at.level}
<1>1. PICK to : to = Level(at, dir, r) OBVIOUS
<1>2. /\ to.seen = at.seen \cup next /\ to.level = next \ at.seen
      /\ to.edges = at.edges \cup Touched(at.level, dir, r)
    BY <1>1 DEF Level, Touched
<1>3. at.seen \subseteq rows /\ at.seen = Within(m, dir, r, d) /\ at.level \subseteq at.seen
    BY DEF Walked, State
<1>4. to.seen \ to.level = at.seen BY <1>2
<1>5. to.edges = Touched(at.seen, dir, r)
    <2>1. at.edges = Touched(at.seen \ at.level, dir, r) BY DEF Walked
    <2> QED BY <1>2, <1>3, <2>1 DEF Touched
<1>6. ASSUME NEW n \in at.seen, NEW x \in Incident(n, dir, r)
      PROVE  OtherEnd(x, n, dir) \in at.seen \cup next
    <2>1. CASE n \notin at.level BY <2>1 DEF Walked
    <2>2. CASE n \in at.level /\ x \notin at.edges BY <2>2
    <2>3. CASE n \in at.level /\ x \in at.edges
        <3>1. PICK q \in at.seen \ at.level : x \in Incident(q, dir, r)
            BY <2>3 DEF Walked, Touched
        <3>2. OtherEnd(x, n, dir) = q BY <1>3, <2>3, <3>1, ReadTwice
        <3> QED BY <3>1, <3>2
    <2> QED BY <2>1, <2>2, <2>3
<1>7. to.seen = Within(m, dir, r, d + 1)
    <2>1. Within(m, dir, r, d + 1) = at.seen \cup Beyond(at.seen, dir, r) BY <1>3, WithinStep
    <2>2. ASSUME NEW q \in rows, NEW n \in at.seen, OneEdge(n, q, dir, r)
          PROVE  q \in at.seen \cup next
        <3>1. PICK x \in Incident(n, dir, r) : OtherEnd(x, n, dir) = q
            BY <1>3, <2>2, EdgeIsRead
        <3> QED BY <1>6, <3>1
    <2>3. ASSUME NEW q \in next
          PROVE  q \in rows /\ \E n \in at.seen : OneEdge(n, q, dir, r)
        <3>1. PICK n \in at.level : \E x \in Incident(n, dir, r) : q = OtherEnd(x, n, dir) OBVIOUS
        <3> QED BY <1>3, <3>1, EdgeIsRead
    <2> QED BY <1>2, <2>1, <2>2, <2>3 DEF Beyond
<1>8. to.level \subseteq to.seen BY <1>2
<1>9. \A n \in to.seen \ to.level : \A x \in Incident(n, dir, r) : OtherEnd(x, n, dir) \in to.seen
    BY <1>2, <1>4, <1>6
<1>10. Walked(to, m, dir, r, d + 1)
    <2> HIDE DEF next
    <2> QED BY <1>4, <1>5, <1>7, <1>8, <1>9 DEF Walked
<1> QED BY <1>1, <1>3, <1>5, <1>10

\* graph() answers with what paths of `depth` edges lead to, and the edges at the
\* memories it went through.
LEMMA WalkIsExact ==
    ASSUME Joined, NEW dir, NEW r, Answered(dir, r), NEW m \in rows, NEW d \in Nat
    PROVE  /\ Walk(m, dir, r)[d + 1].seen = Within(m, dir, r, d + 1)
           /\ Walk(m, dir, r)[d + 1].edges = Touched(Within(m, dir, r, d), dir, r)
<1>1. PICK W : W = Walk(m, dir, r) OBVIOUS
<1>2. /\ W \in [Nat -> State] /\ W[0] = [seen |-> {m}, edges |-> {}, level |-> {m}]
      /\ \A n \in Nat : W[n + 1] = Level(W[n], dir, r)
    BY <1>1, WalkIs
<1>3. \A n \in Nat : Walked(W[n], m, dir, r, n)
    <2> DEFINE S == {n \in Nat : Walked(W[n], m, dir, r, n)}
    <2>1. 0 \in S
        <3>1. Within(m, dir, r, 0) = {m} BY WithinNone
        <3>2. W[0].seen = {m} /\ W[0].level = {m} /\ W[0].edges = {} BY <1>2
        <3>3. Touched({m} \ {m}, dir, r) = {} BY DEF Touched
        <3>4. Walked(W[0], m, dir, r, 0) BY <3>1, <3>2, <3>3 DEF Walked
        <3> QED BY <3>4
    <2>2. ASSUME NEW n \in Nat, n \in S PROVE n + 1 \in S
        <3>1. W[n] \in State /\ Walked(W[n], m, dir, r, n) BY <1>2, <2>2
        <3> QED BY <1>2, <3>1, WalkedStep
    <2> HIDE DEF S
    <2>3. \A n \in Nat : n \in S BY <2>1, <2>2, AllNumbers
    <2> QED BY <2>3 DEF S
<1>4. W[d] \in State /\ Walked(W[d], m, dir, r, d) /\ W[d + 1] = Level(W[d], dir, r)
    BY <1>2, <1>3
<1>5. W[d + 1].edges = Touched(Within(m, dir, r, d), dir, r) BY <1>4, WalkedStep
<1>6. Walked(W[d + 1], m, dir, r, d + 1) BY <1>3
<1> QED BY <1>1, <1>5, <1>6 DEF Walked

\* Calls that change the graph keep edges between memories that exist, and forget the
\* last answer; a traversal changes nothing.
LEMMA JoinedStep ==
    ASSUME Joined, [Next]_vars
    PROVE  Joined'
<1>1. CASE UNCHANGED vars BY <1>1 DEF Joined, vars, graphVars
<1>2. ASSUME NEW s \in Memory, NEW t \in Memory, NEW r \in Relation, Link(s, r, t) PROVE Joined'
    BY <1>2 DEF Joined, Link
<1>3. ASSUME NEW x \in edges, Unlink(x) PROVE Joined'
    BY <1>3 DEF Joined, Unlink
<1>4. ASSUME NEW m \in rows, Delete(m) PROVE Joined'
    <2>1. rows' = rows \ {m} /\ edges' = {x \in edges : m \notin {x[1], x[3]}} BY <1>4 DEF Delete
    <2>2. ASSUME NEW x \in edges' PROVE x \in rows' \X Relation \X rows'
        <3>1. x \in rows \X Relation \X rows /\ x[1] # m /\ x[3] # m BY <2>1, <2>2 DEF Joined
        <3> QED BY <2>1, <3>1
    <2> QED BY <2>2 DEF Joined
<1>5. ASSUME NEW e \in Entity, NEW f \in Entity, Merge(e, f) PROVE Joined'
    BY <1>5 DEF Joined, Merge
<1>6. ASSUME NEW e \in Entity, NEW f \in Entity, NEW r \in Relation, Relate(e, r, f) PROVE Joined'
    BY <1>6 DEF Joined, Relate
<1>7. ASSUME NEW m, NEW dir, NEW r, NEW d, Graph(m, dir, r, d) PROVE Joined'
    BY <1>7 DEF Joined, Graph, graphVars
<1> QED BY <1>1, <1>2, <1>3, <1>4, <1>5, <1>6, <1>7 DEF Next

\* The right answer to a question: TraversalIsExact says it of the last one.
Right(a) ==
    /\ a.nodes = Within(a.from, a.dir, a.relation, a.depth) \ {a.from}
    /\ a.edges = {x \in edges : /\ a.relation \in {None, x[2]}
           /\ \E n \in Within(a.from, a.dir, a.relation, a.depth - 1) :
                 \/ a.dir # "inbound" /\ x[1] = n
                 \/ a.dir # "outbound" /\ x[3] = n}

LEMMA GraphIsRight ==
    ASSUME Joined, NEW dir, NEW r, Answered(dir, r), NEW m \in rows, NEW d \in Nat, d # 0
    PROVE  Right([from |-> m, dir |-> dir, relation |-> r, depth |-> d,
                  nodes |-> Walk(m, dir, r)[d].seen \ {m}, edges |-> Walk(m, dir, r)[d].edges])
<1>1. d - 1 \in Nat /\ (d - 1) + 1 = d OBVIOUS
<1>2. /\ Walk(m, dir, r)[d].seen = Within(m, dir, r, d)
      /\ Walk(m, dir, r)[d].edges = Touched(Within(m, dir, r, d - 1), dir, r)
    BY <1>1, WalkIsExact
<1>3. PICK N : N = Within(m, dir, r, d - 1) OBVIOUS
<1>4. Touched(N, dir, r) = {x \in edges : /\ r \in {None, x[2]}
           /\ \E n \in N : \/ dir # "inbound" /\ x[1] = n
                           \/ dir # "outbound" /\ x[3] = n}
    <2>1. CASE dir = "outbound" BY <2>1 DEF Touched, Incident
    <2>2. CASE dir = "inbound"  BY <2>2 DEF Touched, Incident
    <2>3. CASE dir = "both"     BY <2>3 DEF Touched, Incident, Answered
    <2> QED BY <2>1, <2>2, <2>3 DEF Answered, Direction
<1> QED BY <1>2, <1>3, <1>4 DEF Right

\* Whatever was linked, unlinked and deleted before, and whatever cycles there are: a
\* traversal returns the memories within the depth and no other, and the edges at those
\* it went through (graph.py).
THEOREM TraversalExact == Spec => []TraversalIsExact
<1> DEFINE Inv == Joined /\ TraversalIsExact
<1>1. Init => Inv
    BY DEF Init, Joined, TraversalIsExact
<1>2. Inv /\ [Next]_vars => Inv'
    <2> SUFFICES ASSUME Inv, [Next]_vars PROVE TraversalIsExact' BY JoinedStep
    <2>1. ASSUME found' = None PROVE TraversalIsExact' BY <2>1 DEF TraversalIsExact
    <2>2. CASE UNCHANGED vars
        BY <2>2 DEF vars, graphVars, TraversalIsExact, Within, OneEdge
    <2>3. ASSUME NEW m \in Start, NEW dir \in Direction, NEW r \in Relation \cup {None},
                 NEW d \in 1..MaxDepth, Graph(m, dir, r, d)
          PROVE  TraversalIsExact'
        <3>1. m \in rows /\ UNCHANGED graphVars BY <2>3 DEF Graph
        <3>2. PICK a : a = [from |-> m, dir |-> dir, relation |-> r, depth |-> d,
                            nodes |-> Walk(m, dir, r)[d].seen \ {m}, edges |-> Walk(m, dir, r)[d].edges]
            OBVIOUS
        <3>3. found' = a BY <2>3, <3>2 DEF Graph
        <3>4. Answered(dir, r) => Right(a) BY <3>1, <3>2, GraphIsRight
        <3>5. UNCHANGED <<rows, edges>> BY <3>1 DEF graphVars
        <3>6. a.dir = dir /\ a.relation = r BY <3>2
        <3> QED BY <3>3, <3>4, <3>5, <3>6 DEF Answered, Right, TraversalIsExact, Within, OneEdge
    <2>4. CASE \E s, t \in Memory, r \in Relation : Link(s, r, t) BY <2>1, <2>4 DEF Link, Change
    <2>5. CASE \E x \in edges : Unlink(x) BY <2>1, <2>5 DEF Unlink, Change
    <2>6. CASE \E m \in rows : Delete(m) BY <2>1, <2>6 DEF Delete, Change
    <2>7. CASE \E e, f \in Entity : Merge(e, f) \/ \E r \in Relation : Relate(e, r, f)
        BY <2>1, <2>7 DEF Merge, Relate, Change
    <2> QED BY <2>2, <2>3, <2>4, <2>5, <2>6, <2>7 DEF Next, Direction
<1> QED BY <1>1, <1>2, PTL DEF Spec

-----------------------------------------------------------------------------
(* Folds over finite sets *)

Pick(s) == CHOOSE x \in s : TRUE

\* f is what folding the subsets of S by g gives, from c on: the last is the member picked first.
Folds(f, S, c, g) ==
    \A s \in SUBSET S : f[s] = IF s = {} THEN c ELSE g[Pick(s)][f[s \ {Pick(s)}]]

\* The member picked from a set that is not empty; what is left has one member fewer.
LEMMA Smaller ==
    ASSUME NEW S, IsFiniteSet(S), NEW s \in SUBSET S, s # {}
    PROVE  /\ Pick(s) \in s /\ s \ {Pick(s)} \in SUBSET S
           /\ Cardinality(s) \in Nat \ {0} /\ Cardinality(s \ {Pick(s)}) = Cardinality(s) - 1
<1>1. Pick(s) \in s BY DEF Pick
<1>2. IsFiniteSet(s) BY FS_Subset
<1>3. Cardinality(s) \in Nat /\ Cardinality(s) # 0 BY <1>2, FS_CardinalityType, FS_EmptySet
<1>4. Cardinality(s \ {Pick(s)}) = Cardinality(s) - 1 BY <1>1, <1>2, FS_RemoveElement
<1> QED BY <1>1, <1>3, <1>4

\* Induction from a set without its picked member to the set.
LEMMA AllSubsets ==
    ASSUME NEW S, IsFiniteSet(S), NEW T, {} \in T,
           \A s \in SUBSET S : s # {} /\ s \ {Pick(s)} \in T => s \in T
    PROVE  \A s \in SUBSET S : s \in T
<1>0. Cardinality({}) = 0 BY FS_EmptySet
<1> DEFINE N == {n \in Nat : \A s \in SUBSET S : Cardinality(s) = n => s \in T}
<1>1. 0 \in N
    <2>1. ASSUME NEW s \in SUBSET S, Cardinality(s) = 0 PROVE s \in T
        <3>1. IsFiniteSet(s) BY FS_Subset
        <3>2. s = {} BY <2>1, <3>1, FS_EmptySet
        <3> QED BY <3>2
    <2> QED BY <2>1
<1>2. ASSUME NEW n \in Nat, n \in N PROVE n + 1 \in N
    <2>1. PICK m \in Nat : m = n + 1 OBVIOUS
    <2>2. ASSUME NEW s \in SUBSET S, Cardinality(s) = m PROVE s \in T
        <3>1. s # {} BY <1>0, <2>1, <2>2
        <3>2. s \ {Pick(s)} \in SUBSET S /\ Cardinality(s \ {Pick(s)}) = n BY <2>1, <2>2, <3>1, Smaller
        <3>3. s \ {Pick(s)} \in T BY <1>2, <3>2
        <3> QED BY <3>1, <3>3
    <2>3. m \in N BY <2>2
    <2> QED BY <2>1, <2>3
<1> HIDE DEF N
<1>3. \A n \in Nat : n \in N BY <1>1, <1>2, AllNumbers
<1>4. ASSUME NEW s \in SUBSET S PROVE s \in T
    <2>1. IsFiniteSet(s) BY FS_Subset
    <2>2. PICK n \in Nat : n = Cardinality(s) BY <2>1, FS_CardinalityType
    <2>3. n \in N BY <1>3
    <2> QED BY <2>2, <2>3 DEF N
<1> QED BY <1>4

\* Folding a finite set gives a function on its subsets, with values in X.
LEMMA Folding ==
    ASSUME NEW S, IsFiniteSet(S), NEW X, NEW c \in X, NEW g \in [S -> [X -> X]]
    PROVE  \E f \in [SUBSET S -> X] : Folds(f, S, c, g)
<1>0. Cardinality({}) = 0 BY FS_EmptySet
<1> DEFINE Upto(f, n) == \A s \in SUBSET S : Cardinality(s) <= n =>
                            f[s] = IF s = {} THEN c ELSE g[Pick(s)][f[s \ {Pick(s)}]]
           N == {n \in Nat : \E f \in [SUBSET S -> X] : Upto(f, n)}
<1>1. 0 \in N
    <2>1. PICK f : f = [s \in SUBSET S |-> c] OBVIOUS
    <2>2. f \in [SUBSET S -> X] BY <2>1
    <2>3. ASSUME NEW s \in SUBSET S, Cardinality(s) <= 0 PROVE s = {}
        <3>1. s # {} => Cardinality(s) \in Nat \ {0} BY Smaller
        <3> QED BY <2>3, <3>1
    <2>4. Upto(f, 0) BY <2>1, <2>3
    <2> QED BY <2>2, <2>4
<1>2. ASSUME NEW n \in Nat, n \in N PROVE n + 1 \in N
    <2>1. PICK m \in Nat : m = n + 1 OBVIOUS
    <2>2. PICK f \in [SUBSET S -> X] : Upto(f, n) BY <1>2
    <2> DEFINE new(s) == IF Cardinality(s) = m THEN g[Pick(s)][f[s \ {Pick(s)}]] ELSE f[s]
    <2>3. PICK h : h = [s \in SUBSET S |-> new(s)] OBVIOUS
    <2>4. ASSUME NEW s \in SUBSET S PROVE new(s) \in X
        <3>1. CASE Cardinality(s) = m
            <4>0. m # 0 BY <2>1
            <4>1. s # {}
                <5>1. SUFFICES ASSUME s = {} PROVE FALSE OBVIOUS
                <5>2. Cardinality(s) = 0 BY <1>0, <5>1
                <5> QED BY <3>1, <4>0, <5>2
            <4>2. Pick(s) \in S /\ s \ {Pick(s)} \in SUBSET S BY <4>1, Smaller
            <4>3. PICK y \in X : y = f[s \ {Pick(s)}] BY <4>2
            <4>4. PICK k \in [X -> X] : k = g[Pick(s)] BY <4>2
            <4> QED BY <3>1, <4>3, <4>4
        <3>2. CASE Cardinality(s) # m BY <3>2
        <3> QED BY <3>1, <3>2
    <2>5. h \in [SUBSET S -> X]
        <3> HIDE DEF new
        <3> QED BY <2>3, <2>4
    <2>6. \A s \in SUBSET S : h[s] = new(s)
        <3> HIDE DEF new
        <3> QED BY <2>3
    <2>7. ASSUME NEW s \in SUBSET S, Cardinality(s) <= m
          PROVE  h[s] = IF s = {} THEN c ELSE g[Pick(s)][h[s \ {Pick(s)}]]
        <3>1. CASE s = {}
            <4>1. Cardinality(s) = 0 BY <1>0, <3>1
            <4>2. h[s] = f[s] /\ Cardinality(s) <= n
                <5>1. Cardinality(s) # m /\ Cardinality(s) <= n BY <2>1, <4>1
                <5> QED BY <2>6, <5>1
            <4>3. f[s] = c BY <2>2, <3>1, <4>2
            <4> QED BY <3>1, <4>2, <4>3
        <3>2. CASE s # {}
            <4>1. PICK r \in SUBSET S : r = s \ {Pick(s)} BY <3>2, Smaller
            <4>2. Cardinality(s) \in Nat /\ Cardinality(r) = Cardinality(s) - 1 BY <3>2, <4>1, Smaller
            <4>3. h[r] = f[r]
                <5>1. Cardinality(r) # m BY <2>1, <2>7, <4>2
                <5> QED BY <2>6, <5>1
            <4>4. CASE Cardinality(s) = m
                <5>1. h[s] = g[Pick(s)][f[r]] BY <2>6, <4>1, <4>4
                <5> QED BY <3>2, <4>1, <4>3, <5>1
            <4>5. CASE Cardinality(s) # m
                <5>0. Cardinality(s) <= n BY <2>1, <2>7, <4>2, <4>5
                <5>1. h[s] = f[s] /\ Cardinality(s) <= n BY <2>6, <4>5, <5>0
                <5>2. f[s] = g[Pick(s)][f[r]] BY <2>2, <3>2, <4>1, <5>1
                <5> QED BY <3>2, <4>1, <4>3, <5>1, <5>2
            <4> QED BY <4>4, <4>5
        <3> QED BY <3>1, <3>2
    <2>8. Upto(h, m) BY <2>7
    <2> HIDE DEF Upto
    <2>9. m \in N BY <2>5, <2>8
    <2> QED BY <2>1, <2>9
<1> HIDE DEF N
<1>3. \A n \in Nat : n \in N BY <1>1, <1>2, AllNumbers
<1>4. PICK n \in Nat : n = Cardinality(S) BY FS_CardinalityType
<1>5. n \in N BY <1>3
<1>6. PICK f \in [SUBSET S -> X] : Upto(f, n)
    <2> HIDE DEF Upto
    <2> QED BY <1>5 DEF N
<1>7. \A s \in SUBSET S : Cardinality(s) <= n BY <1>4, FS_Subset
<1>8. Folds(f, S, c, g) BY <1>6, <1>7 DEF Folds
<1> QED BY <1>8

-----------------------------------------------------------------------------
(* The graph channel *)

\* What the search knows of a memory: how it was reached.
Record  == [distance : Nat, table : {"seed", "edges", "relations"}, type : Relation \cup {None}]
Records == [Memory -> Record \cup {None}]

\* Hops are between memories.
Related == relations \subseteq Entity \X Relation \X Entity /\ edges \subseteq Memory \X Relation \X Memory

HopRecord(d) == [distance : {d}, table : {"edges", "relations"}, type : Relation]

Harmonic(d) == MapThenSumSet(LAMBDA i : 1000 \div i, 1..d)

\* Costs are numbers, also those of the harmonic curve, whose terms are added up by a fold.
LEMMA CostIs ==
    ASSUME NEW d \in Nat, NEW w \in Nat \ {0}
    PROVE  Cost(d, w) \in Int
<1>1. Harmonic(d) \in Int
    <2>1. IsFiniteSet(1..d) BY FS_Interval
    <2>2. PICK g : g = [i \in 1..d |-> [y \in Int |-> (1000 \div i) + y]] OBVIOUS
    <2>3. \A i \in 1..d : [y \in Int |-> (1000 \div i) + y] \in [Int -> Int]
        <3> TAKE i \in 1..d
        <3>1. 1000 \div i \in Int OBVIOUS
        <3> QED BY <3>1
    <2>4. g \in [1..d -> [Int -> Int]] BY <2>2, <2>3
    <2>5. PICK f \in [SUBSET (1..d) -> Int] : Folds(f, 1..d, 0, g)
        <3>1. PICK S : S = 1..d OBVIOUS
        <3>2. PICK c \in Int : c = 0 OBVIOUS
        <3>3. \E f \in [SUBSET S -> Int] : Folds(f, S, c, g) BY <2>1, <2>4, <3>1, Folding
        <3> QED BY <3>1, <3>2, <3>3
    <2>6. f = [s \in SUBSET (1..d) |-> IF s = {} THEN 0 ELSE (1000 \div Pick(s)) + f[s \ {Pick(s)}]]
        <3> SUFFICES ASSUME NEW s \in SUBSET (1..d), s # {} PROVE f[s] = (1000 \div Pick(s)) + f[s \ {Pick(s)}]
            BY <2>5 DEF Folds
        <3>1. Pick(s) \in 1..d /\ s \ {Pick(s)} \in SUBSET (1..d)
            <4>1. PICK S : S = 1..d OBVIOUS
            <4>2. Pick(s) \in s /\ s \ {Pick(s)} \in SUBSET S BY <2>1, <4>1, Smaller
            <4> QED BY <4>1, <4>2
        <3>2. f[s] = g[Pick(s)][f[s \ {Pick(s)}]] BY <2>5 DEF Folds
        <3>3. PICK y \in Int : y = f[s \ {Pick(s)}] BY <3>1
        <3>4. g[Pick(s)][y] = (1000 \div Pick(s)) + y BY <2>2, <3>1
        <3> QED BY <3>2, <3>3, <3>4
    <2> DEFINE Is(h) == h = [s \in SUBSET (1..d) |-> IF s = {} THEN 0 ELSE (1000 \div Pick(s)) + h[s \ {Pick(s)}]]
    <2>7. \E h : Is(h)
        <3>1. Is(f) BY <2>6
        <3> HIDE DEF Is
        <3> QED BY <3>1
    <2>8. Harmonic(d) = (CHOOSE h : Is(h))[1..d]
        BY DEF Harmonic, MapThenSumSet, MapThenFoldSet, Pick
    <2>9. PICK h : Is(h) /\ h = CHOOSE k : Is(k)
        <3> HIDE DEF Is
        <3> QED BY <2>7
    <2>10. \A s \in SUBSET (1..d) : h[s] \in Int
        <3> DEFINE T == {s \in SUBSET (1..d) : h[s] \in Int}
        <3>1. {} \in T BY <2>9
        <3>2. ASSUME NEW s \in SUBSET (1..d), s # {}, s \ {Pick(s)} \in T PROVE s \in T
            <4>1. Pick(s) \in 1..d BY <2>1, <3>2, Smaller
            <4>2. 1000 \div Pick(s) \in Int BY <4>1
            <4>3. h[s] = (1000 \div Pick(s)) + h[s \ {Pick(s)}]
                <5> DEFINE e(x) == IF x = {} THEN 0 ELSE (1000 \div Pick(x)) + h[x \ {Pick(x)}]
                <5>2. h = [x \in SUBSET (1..d) |-> e(x)] BY <2>9
                <5>3. h[s] = e(s)
                    <6> HIDE DEF e
                    <6> QED BY <5>2
                <5> QED BY <3>2, <5>3
            <4>4. h[s \ {Pick(s)}] \in Int BY <3>2
            <4> QED BY <4>2, <4>3, <4>4
        <3> HIDE DEF T, Is
        <3>3. \A s \in SUBSET (1..d) : s \in T BY <2>1, <3>1, <3>2, AllSubsets
        <3> QED BY <3>3 DEF T
    <2> HIDE DEF Is
    <2> QED BY <2>8, <2>9, <2>10
<1>2. PICK n \in Int : n = (IF Curve = "harmonic" THEN Harmonic(d) ELSE 1000 * d) BY <1>1
<1>3. (n * 100) \div w \in Int OBVIOUS
<1>4. Cost(d, w) = ((IF Curve = "harmonic" THEN Harmonic(d) ELSE 1000 * d) * 100) \div w BY DEF Cost, Harmonic
<1> QED BY <1>2, <1>3, <1>4

\* Ranks of hops are numbers.
LEMMA RankIs ==
    ASSUME NEW d \in Nat \ {0}, NEW h \in HopRecord(d)
    PROVE  RankOf(h) \in Int
<1>1. h.distance = d /\ h.table \in {"edges", "relations"} /\ h.type \in Relation BY DEF HopRecord
<1>2. \A x \in Nat \ {0}, y \in Nat \ {0} : x * y \in Nat \ {0}
    <2> TAKE x \in Nat \ {0}, y \in Nat \ {0}
    <2>1. x * y \in Nat /\ x * y >= x OBVIOUS
    <2> QED BY <2>1
<1> DEFINE W == CASE h.table = "edges" -> IF Curve = "type-weighted" THEN 12 * 15 ELSE 120
                  [] h.table = "relations" ->
                       Weight[h.type] * (IF Curve = "type-weighted" THEN TypeBonus[h.type] ELSE 10)
<1>3. W \in Nat \ {0}
    <2>1. CASE h.table = "edges" BY <2>1
    <2>2. CASE h.table = "relations"
        <3>1. PICK x \in Nat \ {0} : x = Weight[h.type] BY <1>1, Ranked
        <3>2. PICK y \in Nat \ {0} : y = (IF Curve = "type-weighted" THEN TypeBonus[h.type] ELSE 10)
            BY <1>1, Ranked
        <3>3. W = x * y BY <2>2, <3>1, <3>2
        <3> QED BY <1>2, <3>3
    <2> QED BY <1>1, <2>1, <2>2
<1>4. RankOf(h) = 1000 + Cost(d, W) BY <1>1 DEF RankOf
<1> HIDE DEF W
<1>5. Cost(d, W) \in Int BY <1>3, CostIs
<1> QED BY <1>4, <1>5

\* One step of a level, and the steps of a set of hops from v on.
Step(v, h)  == Consider(v, h.to, h.how)
Take(v, H) == FoldSet(LAMBDA h, acc : Consider(acc, h.to, h.how), v, H)

HopSet(d) == [to : Memory, how : HopRecord(d)]

\* Considering a hop gives a record of the search again.
LEMMA ConsiderType ==
    ASSUME NEW d \in Nat, NEW v \in Records, NEW h \in HopSet(d)
    PROVE  Step(v, h) \in Records
<1>1. h.to \in Memory /\ h.how \in Record BY DEF HopSet, HopRecord, Record
<1> QED BY <1>1 DEF Step, Consider, Records

\* f is what is known after the hops of each subset of H.
Taken(f, v, H) ==
    /\ Take(v, H) = f[H] /\ f[{}] = v
    /\ \A s \in SUBSET H : s # {} => f[s] = Step(f[s \ {Pick(s)}], Pick(s))

\* Taking a finite set of hops is a fold.
LEMMA TakeIs ==
    ASSUME NEW d \in Nat, NEW v \in Records, NEW H \in SUBSET HopSet(d), IsFiniteSet(H)
    PROVE  \E f : Taken(f, v, H)
<1>1. PICK X : X = Records OBVIOUS
<1>2. PICK g : g = [h \in H |-> [y \in X |-> Step(y, h)]] OBVIOUS
<1>3. g \in [H -> [X -> X]] BY <1>1, <1>2, ConsiderType
<1>4. PICK f \in [SUBSET H -> X] : Folds(f, H, v, g) BY <1>1, <1>3, Folding
<1>5. f = [s \in SUBSET H |-> IF s = {} THEN v ELSE Step(f[s \ {Pick(s)}], Pick(s))]
    <2> SUFFICES ASSUME NEW s \in SUBSET H, s # {} PROVE f[s] = Step(f[s \ {Pick(s)}], Pick(s))
        BY <1>4 DEF Folds
    <2>1. Pick(s) \in H /\ s \ {Pick(s)} \in SUBSET H BY Smaller
    <2>2. f[s] = g[Pick(s)][f[s \ {Pick(s)}]] BY <1>4 DEF Folds
    <2>3. PICK y \in X : y = f[s \ {Pick(s)}] BY <2>1
    <2>4. g[Pick(s)][y] = Step(y, Pick(s)) BY <1>2, <2>1
    <2> QED BY <2>2, <2>3, <2>4
<1> DEFINE Is(h) == h = [s \in SUBSET H |-> IF s = {} THEN v ELSE Step(h[s \ {Pick(s)}], Pick(s))]
<1>6. \E h : Is(h) BY <1>5
<1>7. Take(v, H) = (CHOOSE h : Is(h))[H] BY DEF Take, FoldSet, MapThenFoldSet, Pick, Step
<1>8. PICK h : Is(h) /\ h = CHOOSE k : Is(k)
    <2> HIDE DEF Is
    <2> QED BY <1>6
<1>9. h[{}] = v BY <1>8
<1>10. \A s \in SUBSET H : s # {} => h[s] = Step(h[s \ {Pick(s)}], Pick(s)) BY <1>8
<1> HIDE DEF Is
<1>11. Taken(h, v, H) BY <1>7, <1>8, <1>9, <1>10 DEF Taken
<1> QED BY <1>11

\* A level takes the hops by relations, then those along edges.
LEMMA ExpandedTakes ==
    ASSUME NEW v, NEW d
    PROVE  Expanded(v, d) = Take(Take(v, Hops(v, d)[1]), Hops(v, d)[2])
BY DEF Expanded, Take

Ways(H, m) == {h.how : h \in {x \in H : x.to = m}}

\* No way and no record, or a record of one of the ways and of the best rank.
BestOf(u, W) == (W = {} => u = None) /\ (W # {} => u \in W /\ \A w \in W : RankOf(u) <= RankOf(w))

\* u is v with the best of the hops of K at what v had not reached.
Extends(v, u, K) ==
    \A m \in Memory : IF v[m] # None THEN u[m] = v[m] ELSE BestOf(u[m], Ways(K, m))

Nearer(v, d) == \A m \in Memory : v[m] # None => v[m].distance < d

\* A way is a record, and so never None.
LEMMA WaysAre ==
    ASSUME NEW d \in Nat, NEW K \in SUBSET HopSet(d), NEW m
    PROVE  Ways(K, m) \subseteq HopRecord(d) /\ HopRecord(d) \subseteq Record /\ None \notin Ways(K, m)
<1>1. HopRecord(d) \subseteq Record BY DEF HopRecord, Record
<1>2. Ways(K, m) \subseteq HopRecord(d) BY DEF Ways, HopSet
<1> QED BY <1>1, <1>2, Ranked DEF Record

\* Considering one more hop keeps the best of the hops.
LEMMA StepExtends ==
    ASSUME NEW d \in Nat \ {0}, NEW v \in Records, Nearer(v, d), NEW u \in Records,
           NEW K \in SUBSET HopSet(d), NEW h \in HopSet(d), Extends(v, u, K)
    PROVE  Extends(v, Step(u, h), K \cup {h})
<1> DEFINE s == Step(u, h)
<1>1. h.to \in Memory /\ h.how \in HopRecord(d) /\ h.how.distance = d BY DEF HopSet, HopRecord
<1>2. SUFFICES ASSUME NEW m \in Memory
               PROVE  IF v[m] # None THEN s[m] = v[m] ELSE BestOf(s[m], Ways(K \cup {h}, m))
    BY DEF Extends
<1>3. IF v[m] # None THEN u[m] = v[m] ELSE BestOf(u[m], Ways(K, m)) BY DEF Extends
<1>4. CASE m # h.to
    <2>1. s[m] = u[m] BY <1>4 DEF Step, Consider, Records
    <2>2. Ways(K \cup {h}, m) = Ways(K, m) BY <1>4 DEF Ways
    <2> QED BY <1>3, <2>1, <2>2
<1>5. CASE m = h.to
    <2>1. Ways(K \cup {h}, m) = Ways(K, m) \cup {h.how} BY <1>5 DEF Ways
    <2>2. Ways(K, m) \subseteq HopRecord(d) /\ None \notin Ways(K, m) BY WaysAre
    <2>3. u[m] = None => s[m] = h.how BY <1>1, <1>5 DEF Step, Consider, Records
    <2>4. u[m] # None /\ u[m].distance < d => s[m] = u[m]
        <3>1. SUFFICES ASSUME u[m] # None, u[m].distance < d PROVE s[m] = u[m] OBVIOUS
        <3>2. u[m].distance \in Nat BY <3>1 DEF Records, Record
        <3>3. ~(d < u[m].distance) /\ u[m].distance # d BY <3>1, <3>2
        <3> QED BY <1>1, <1>5, <3>1, <3>3 DEF Step, Consider, Records
    <2>5. u[m] # None /\ u[m].distance = d => s[m] = IF RankOf(h.how) < RankOf(u[m]) THEN h.how ELSE u[m]
        BY <1>1, <1>5 DEF Step, Consider, Records
    <2>6. CASE v[m] # None BY <1>3, <2>4, <2>6 DEF Nearer
    <2>7. CASE v[m] = None
        <3>1. BestOf(u[m], Ways(K, m)) BY <1>3, <2>7
        <3>2. CASE Ways(K, m) = {}
            <4>1. s[m] = h.how BY <2>3, <3>1, <3>2 DEF BestOf
            <4>2. Ways(K \cup {h}, m) = {h.how} BY <2>1, <3>2
            <4>3. RankOf(h.how) \in Int BY <1>1, RankIs
            <4> QED BY <2>7, <4>1, <4>2, <4>3 DEF BestOf
        <3>3. CASE Ways(K, m) # {}
            <4>1. u[m] \in Ways(K, m) /\ \A w \in Ways(K, m) : RankOf(u[m]) <= RankOf(w)
                BY <3>1, <3>3 DEF BestOf
            <4>2. u[m] # None /\ u[m].distance = d BY <2>2, <4>1 DEF HopRecord
            <4>3. \A w \in Ways(K, m) \cup {h.how} : RankOf(w) \in Int BY <1>1, <2>2, RankIs
            <4>4. s[m] = IF RankOf(h.how) < RankOf(u[m]) THEN h.how ELSE u[m] BY <2>5, <4>2
            <4>5. s[m] \in Ways(K, m) \cup {h.how} BY <4>1, <4>4
            <4>6. \A w \in Ways(K, m) \cup {h.how} : RankOf(s[m]) <= RankOf(w)
                <5>1. PICK a \in Int : a = RankOf(u[m]) BY <4>1, <4>3
                <5>2. PICK b \in Int : b = RankOf(h.how) BY <4>3
                <5>3. PICK c \in Int : c = RankOf(s[m]) BY <4>3, <4>5
                <5>4. c <= a /\ c <= b BY <4>4, <5>1, <5>2, <5>3
                <5>5. ASSUME NEW w \in Ways(K, m) \cup {h.how} PROVE c <= RankOf(w)
                    <6>1. CASE w = h.how BY <5>2, <5>4, <6>1
                    <6>2. CASE w \in Ways(K, m)
                        <7>1. PICK e \in Int : e = RankOf(w) BY <4>3
                        <7>2. a <= e BY <4>1, <5>1, <6>2, <7>1
                        <7> QED BY <5>4, <7>1, <7>2
                    <6> QED BY <6>1, <6>2
                <5> QED BY <5>3, <5>5
            <4> HIDE DEF s
            <4>7. BestOf(s[m], Ways(K, m) \cup {h.how}) BY <4>5, <4>6 DEF BestOf
            <4> QED BY <2>1, <2>7, <4>7
        <3> QED BY <3>2, <3>3
    <2> QED BY <2>6, <2>7
<1> QED BY <1>4, <1>5

\* So does taking a set of them, in whatever order.
LEMMA TakeExtends ==
    ASSUME NEW d \in Nat \ {0}, NEW v \in Records, Nearer(v, d), NEW u \in Records,
           NEW K \in SUBSET HopSet(d), NEW H \in SUBSET HopSet(d), IsFiniteSet(H), Extends(v, u, K)
    PROVE  Take(u, H) \in Records /\ Extends(v, Take(u, H), K \cup H)
<1>0. PICK f : Taken(f, u, H)
    <2>1. d \in Nat OBVIOUS
    <2> QED BY <2>1, TakeIs
<1>1. /\ Take(u, H) = f[H] /\ f[{}] = u
      /\ \A s \in SUBSET H : s # {} => f[s] = Step(f[s \ {Pick(s)}], Pick(s))
    BY <1>0 DEF Taken
<1> DEFINE T == {s \in SUBSET H : f[s] \in Records /\ Extends(v, f[s], K \cup s)}
<1>2. {} \in T
    <2>1. K \cup {} = K OBVIOUS
    <2> QED BY <1>1, <2>1
<1>3. ASSUME NEW s \in SUBSET H, s # {}, s \ {Pick(s)} \in T PROVE s \in T
    <2>1. Pick(s) \in s /\ Pick(s) \in HopSet(d) BY <1>3, Smaller
    <2>2. PICK L \in SUBSET HopSet(d) : L = K \cup (s \ {Pick(s)}) OBVIOUS
    <2>3. PICK w \in Records : w = f[s \ {Pick(s)}] BY <1>3
    <2>4. f[s] = Step(w, Pick(s)) BY <1>1, <1>3, <2>3
    <2>5. Step(w, Pick(s)) \in Records BY <2>1, ConsiderType
    <2>6. Extends(v, w, L) BY <1>3, <2>2, <2>3
    <2>7. Extends(v, Step(w, Pick(s)), L \cup {Pick(s)}) BY <2>1, <2>6, StepExtends
    <2>8. L \cup {Pick(s)} = K \cup s BY <2>1, <2>2
    <2> QED BY <2>4, <2>5, <2>7, <2>8
<1> HIDE DEF T
<1>4. \A s \in SUBSET H : s \in T BY <1>2, <1>3, AllSubsets
<1>5. H \in T BY <1>4
<1> QED BY <1>1, <1>5 DEF T

\* There are finitely many hops.
LEMMA HopSetFinite ==
    ASSUME NEW d \in Nat
    PROVE  IsFiniteSet(HopSet(d))
<1> DEFINE P == (Memory \X Relation) \X {"edges", "relations"}
           hop(p) == [to |-> p[1][1], how |-> [distance |-> d, table |-> p[2], type |-> p[1][2]]]
<1>1. IsFiniteSet(Memory \X Relation) BY FS_Product, Ranked
<1>2. IsFiniteSet({"edges", "relations"})
    <2>1. IsFiniteSet({}) BY FS_EmptySet
    <2>2. IsFiniteSet({} \cup {"edges"}) BY <2>1, FS_AddElement
    <2>3. IsFiniteSet(({} \cup {"edges"}) \cup {"relations"}) BY <2>2, FS_AddElement
    <2>4. ({} \cup {"edges"}) \cup {"relations"} = {"edges", "relations"} OBVIOUS
    <2> QED BY <2>3, <2>4
<1>3. IsFiniteSet(P) BY <1>1, <1>2, FS_Product
<1>4. PICK g : g = [p \in P |-> hop(p)] OBVIOUS
<1>5. \A p \in P : hop(p) \in HopSet(d) BY DEF HopSet, HopRecord
<1>6. \A h \in HopSet(d) : \E p \in P : g[p] = h
    <2> TAKE h \in HopSet(d)
    <2>1. h.to \in Memory /\ h.how.type \in Relation /\ h.how.table \in {"edges", "relations"}
          /\ h.how = [distance |-> d, table |-> h.how.table, type |-> h.how.type]
          /\ h = [to |-> h.to, how |-> h.how]
        BY DEF HopSet, HopRecord
    <2>2. PICK p \in P : p = <<<<h.to, h.how.type>>, h.how.table>> BY <2>1
    <2>3. g[p] = hop(p) BY <1>4
    <2>4. hop(p) = h BY <2>1, <2>2
    <2> QED BY <2>3, <2>4
<1>7. g \in Surjection(P, HopSet(d))
    <2>1. g \in [P -> HopSet(d)] BY <1>4, <1>5
    <2> HIDE DEF P, hop
    <2> QED BY <1>6, <2>1 DEF Surjection
<1> HIDE DEF P
<1> QED BY <1>3, <1>7, FS_Surjection

\* The hops out of the memories of N, the memories at distance d - 1.
ByRelations(N, d) ==
    {[to |-> n[1], how |-> [distance |-> d, table |-> "relations", type |-> n[2]]] :
        n \in UNION {Mediated(m) : m \in N}}
ByEdges(N, d) ==
    {[to |-> n[1], how |-> [distance |-> d, table |-> "edges", type |-> n[2]]] :
        n \in UNION {Direct(m) : m \in N}}
Out(N, d) == ByRelations(N, d) \cup ByEdges(N, d)

Frontier(v, d) == {m \in Memory : v[m] # None /\ v[m].distance = d - 1}

\* Hops lead to memories.
LEMMA OutIs ==
    ASSUME Related, NEW d \in Nat, NEW N \in SUBSET Memory
    PROVE  ByRelations(N, d) \in SUBSET HopSet(d) /\ ByEdges(N, d) \in SUBSET HopSet(d)
<1>1. \A m \in N : Mediated(m) \subseteq Memory \X Relation
    <2> TAKE m \in N
    <2>1. mentions \subseteq Memory \X Entity BY Graphs DEF mentions
    <2> QED BY <2>1 DEF Mediated, Related
<1>2. \A m \in N : Direct(m) \subseteq Memory \X Relation BY DEF Direct, Related
<1>3. \A n \in Memory \X Relation, t \in {"relations", "edges"} :
         [to |-> n[1], how |-> [distance |-> d, table |-> t, type |-> n[2]]] \in HopSet(d)
    BY DEF HopSet, HopRecord
<1>4. ASSUME NEW h \in ByRelations(N, d) PROVE h \in HopSet(d)
    <2>1. PICK n \in Memory \X Relation :
             h = [to |-> n[1], how |-> [distance |-> d, table |-> "relations", type |-> n[2]]]
        BY <1>1 DEF ByRelations
    <2> QED BY <1>3, <2>1
<1>5. ASSUME NEW h \in ByEdges(N, d) PROVE h \in HopSet(d)
    <2>1. PICK n \in Memory \X Relation :
             h = [to |-> n[1], how |-> [distance |-> d, table |-> "edges", type |-> n[2]]]
        BY <1>2 DEF ByEdges
    <2> QED BY <1>3, <2>1
<1> QED BY <1>4, <1>5

\* The hops of a level are those out of the last level.
LEMMA HopsAre ==
    ASSUME NEW d, NEW v
    PROVE  /\ Hops(v, d)[1] = ByRelations(Frontier(v, d), d)
           /\ Hops(v, d)[2] = ByEdges(Frontier(v, d), d)
<1> DEFINE F == {m \in Memory : IF v[m] = None THEN FALSE ELSE v[m].distance = d - 1}
           R == UNION {{[to |-> n[1], how |-> [distance |-> d, table |-> "relations", type |-> n[2]]] :
                           n \in Mediated(m)} : m \in F}
           E == UNION {{[to |-> n[1], how |-> [distance |-> d, table |-> "edges", type |-> n[2]]] :
                           n \in Direct(m)} : m \in F}
<1>1. Hops(v, d)[1] = R /\ Hops(v, d)[2] = E BY DEF Hops
<1>2. F = Frontier(v, d) BY DEF Frontier
<1>3. R = ByRelations(F, d)
    <2> HIDE DEF F
    <2> QED BY DEF ByRelations
<1>4. E = ByEdges(F, d)
    <2> HIDE DEF F
    <2> QED BY DEF ByEdges
<1> HIDE DEF F, R, E
<1> QED BY <1>1, <1>2, <1>3, <1>4

\* A level leaves what is known and adds the best of the hops out of the last level.
LEMMA ExpandedIs ==
    ASSUME Related, NEW d \in Nat \ {0}, NEW v \in Records, Nearer(v, d)
    PROVE  Expanded(v, d) \in Records /\ Extends(v, Expanded(v, d), Out(Frontier(v, d), d))
<1>0. d \in Nat OBVIOUS
<1>1. Frontier(v, d) \in SUBSET Memory BY DEF Frontier
<1>2. PICK H1 \in SUBSET HopSet(d) : H1 = ByRelations(Frontier(v, d), d) BY <1>0, <1>1, OutIs
<1>3. PICK H2 \in SUBSET HopSet(d) : H2 = ByEdges(Frontier(v, d), d) BY <1>0, <1>1, OutIs
<1>4. IsFiniteSet(H1) /\ IsFiniteSet(H2)
    <2>1. IsFiniteSet(HopSet(d)) BY <1>0, HopSetFinite
    <2>2. IsFiniteSet(H1) BY <2>1, FS_Subset
    <2>3. IsFiniteSet(H2) BY <2>1, FS_Subset
    <2> QED BY <2>2, <2>3
<1>5. Extends(v, v, {}) BY DEF Extends, BestOf, Ways
<1>6. PICK K \in SUBSET HopSet(d) : K = {} OBVIOUS
<1>7. PICK u : u = Take(v, H1) OBVIOUS
<1>8. u \in Records /\ Extends(v, u, K \cup H1) BY <1>4, <1>5, <1>6, <1>7, TakeExtends
<1>9. K \cup H1 = H1 BY <1>6
<1>10. Extends(v, u, H1) BY <1>8, <1>9
<1>11. Take(u, H2) \in Records /\ Extends(v, Take(u, H2), H1 \cup H2) BY <1>4, <1>8, <1>10, TakeExtends
<1>12. Expanded(v, d) = Take(u, H2) BY <1>2, <1>3, <1>7, HopsAre, ExpandedTakes
<1> QED BY <1>2, <1>3, <1>11, <1>12 DEF Out

\* A path of no hop is a memory that mentions a seed.
LEMMA LayerNone == Layer(0) = {m \in Memory : \E s \in Seeds : m \in Mentioning(s)}
<1>1. ASSUME NEW m \in Layer(0) PROVE m \in Memory /\ \E s \in Seeds : m \in Mentioning(s)
    BY <1>1 DEF Layer
<1>2. ASSUME NEW m \in Memory, \E s \in Seeds : m \in Mentioning(s) PROVE m \in Layer(0)
    <2>1. PICK p : p = [i \in 0..0 |-> m] OBVIOUS
    <2>2. p \in [0..0 -> Memory] /\ p[0] = m /\ \A i \in 0..0-1 : Hop(p[i], p[i+1]) BY <2>1
    <2> QED BY <1>2, <2>2 DEF Layer
<1> QED BY <1>1, <1>2 DEF Layer

\* A path of one hop more.
LEMMA LayerStep ==
    ASSUME NEW d \in Nat
    PROVE  Layer(d + 1) = {m \in Memory : \E n \in Layer(d) : Hop(n, m)}
<1>0. PICK e \in Nat : e = d + 1 OBVIOUS
<1>1. ASSUME NEW m \in Layer(e) PROVE m \in Memory /\ \E n \in Layer(d) : Hop(n, m)
    <2>1. PICK p \in [0..e -> Memory] :
              /\ \E s \in Seeds : p[0] \in Mentioning(s)
              /\ p[e] = m /\ \A i \in 0..e-1 : Hop(p[i], p[i+1])
        BY <1>1 DEF Layer
    <2>2. PICK q : q = [i \in 0..d |-> p[i]] OBVIOUS
    <2>3. q \in [0..d -> Memory] /\ q[0] = p[0] /\ q[d] = p[d] BY <1>0, <2>2
    <2>4. \A i \in 0..d-1 : Hop(q[i], q[i+1])
        <3> TAKE i \in 0..d-1
        <3>1. q[i] = p[i] /\ q[i+1] = p[i+1] /\ i \in 0..e-1 BY <1>0, <2>2
        <3> QED BY <2>1, <3>1
    <2>5. q[d] \in Layer(d)
        <3>1. d \in 0..d OBVIOUS
        <3>2. PICK n \in Memory : n = q[d] BY <2>3, <3>1
        <3>3. /\ \E s \in Seeds : q[0] \in Mentioning(s)
              /\ q[d] = n /\ \A i \in 0..d-1 : Hop(q[i], q[i+1])
            BY <2>1, <2>3, <2>4, <3>2
        <3>4. n \in Layer(d) BY <2>3, <3>3 DEF Layer
        <3> QED BY <3>2, <3>4
    <2>6. Hop(p[d], p[e])
        <3>1. d \in 0..e-1 /\ d + 1 = e BY <1>0
        <3> QED BY <2>1, <3>1
    <2> QED BY <1>0, <2>1, <2>3, <2>5, <2>6
<1>2. ASSUME NEW m \in Memory, NEW n \in Layer(d), Hop(n, m) PROVE m \in Layer(e)
    <2>1. PICK p \in [0..d -> Memory] :
              /\ \E s \in Seeds : p[0] \in Mentioning(s)
              /\ p[d] = n /\ \A i \in 0..d-1 : Hop(p[i], p[i+1])
        BY DEF Layer
    <2>2. PICK q : q = [i \in 0..e |-> IF i = e THEN m ELSE p[i]] OBVIOUS
    <2>3. q \in [0..e -> Memory] /\ q[0] = p[0] /\ q[e] = m BY <1>0, <2>2
    <2>4. \A i \in 0..e-1 : Hop(q[i], q[i+1])
        <3> TAKE i \in 0..e-1
        <3>1. CASE i = d BY <1>0, <1>2, <2>1, <2>2, <3>1
        <3>2. CASE i # d
            <4>1. i \in 0..d-1 /\ q[i] = p[i] /\ q[i+1] = p[i+1] BY <1>0, <2>2, <3>2
            <4> QED BY <2>1, <4>1
        <3> QED BY <3>1, <3>2
    <2> QED BY <2>1, <2>3, <2>4 DEF Layer
<1>3. \A m : m \in Layer(e) <=> m \in Memory /\ \E n \in Layer(d) : Hop(n, m)
    <2> HIDE DEF Hop
    <2> QED BY <1>1, <1>2
<1> QED BY <1>0, <1>3

\* The memories at distance k.
First(k) == {m \in Memory : m \in Layer(k) /\ \A j \in 0..k-1 : m \notin Layer(j)}

\* What the search knows after d levels: the distance of each memory within d,
\* and the best of the hops onto it from the level before.
Searched(v, d) ==
    \A m \in Memory :
        /\ v[m] = None => \A j \in 0..d : m \notin Layer(j)
        /\ v[m] # None =>
             /\ v[m].distance \in 0..d /\ m \in First(v[m].distance)
             /\ v[m].distance > 0 =>
                  BestOf(v[m], Ways(Out(First(v[m].distance - 1), v[m].distance), m))

\* A hop of Out onto m is a hop of the graph from one of its memories.
LEMMA WayIsHop ==
    ASSUME NEW N \in SUBSET Memory, NEW d \in Nat, NEW m \in Memory
    PROVE  Ways(Out(N, d), m) # {} <=> \E n \in N : Hop(n, m)
<1>1. ASSUME NEW w \in Ways(Out(N, d), m) PROVE \E n \in N : Hop(n, m)
    <2>1. PICK h \in Out(N, d) : h.to = m BY DEF Ways
    <2>2. PICK n \in N : \E x \in Mediated(n) \cup Direct(n) : h.to = x[1] BY DEF Out, ByRelations, ByEdges
    <2> QED BY <2>1, <2>2 DEF Hop
<1>2. ASSUME NEW n \in N, Hop(n, m) PROVE Ways(Out(N, d), m) # {}
    <2>1. PICK x \in Mediated(n) \cup Direct(n) : x[1] = m BY <1>2 DEF Hop
    <2>2. \E h \in Out(N, d) : h.to = m
        <3>1. CASE x \in Mediated(n)
            <4>1. PICK h : h = [to |-> x[1], how |-> [distance |-> d, table |-> "relations", type |-> x[2]]]
                OBVIOUS
            <4>2. h \in Out(N, d) BY <3>1, <4>1 DEF Out, ByRelations, ByEdges
            <4> QED BY <2>1, <4>1, <4>2
        <3>2. CASE x \in Direct(n)
            <4>1. PICK h : h = [to |-> x[1], how |-> [distance |-> d, table |-> "edges", type |-> x[2]]]
                OBVIOUS
            <4>2. h \in Out(N, d) BY <3>2, <4>1 DEF Out, ByRelations, ByEdges
            <4> QED BY <2>1, <4>1, <4>2
        <3> QED BY <3>1, <3>2
    <2> QED BY <2>2 DEF Ways
<1> QED BY <1>1, <1>2

\* A memory that a path leads to has a distance.
LEMMA FirstIs ==
    ASSUME NEW d \in Nat, NEW m \in Memory, m \in Layer(d)
    PROVE  \E k \in 0..d : m \in First(k)
<1> DEFINE T == {k \in 0..d : m \in Layer(k)}
<1>1. T \subseteq Nat /\ d \in T OBVIOUS
<1>2. PICK k \in T : \A j \in T : k <= j
    <2> HIDE DEF T
    <2> QED BY <1>1, LeastNumber
<1>3. \A j \in 0..k-1 : m \notin Layer(j) BY <1>2
<1> QED BY <1>2, <1>3 DEF First

\* A level more makes the search right for one level more.
LEMMA SearchedStep ==
    ASSUME Related, NEW d \in Nat, NEW v \in Records, Searched(v, d)
    PROVE  Expanded(v, d + 1) \in Records /\ Searched(Expanded(v, d + 1), d + 1)
<1>0. PICK e \in Nat \ {0} : e = d + 1 OBVIOUS
<1>1. PICK u : u = Expanded(v, e) OBVIOUS
<1>2. Nearer(v, e)
    <2> SUFFICES ASSUME NEW m \in Memory, v[m] # None PROVE v[m].distance < e BY DEF Nearer
    <2>1. v[m].distance \in 0..d BY DEF Searched
    <2> QED BY <1>0, <2>1
<1>3. u \in Records /\ Extends(v, u, Out(Frontier(v, e), e)) BY <1>1, <1>2, ExpandedIs
<1>4. Frontier(v, e) = First(d)
    <2>1. ASSUME NEW m \in Memory, m \in Frontier(v, e) PROVE m \in First(d)
        <3>1. v[m] # None /\ v[m].distance = d BY <1>0, <2>1 DEF Frontier
        <3> QED BY <3>1 DEF Searched
    <2>2. ASSUME NEW m \in Memory, m \in First(d) PROVE m \in Frontier(v, e)
        <3>1. m \in Layer(d) /\ \A j \in 0..d-1 : m \notin Layer(j) BY <2>2 DEF First
        <3>2. v[m] # None BY <3>1 DEF Searched
        <3>3. PICK k \in 0..d : k = v[m].distance BY <3>2 DEF Searched
        <3>4. m \in First(k) BY <3>2, <3>3 DEF Searched
        <3>5. m \in Layer(k) BY <3>4 DEF First
        <3>6. k = d
            <4>1. k \notin 0..d-1 BY <3>1, <3>5
            <4> QED BY <4>1
        <3>7. k = e - 1 BY <1>0, <3>6
        <3> QED BY <3>2, <3>3, <3>7 DEF Frontier
    <2>3. Frontier(v, e) \subseteq Memory /\ First(d) \subseteq Memory BY DEF Frontier, First
    <2> QED BY <2>1, <2>2, <2>3
<1>5. Extends(v, u, Out(First(d), e)) BY <1>3, <1>4
<1>6. ASSUME NEW m \in Memory
      PROVE  /\ u[m] = None => \A j \in 0..e : m \notin Layer(j)
             /\ u[m] # None =>
                  /\ u[m].distance \in 0..e /\ m \in First(u[m].distance)
                  /\ u[m].distance > 0 =>
                       BestOf(u[m], Ways(Out(First(u[m].distance - 1), u[m].distance), m))
    <2>1. CASE v[m] # None
        <3>1. u[m] = v[m] BY <1>5, <2>1 DEF Extends
        <3>2. v[m].distance \in 0..d /\ m \in First(v[m].distance)
              /\ (v[m].distance > 0 =>
                    BestOf(v[m], Ways(Out(First(v[m].distance - 1), v[m].distance), m)))
            BY <2>1 DEF Searched
        <3>3. v[m].distance \in 0..e BY <1>0, <3>2
        <3> QED BY <2>1, <3>1, <3>2, <3>3
    <2>2. CASE v[m] = None
        <3>1. BestOf(u[m], Ways(Out(First(d), e), m)) BY <1>5, <2>2 DEF Extends
        <3>2. \A j \in 0..d : m \notin Layer(j) BY <2>2 DEF Searched
        <3>3. First(d) \in SUBSET Memory BY DEF First
        <3>4. Layer(e) = {q \in Memory : \E n \in Layer(d) : Hop(n, q)} BY <1>0, LayerStep
        <3>5. CASE Ways(Out(First(d), e), m) = {}
            <4>1. u[m] = None BY <3>1, <3>5 DEF BestOf
            <4>2. m \notin Layer(e)
                <5>1. SUFFICES ASSUME m \in Layer(e) PROVE FALSE OBVIOUS
                <5>2. PICK n \in Layer(d) : Hop(n, m) BY <3>4, <5>1
                <5>3. n \in Memory BY DEF Layer
                <5>4. PICK k \in 0..d : n \in First(k) BY <5>3, FirstIs
                <5>5. n \in Layer(k) BY <5>4 DEF First
                <5>6. m \in Layer(k + 1)
                    <6>1. k \in Nat BY <5>4
                    <6> QED BY <5>2, <5>5, <6>1, LayerStep
                <5>7. k = d
                    <6>1. PICK i \in Nat : i = k + 1 BY <5>4
                    <6>2. i \notin 0..d BY <3>2, <5>6, <6>1
                    <6> QED BY <5>4, <6>1, <6>2
                <5>8. n \in First(d) BY <5>4, <5>7
                <5>9. e \in Nat OBVIOUS
                <5> QED BY <3>3, <3>5, <5>2, <5>8, <5>9, WayIsHop
            <4>3. \A j \in 0..e : m \notin Layer(j) BY <1>0, <3>2, <4>2
            <4> QED BY <4>1, <4>3
        <3>6. CASE Ways(Out(First(d), e), m) # {}
            <4>1. u[m] \in Ways(Out(First(d), e), m) BY <3>1, <3>6 DEF BestOf
            <4>2. PICK h \in Out(First(d), e) : h.to = m /\ u[m] = h.how BY <4>1 DEF Ways
            <4>3. u[m].distance = e
                <5>1. h.how.distance = e BY <4>2 DEF Out, ByRelations, ByEdges
                <5> QED BY <4>2, <5>1
            <4>4. PICK n \in First(d) : Hop(n, m)
                <5>1. e \in Nat OBVIOUS
                <5> QED BY <3>3, <3>6, <5>1, WayIsHop
            <4>5. n \in Layer(d) BY <4>4 DEF First
            <4>6. m \in Layer(e) BY <3>4, <4>4, <4>5
            <4>7. m \in First(e) BY <1>0, <3>2, <4>6 DEF First
            <4>8. u[m] # None
                <5>1. e \in Nat OBVIOUS
                <5>2. Out(First(d), e) \in SUBSET HopSet(e)
                    BY <3>3, <5>1, OutIs DEF Out
                <5> QED BY <4>1, <5>1, <5>2, WaysAre
            <4>9. e - 1 = d /\ e \in 0..e BY <1>0
            <4> QED BY <3>1, <4>3, <4>7, <4>8, <4>9
        <3> QED BY <3>5, <3>6
    <2> QED BY <2>1, <2>2
<1>7. Searched(u, e) BY <1>6 DEF Searched
<1> QED BY <1>0, <1>1, <1>3, <1>7

SeedRecords ==
    [m \in Memory |-> IF \E s \in Seeds : m \in Mentioning(s)
                        THEN [distance |-> 0, table |-> "seed", type |-> None] ELSE None]

\* The seeds are what is at distance 0.
LEMMA SeedsSearched ==
    SeedRecords \in Records /\ Searched(SeedRecords, 0)
<1>1. SeedRecords \in Records BY DEF SeedRecords, Records, Record
<1>2. ASSUME NEW m \in Memory
      PROVE  /\ SeedRecords[m] = None => \A j \in 0..0 : m \notin Layer(j)
             /\ SeedRecords[m] # None => SeedRecords[m].distance = 0 /\ m \in First(0)
    <2>1. m \in Layer(0) <=> \E s \in Seeds : m \in Mentioning(s) BY LayerNone
    <2>2. [distance |-> 0, table |-> "seed", type |-> None] \in Record BY DEF Record
    <2>3. [distance |-> 0, table |-> "seed", type |-> None] # None BY <2>2, Ranked DEF Record
    <2>4. CASE m \in Layer(0)
        <3>1. SeedRecords[m] = [distance |-> 0, table |-> "seed", type |-> None] BY <2>1, <2>4 DEF SeedRecords
        <3>2. m \in First(0) BY <2>4 DEF First
        <3> QED BY <2>3, <3>1, <3>2
    <2>5. CASE m \notin Layer(0)
        <3>1. SeedRecords[m] = None BY <2>1, <2>5 DEF SeedRecords
        <3> QED BY <2>5, <3>1
    <2> QED BY <2>4, <2>5
<1>3. Searched(SeedRecords, 0)
    <2> SUFFICES ASSUME NEW m \in Memory
                 PROVE  /\ SeedRecords[m] = None => \A j \in 0..0 : m \notin Layer(j)
                        /\ SeedRecords[m] # None =>
                             /\ SeedRecords[m].distance \in 0..0 /\ m \in First(SeedRecords[m].distance)
                             /\ ~(SeedRecords[m].distance > 0)
        BY DEF Searched
    <2>1. CASE SeedRecords[m] = None BY <1>2, <2>1
    <2>2. CASE SeedRecords[m] # None
        <3>1. SeedRecords[m].distance = 0 /\ m \in First(0) BY <1>2, <2>2
        <3> QED BY <2>2, <3>1
    <2> QED BY <2>1, <2>2
<1> QED BY <1>1, <1>3

\* The search is right to the cap.
LEMMA VisitedIs ==
    ASSUME Related
    PROVE  Visited \in Records /\ Searched(Visited, DepthCap)
<1> DEFINE Fits(v, d) == v \in Records /\ Searched(v, d)
           Best(f) == f = [d \in 0..DepthCap |-> IF d = 0 THEN SeedRecords ELSE Expanded(f[d - 1], d)]
           Levels(k, f) == f[0] = SeedRecords /\ \A d \in 1..k : f[d] = Expanded(f[d - 1], d)
<1>0. DepthCap \in Nat BY Ranked
<1>1. \E f : Best(f)
    <2> DEFINE S == {k \in Nat : \E f : f \in [0..k -> Records] /\ Levels(k, f)
                                         /\ \A d \in 0..k : Fits(f[d], d)}
    <2>1. 0 \in S
        <3>1. PICK f : f = [d \in 0..0 |-> SeedRecords] OBVIOUS
        <3>2. f \in [0..0 -> Records] /\ Levels(0, f) BY <3>1, SeedsSearched
        <3>3. \A d \in 0..0 : Fits(f[d], d) BY <3>1, SeedsSearched
        <3> HIDE DEF Levels, Fits
        <3> QED BY <3>2, <3>3
    <2>2. ASSUME NEW k \in Nat, k \in S PROVE k + 1 \in S
        <3>0. PICK n \in Nat : n = k + 1 OBVIOUS
        <3>1. PICK f : f \in [0..k -> Records] /\ Levels(k, f) /\ \A d \in 0..k : Fits(f[d], d)
            <4> HIDE DEF Levels, Fits
            <4> QED BY <2>2
        <3>2. PICK v \in Records : v = f[k] /\ Searched(v, k) BY <3>1
        <3>3. PICK u \in Records : u = Expanded(v, n) /\ Searched(u, n) BY <3>0, <3>2, SearchedStep
        <3>4. PICK h : h = [d \in 0..n |-> IF d = n THEN u ELSE f[d]] OBVIOUS
        <3>5. \A d \in 0..k : h[d] = f[d] BY <3>0, <3>4
        <3>6. h[n] = u BY <3>4
        <3>7. h \in [0..n -> Records]
            <4>1. \A d \in 0..n : d # n => d \in 0..k BY <3>0
            <4> QED BY <3>1, <3>4, <4>1
        <3>8. Levels(n, h)
            <4>1. h[0] = SeedRecords BY <3>1, <3>5
            <4>2. ASSUME NEW d \in 1..n PROVE h[d] = Expanded(h[d - 1], d)
                <5>1. CASE d = n
                    <6>1. d - 1 = k /\ k \in 0..k BY <3>0, <5>1
                    <6>2. h[d - 1] = v BY <3>2, <3>5, <6>1
                    <6> QED BY <3>3, <3>6, <5>1, <6>2
                <5>2. CASE d # n
                    <6>1. d \in 1..k /\ d \in 0..k /\ d - 1 \in 0..k BY <3>0, <5>2
                    <6>2. h[d] = f[d] /\ h[d - 1] = f[d - 1] BY <3>5, <6>1
                    <6>3. f[d] = Expanded(f[d - 1], d) BY <3>1, <6>1
                    <6> QED BY <6>2, <6>3
                <5> QED BY <5>1, <5>2
            <4> QED BY <4>1, <4>2
        <3>9. ASSUME NEW d \in 0..n PROVE Fits(h[d], d)
            <4>1. CASE d = n BY <3>3, <3>6, <4>1
            <4>2. CASE d # n
                <5>1. d \in 0..k BY <3>0, <4>2
                <5>2. h[d] = f[d] BY <3>5, <5>1
                <5> QED BY <3>1, <5>1, <5>2
            <4> QED BY <4>1, <4>2
        <3> HIDE DEF Levels, Fits
        <3>10. n \in S BY <3>7, <3>8, <3>9
        <3> QED BY <3>0, <3>10
    <2> HIDE DEF S
    <2>3. \A n \in Nat : n \in S BY <2>1, <2>2, AllNumbers
    <2>4. DepthCap \in S BY <1>0, <2>3
    <2>5. PICK f : f \in [0..DepthCap -> Records] /\ Levels(DepthCap, f)
        <3> HIDE DEF Levels, Fits
        <3> QED BY <2>4 DEF S
    <2>6. f = [d \in 0..DepthCap |-> f[d]] BY <2>5
    <2>7. \A d \in 0..DepthCap : f[d] = IF d = 0 THEN SeedRecords ELSE Expanded(f[d - 1], d)
        <3> TAKE d \in 0..DepthCap
        <3>1. d # 0 => d \in 1..DepthCap BY <1>0
        <3> QED BY <2>5, <3>1
    <2>8. Best(f) BY <2>6, <2>7
    <2> HIDE DEF Best
    <2> QED BY <2>8
<1>2. Visited = (CHOOSE f : Best(f))[DepthCap] BY DEF Visited, SeedRecords
<1>3. PICK f : Best(f) /\ f = CHOOSE g : Best(g)
    <2> HIDE DEF Best
    <2> QED BY <1>1
<1>4. f[0] = SeedRecords /\ \A d \in 1..DepthCap : f[d] = Expanded(f[d - 1], d)
    <2> DEFINE e(d) == IF d = 0 THEN SeedRecords ELSE Expanded(f[d - 1], d)
    <2>1. f = [d \in 0..DepthCap |-> e(d)] BY <1>3
    <2>2. \A d \in 0..DepthCap : f[d] = e(d)
        <3> HIDE DEF e
        <3> QED BY <2>1
    <2>3. 0 \in 0..DepthCap /\ \A d \in 1..DepthCap : d \in 0..DepthCap /\ d # 0 BY <1>0
    <2> QED BY <2>2, <2>3
<1>5. \A d \in 0..DepthCap : Fits(f[d], d)
    <2> DEFINE S == {d \in Nat : d <= DepthCap => Fits(f[d], d)}
    <2>1. 0 \in S BY <1>4, SeedsSearched
    <2>2. ASSUME NEW d \in Nat, d \in S PROVE d + 1 \in S
        <3>1. PICK n \in Nat : n = d + 1 OBVIOUS
        <3>2. ASSUME n <= DepthCap PROVE Fits(f[n], n)
            <4>1. d <= DepthCap /\ n \in 1..DepthCap /\ n - 1 = d BY <1>0, <3>1, <3>2
            <4>2. PICK v \in Records : v = f[d] /\ Searched(v, d) BY <2>2, <4>1
            <4>3. f[n] = Expanded(v, n) BY <1>4, <4>1, <4>2
            <4>4. Expanded(v, n) \in Records /\ Searched(Expanded(v, n), n) BY <3>1, <4>2, SearchedStep
            <4> QED BY <4>3, <4>4
        <3> HIDE DEF Fits
        <3>3. n \in S BY <3>2
        <3> QED BY <3>1, <3>3
    <2> HIDE DEF S
    <2>3. \A n \in Nat : n \in S BY <2>1, <2>2, AllNumbers
    <2> HIDE DEF Fits
    <2>4. ASSUME NEW d \in 0..DepthCap PROVE Fits(f[d], d)
        <3>1. d \in S /\ d <= DepthCap BY <1>0, <2>3
        <3> QED BY <3>1 DEF S
    <2> QED BY <2>4
<1>6. DepthCap \in 0..DepthCap BY <1>0
<1> HIDE DEF Best
<1> QED BY <1>2, <1>3, <1>5, <1>6

\* The least member of a set of numbers, as the model takes it.
LEMMA MinIs ==
    ASSUME NEW S \in SUBSET Int, NEW a \in S, \A b \in S : a <= b
    PROVE  Min(S) = a
<1>1. \E x \in S : \A y \in S : x <= y OBVIOUS
<1>2. Min(S) \in S /\ \A y \in S : Min(S) <= y BY <1>1 DEF Min
<1>3. PICK x \in Int : x = Min(S) BY <1>2
<1>4. x <= a /\ a <= x BY <1>2, <1>3
<1> QED BY <1>3, <1>4

\* Distance is the number of the first layer.
LEMMA DistanceIs ==
    ASSUME DepthCap \in Nat, NEW m \in Memory
    PROVE  /\ \A k \in 0..DepthCap : Distance(m) = k <=> m \in First(k)
           /\ Distance(m) = -1 <=> \A j \in 0..DepthCap : m \notin Layer(j)
<1> DEFINE D == {d \in 0..DepthCap : m \in Layer(d)}
<1>1. D \in SUBSET Int OBVIOUS
<1>2. Distance(m) = IF D # {} THEN Min(D) ELSE -1 BY DEF Distance
<1>3. ASSUME NEW k \in 0..DepthCap, m \in First(k) PROVE Distance(m) = k
    <2>1. m \in Layer(k) /\ \A j \in 0..k-1 : m \notin Layer(j) BY <1>3 DEF First
    <2>2. k \in D BY <2>1
    <2>3. \A j \in D : k <= j
        <3> TAKE j \in D
        <3>1. j \notin 0..k-1 /\ j \in 0..DepthCap BY <2>1
        <3> QED BY <3>1
    <2> HIDE DEF D
    <2>4. Min(D) = k BY <1>1, <2>2, <2>3, MinIs
    <2> QED BY <1>2, <2>2, <2>4
<1>4. ASSUME D # {} PROVE \E k \in 0..DepthCap : m \in First(k)
    <2>1. PICK d \in Nat : d \in 0..DepthCap /\ m \in Layer(d) BY <1>4
    <2>2. PICK k \in 0..d : m \in First(k) BY <2>1, FirstIs
    <2>3. k \in 0..DepthCap BY <2>1
    <2> QED BY <2>2, <2>3
<1>5. D # {} => \E k \in 0..DepthCap : m \in First(k) /\ Distance(m) = k BY <1>3, <1>4
<1>6. D = {} => Distance(m) = -1 BY <1>2
<1>7. D = {} <=> \A j \in 0..DepthCap : m \notin Layer(j) OBVIOUS
<1> HIDE DEF D
<1>8. ASSUME NEW k \in 0..DepthCap, Distance(m) = k PROVE m \in First(k)
    <2>1. k # -1 OBVIOUS
    <2> QED BY <1>5, <1>6, <1>8, <2>1
<1>9. Distance(m) = -1 => D = {}
    <2>1. \A k \in 0..DepthCap : k # -1 OBVIOUS
    <2> QED BY <1>5, <2>1
<1> QED BY <1>3, <1>6, <1>7, <1>8, <1>9

\* The ranks of the hops onto m from N, as NearestByBestHop collects them.
RanksFrom(N, d, m) ==
    UNION {{RankOf([distance |-> d, table |-> "relations", type |-> x[2]]) :
               x \in {y \in Mediated(n) : y[1] = m}}
           \cup {RankOf([distance |-> d, table |-> "edges", type |-> x[2]]) :
                    x \in {y \in Direct(n) : y[1] = m}} : n \in N}

\* They are the ranks of the ways.
LEMMA RanksAre ==
    ASSUME NEW N, NEW d, NEW m
    PROVE  RanksFrom(N, d, m) = {RankOf(w) : w \in Ways(Out(N, d), m)}
<1> DEFINE way(t, x) == [distance |-> d, table |-> t, type |-> x[2]]
           W == Ways(Out(N, d), m)
<1>1. ASSUME NEW n \in N, NEW x \in Mediated(n), x[1] = m PROVE way("relations", x) \in W
    <2>1. PICK h : h = [to |-> x[1], how |-> way("relations", x)] OBVIOUS
    <2>2. h \in Out(N, d) BY <2>1 DEF Out, ByRelations, ByEdges
    <2>3. h.to = m /\ h.how = way("relations", x) BY <1>1, <2>1
    <2> QED BY <2>2, <2>3 DEF Ways
<1>2. ASSUME NEW n \in N, NEW x \in Direct(n), x[1] = m PROVE way("edges", x) \in W
    <2>1. PICK h : h = [to |-> x[1], how |-> way("edges", x)] OBVIOUS
    <2>2. h \in Out(N, d) BY <2>1 DEF Out, ByRelations, ByEdges
    <2>3. h.to = m /\ h.how = way("edges", x) BY <1>2, <2>1
    <2> QED BY <2>2, <2>3 DEF Ways
<1>3. ASSUME NEW w \in W
      PROVE  \E n \in N : \/ \E x \in Mediated(n) : x[1] = m /\ w = way("relations", x)
                          \/ \E x \in Direct(n) : x[1] = m /\ w = way("edges", x)
    <2>1. PICK h \in Out(N, d) : h.to = m /\ w = h.how BY DEF Ways
    <2>2. CASE h \in ByRelations(N, d)
        <3>1. PICK n \in N : \E x \in Mediated(n) : h = [to |-> x[1], how |-> way("relations", x)]
            BY <2>2 DEF ByRelations
        <3>2. PICK x \in Mediated(n) : h = [to |-> x[1], how |-> way("relations", x)] BY <3>1
        <3>3. x[1] = m /\ w = way("relations", x) BY <2>1, <3>2
        <3> HIDE DEF way
        <3> QED BY <3>3
    <2>3. CASE h \in ByEdges(N, d)
        <3>1. PICK n \in N : \E x \in Direct(n) : h = [to |-> x[1], how |-> way("edges", x)]
            BY <2>3 DEF ByEdges
        <3>2. PICK x \in Direct(n) : h = [to |-> x[1], how |-> way("edges", x)] BY <3>1
        <3>3. x[1] = m /\ w = way("edges", x) BY <2>1, <3>2
        <3> HIDE DEF way
        <3> QED BY <3>3
    <2> QED BY <2>2, <2>3 DEF Out
<1>4. RanksFrom(N, d, m) =
         UNION {{RankOf(way("relations", x)) : x \in {y \in Mediated(n) : y[1] = m}}
                \cup {RankOf(way("edges", x)) : x \in {y \in Direct(n) : y[1] = m}} : n \in N}
    BY DEF RanksFrom
<1> HIDE DEF way, W
<1>5. ASSUME NEW w \in W PROVE RankOf(w) \in RanksFrom(N, d, m) BY <1>3, <1>4
<1>6. ASSUME NEW z \in RanksFrom(N, d, m) PROVE \E w \in W : z = RankOf(w)
    <2>1. PICK n \in N : \/ \E x \in Mediated(n) : x[1] = m /\ z = RankOf(way("relations", x))
                         \/ \E x \in Direct(n) : x[1] = m /\ z = RankOf(way("edges", x))
        BY <1>4
    <2> QED BY <1>1, <1>2, <2>1
<1>7. RanksFrom(N, d, m) = {RankOf(w) : w \in W} BY <1>5, <1>6
<1> QED BY <1>7 DEF W

\* What the search knows in the end is what NearestByBestHop asks for.
LEMMA ChannelIsRight ==
    ASSUME Related
    PROVE  NearestByBestHop
<1>0. DepthCap \in Nat BY Ranked
<1>1. Visited \in Records /\ Searched(Visited, DepthCap) BY VisitedIs
<1> DEFINE ranks(m) == RanksFrom({q \in Memory : Distance(q) = Distance(m) - 1}, Distance(m), m)
           Found(m) == IF Distance(m) = -1 THEN Visited[m] = None
                       ELSE /\ Visited[m] # None /\ Visited[m].distance = Distance(m)
                            /\ Distance(m) > 0 => RankOf(Visited[m]) = Min(ranks(m))
<1>2. ASSUME NEW m \in Memory PROVE Found(m)
    <2>3. CASE Visited[m] = None
        <3>1. Distance(m) = -1 BY <1>0, <1>1, <2>3, DistanceIs DEF Searched
        <3> QED BY <2>3, <3>1
    <2>4. CASE Visited[m] # None
        <3>1. PICK k \in 0..DepthCap : k = Visited[m].distance BY <1>1, <2>4 DEF Searched
        <3>2. m \in First(k) BY <1>1, <2>4, <3>1 DEF Searched
        <3>3. Distance(m) = k BY <1>0, <3>2, DistanceIs
        <3>4. Distance(m) # -1 BY <3>3
        <3>5. ASSUME k > 0 PROVE RankOf(Visited[m]) = Min(ranks(m))
            <4>1. PICK W : W = Ways(Out(First(k - 1), k), m) OBVIOUS
            <4>2. BestOf(Visited[m], W) BY <1>1, <2>4, <3>1, <3>5, <4>1 DEF Searched
            <4>3. Visited[m] \in W /\ \A w \in W : RankOf(Visited[m]) <= RankOf(w) BY <2>4, <4>2 DEF BestOf
            <4>4. {q \in Memory : Distance(q) = Distance(m) - 1} = First(k - 1)
                <5>1. k - 1 \in 0..DepthCap BY <1>0, <3>5
                <5>2. \A q \in Memory : Distance(q) = k - 1 <=> q \in First(k - 1) BY <1>0, <5>1, DistanceIs
                <5> QED BY <3>3, <5>2 DEF First
            <4>5. ranks(m) = RanksFrom(First(k - 1), k, m) BY <3>3, <4>4
            <4>6. ranks(m) = {RankOf(w) : w \in W} BY <4>1, <4>5, RanksAre
            <4>7. \A w \in W : RankOf(w) \in Int
                <5>1. First(k - 1) \in SUBSET Memory BY DEF First
                <5>2. k \in Nat \ {0} /\ k \in Nat BY <3>5
                <5>3. Out(First(k - 1), k) \in SUBSET HopSet(k) BY <5>1, <5>2, OutIs DEF Out
                <5>4. W \subseteq HopRecord(k) BY <4>1, <5>2, <5>3, WaysAre
                <5> QED BY <5>2, <5>4, RankIs
            <4>8. Min({RankOf(w) : w \in W}) = RankOf(Visited[m])
                <5>1. PICK S \in SUBSET Int : S = {RankOf(w) : w \in W} BY <4>7
                <5>2. PICK a \in S : a = RankOf(Visited[m]) BY <4>3, <5>1
                <5>3. \A b \in S : a <= b BY <4>3, <5>1, <5>2
                <5>4. Min(S) = a BY <5>2, <5>3, MinIs
                <5> QED BY <5>1, <5>2, <5>4
            <4> QED BY <4>6, <4>8
        <3> HIDE DEF ranks
        <3> QED BY <2>4, <3>1, <3>3, <3>4, <3>5
    <2> QED BY <2>3, <2>4
<1> QED BY <1>2 DEF NearestByBestHop, RanksFrom

\* Every call keeps edges and relations between memories and entities.
LEMMA RelatedStep ==
    ASSUME Related, [Next]_vars
    PROVE  Related'
<1>1. CASE UNCHANGED vars BY <1>1 DEF Related, vars, graphVars
<1>2. ASSUME NEW s \in Memory, NEW t \in Memory, NEW r \in Relation, Link(s, r, t) PROVE Related'
    BY <1>2 DEF Related, Link
<1>3. ASSUME NEW x \in edges, Unlink(x) PROVE Related'
    BY <1>3 DEF Related, Unlink
<1>4. ASSUME NEW m \in rows, Delete(m) PROVE Related'
    BY <1>4 DEF Related, Delete
<1>5. ASSUME NEW e \in Entity, NEW f \in Entity, Merge(e, f) PROVE Related'
    BY <1>5 DEF Related, Merge
<1>6. ASSUME NEW e \in Entity, NEW f \in Entity, NEW r \in Relation, Relate(e, r, f) PROVE Related'
    BY <1>6 DEF Related, Relate
<1>7. ASSUME NEW m, NEW dir, NEW r, NEW d, Graph(m, dir, r, d) PROVE Related'
    BY <1>7 DEF Related, Graph, graphVars
<1> QED BY <1>1, <1>2, <1>3, <1>4, <1>5, <1>6, <1>7 DEF Next

\* Whatever the edges, relations and merges, and in whatever order a level's hops are
\* taken: the channel gives a memory its shortest distance from the entities of the
\* query and the best rank among the hops onto it from the memories one nearer
\* (graph_proximity, _consider_candidate).
THEOREM HopsAreBest == Spec => [](NearestByBestHop /\ BestHopFirst)
<1>1. Init => Related BY DEF Init, Related
<1>2. Related /\ [Next]_vars => Related' BY RelatedStep
<1>3. Related => NearestByBestHop BY ChannelIsRight
<1>4. NearestByBestHop => BestHopFirst BY DEF BestHopFirst
<1> QED BY <1>1, <1>2, <1>3, <1>4, PTL DEF Spec

-----------------------------------------------------------------------------
(* Queries of the code graph *)

\* What is given: names of symbols and depths are numbers, NULL is no row of the table,
\* and no pattern of an import matches the hash of a scanned file.
Given ==
    /\ Native \notin Tool /\ \A t \in Tool : Like[t] \subseteq Tool \X File
    /\ Symbol \subseteq Nat /\ Symbol # {} /\ DepthOf \subseteq Nat
    /\ Nobody \notin {Queries!Own(n) : n \in Symbol} \cup
                       UNION {Queries!Rows(t, a) : t \in Tool, a \in Artifact}

\* A reference and its ends are there; its source is of its owner, and its target of its
\* owner or of the scan's.
Anchored(r) ==
    /\ r.src \in defined /\ r.src.mem[1] = r.owner
    /\ r.tgt # Nobody => r.tgt \in defined /\ r.tgt.mem[1] \in {r.owner, Native}
AllAnchored == Nobody \notin defined /\ \A r \in refs : Anchored(r)

LEMMA AnchoredInit ==
    ASSUME Given, Queries!Init
    PROVE  AllAnchored
<1>1. PICK R \in SUBSET {q \in Symbol \X Symbol : q[1] # q[2]}, U \in SUBSET {Queries!Max(Symbol)} :
        refs = {Queries!Ref(Queries!Own(q[1]), Queries!Own(q[2]), q[2], TRUE, Native) : q \in R} \cup
               {Queries!Ref(Queries!Own(Queries!Min(Symbol)), Nobody, n, FALSE, Native) : n \in U}
    BY DEF Queries!Init
<1>2. Queries!Min(Symbol) \in Symbol
    <2>1. Symbol \subseteq Nat /\ Symbol # {} BY DEF Given
    <2>2. \E x \in Symbol : \A y \in Symbol : x <= y BY <2>1, LeastNumber
    <2> QED BY <2>2 DEF Queries!Min
<1>3. defined = {Queries!Own(n) : n \in Symbol} BY DEF Queries!Init
<1>4. Nobody \notin defined BY <1>3 DEF Given
<1>5. ASSUME NEW n \in Symbol PROVE Queries!Own(n) \in defined /\ Queries!Own(n).mem[1] = Native
    BY <1>3 DEF Queries!Own
<1>6. ASSUME NEW q \in R
      PROVE  Anchored(Queries!Ref(Queries!Own(q[1]), Queries!Own(q[2]), q[2], TRUE, Native))
    <2>1. q[1] \in Symbol /\ q[2] \in Symbol OBVIOUS
    <2> QED BY <1>5, <2>1 DEF Anchored, Queries!Ref
<1>7. ASSUME NEW n
      PROVE  Anchored(Queries!Ref(Queries!Own(Queries!Min(Symbol)), Nobody, n, FALSE, Native))
    BY <1>2, <1>5 DEF Anchored, Queries!Ref
<1> QED BY <1>1, <1>4, <1>6, <1>7 DEF AllAnchored

\* What an import takes away is of no other owner, and what it brings is anchored.
LEMMA AnchoredImport ==
    ASSUME Given, AllAnchored, NEW t \in Tool, NEW a \in Artifact, Queries!Import(t, a)
    PROVE  /\ AllAnchored'
           /\ {s \in defined : s.mem[1] \in Queries!Others(t)} \subseteq defined'
           /\ {r \in refs : r.owner \in Queries!Others(t)} \subseteq refs'
<1>1. PICK old : old = Queries!Previous(t) OBVIOUS
<1>2. /\ defined' = (defined \ old) \cup Queries!Rows(t, a)
      /\ refs' = {r \in refs : r.owner # t /\ r.src \notin old /\ r.tgt \notin old} \cup Queries!Edges(t, a)
    BY <1>1 DEF Queries!Import
<1>3. old \subseteq defined /\ \A s \in old : s.mem[1] \notin Queries!Others(t)
    <2>1. ASSUME NEW s \in old PROVE s \in defined /\ s.mem \in Tool \X File /\ s.mem \in Like[t]
        BY <1>1 DEF Queries!Previous, Given
    <2>2. ASSUME NEW s \in old PROVE s.mem[1] \notin Queries!Others(t)
        <3>1. PICK u \in Tool, p \in File : s.mem = <<u, p>> BY <2>1
        <3>2. u # Native /\ <<u, p>> \in Like[t] BY <2>1, <3>1 DEF Given
        <3>3. s.mem[1] = u BY <3>1
        <3> QED BY <3>2, <3>3 DEF Queries!Others
    <2> QED BY <2>1, <2>2
<1>4. ASSUME NEW r \in refs, r.owner \in Queries!Others(t)
      PROVE  r.owner # t /\ r.src \notin old /\ r.tgt \notin old
    <2>1. Native \in Queries!Others(t) /\ t \notin Queries!Others(t) BY DEF Queries!Others, Given
    <2>2. Anchored(r) /\ Nobody \notin old BY <1>3 DEF AllAnchored
    <2> QED BY <1>3, <1>4, <2>1, <2>2 DEF Anchored
<1>5. Nobody \notin Queries!Rows(t, a) BY DEF Given
<1>6. ASSUME NEW x \in a.nodes
      PROVE  /\ [mem |-> <<t, x[1]>>, name |-> x[2]] \in Queries!Rows(t, a)
             /\ [mem |-> <<t, x[1]>>, name |-> x[2]].mem[1] = t
    BY DEF Queries!Rows
<1>7. ASSUME NEW r \in Queries!Edges(t, a)
      PROVE  /\ r.src \in Queries!Rows(t, a) /\ r.src.mem[1] = r.owner
             /\ r.tgt # Nobody => r.tgt \in Queries!Rows(t, a) /\ r.tgt.mem[1] = r.owner
    BY <1>6 DEF Queries!Edges, Queries!Ref
<1>8. AllAnchored'
    <2>1. Nobody \notin defined' BY <1>2, <1>5 DEF AllAnchored
    <2>2. ASSUME NEW r \in refs' PROVE Anchored(r)'
        <3>1. CASE r \in Queries!Edges(t, a) BY <1>2, <1>7, <3>1 DEF Anchored
        <3>2. CASE r \in refs /\ r.src \notin old /\ r.tgt \notin old
            BY <1>2, <3>2 DEF AllAnchored, Anchored
        <3> QED BY <1>2, <3>1, <3>2
    <2> QED BY <2>1, <2>2 DEF AllAnchored
<1>9. {s \in defined : s.mem[1] \in Queries!Others(t)} \subseteq defined' BY <1>2, <1>3
<1>10. {r \in refs : r.owner \in Queries!Others(t)} \subseteq refs' BY <1>2, <1>4
<1> QED BY <1>8, <1>9, <1>10

LEMMA AnchoredStep ==
    ASSUME Given, AllAnchored, [Queries!Next]_Queries!queryVars
    PROVE  AllAnchored'
<1>1. CASE UNCHANGED Queries!queryVars
    BY <1>1 DEF AllAnchored, Anchored, Queries!queryVars
<1>2. CASE Queries!Reresolve
    <2> DEFINE edge(q) == [Queries!Ref(q[1].src, q[2], q[1].name, q[1].exact, q[1].owner)
                              EXCEPT !.fact = TRUE]
    <2>1. PICK F \in SUBSET {q \in {r \in refs : r.tgt = Nobody} \X defined : q[2] \in Queries!Found(q[1])} :
              refs' = (refs \ {q[1] : q \in F}) \cup {edge(q) : q \in F}
        BY <1>2 DEF Queries!Reresolve
    <2>2. defined' = defined BY <1>2 DEF Queries!Reresolve
    <2>3. ASSUME NEW q \in F PROVE Anchored(edge(q))
        <3>1. PICK r \in refs, s \in defined : q = <<r, s>> /\ s \in Queries!Found(r) OBVIOUS
        <3>2. s.mem = r.src.mem \/ s.mem = <<Native, Native>> BY <3>1 DEF Queries!Found
        <3>3. s.mem[1] \in {r.src.mem[1], Native} BY <3>2
        <3>4. Anchored(r) BY DEF AllAnchored
        <3>5. edge(q).src = r.src /\ edge(q).tgt = s /\ edge(q).owner = r.owner
            BY <3>1 DEF Queries!Ref
        <3> HIDE DEF edge
        <3> QED BY <3>3, <3>4, <3>5 DEF Anchored
    <2>4. \A r \in refs' : Anchored(r)
        <3> HIDE DEF edge
        <3> QED BY <2>1, <2>3 DEF AllAnchored
    <2> QED BY <2>2, <2>4 DEF AllAnchored, Anchored
<1>3. CASE \E t \in Tool, a \in Artifact : Queries!Import(t, a) BY <1>3, AnchoredImport
<1> QED BY <1>1, <1>2, <1>3 DEF Queries!Next

\* An import leaves the rows of the scan, and of the tools whose sentinels its pattern does
\* not match, as they are: a reference of theirs ends at their own symbols or the scan's,
\* whatever scans resolve between imports, and neither goes (importer.py:103-107).
THEOREM OthersUntouched ==
    ASSUME Given
    PROVE  Queries!Spec => OthersAreLeftAlone
<1>1. Queries!Init => AllAnchored BY AnchoredInit
<1>2. AllAnchored /\ [Queries!Next]_Queries!queryVars => AllAnchored' BY AnchoredStep
<1>3. AllAnchored /\ [Queries!Next]_Queries!queryVars =>
        [\A t \in Tool, a \in Artifact : Queries!Import(t, a) =>
          /\ {s \in defined : s.mem[1] \in Queries!Others(t)} \subseteq defined'
          /\ {r \in refs : r.owner \in Queries!Others(t)} \subseteq refs']_Queries!queryVars
    BY AnchoredImport
<1> QED BY <1>1, <1>2, <1>3, PTL DEF Queries!Spec, OthersAreLeftAlone, Queries!OthersAreLeftAlone

\* The search is what its definition says: the start, and level after level.
LEMMA SpreadIs ==
    ASSUME NEW E \in [defined -> SUBSET defined], NEW s \in defined, NEW d \in Nat
    PROVE  /\ Queries!Spread(E, s, d) \in [0..d -> SUBSET defined]
           /\ Queries!Spread(E, s, d)[0] = {s}
           /\ \A k \in 0..d-1 : Queries!Spread(E, s, d)[k + 1] =
                 Queries!Spread(E, s, d)[k] \cup UNION {E[x] : x \in Queries!Spread(E, s, d)[k]}
<1> DEFINE Grown(N) == N \cup UNION {E[x] : x \in N}
<1>1. PICK X : X = SUBSET defined OBVIOUS
<1>2. PICK g : g = [N \in X |-> Grown(N)] OBVIOUS
<1>3. g \in [X -> X]
    <2>1. \A N \in X : Grown(N) \in X BY <1>1
    <2> HIDE DEF Grown
    <2> QED BY <1>2, <2>1
<1>4. {s} \in X BY <1>1
<1>5. PICK f \in [Nat -> X] : f = [n \in Nat |-> IF n = 0 THEN {s} ELSE g[f[n - 1]]]
    <2>1. PICK c : c = {s} OBVIOUS
    <2>2. \E f \in [Nat -> X] : f = [n \in Nat |-> IF n = 0 THEN c ELSE g[f[n - 1]]]
        BY <1>3, <1>4, <2>1, Recursion
    <2> QED BY <2>1, <2>2
<1>6. PICK h : h = [k \in 0..d |-> f[k]] OBVIOUS
<1>7. h = [k \in 0..d |-> IF k = 0 THEN {s} ELSE Grown(h[k - 1])]
    <2>1. ASSUME NEW k \in 0..d, k # 0 PROVE h[k] = Grown(h[k - 1])
        <3>1. k - 1 \in 0..d /\ k - 1 \in Nat /\ k \in Nat BY <2>1
        <3>2. h[k] = g[f[k - 1]] BY <1>5, <1>6, <2>1, <3>1
        <3>3. f[k - 1] \in X /\ h[k - 1] = f[k - 1] BY <1>5, <1>6, <3>1
        <3> HIDE DEF Grown
        <3> QED BY <1>2, <3>2, <3>3
    <2>2. h[0] = {s} BY <1>5, <1>6
    <2> HIDE DEF Grown
    <2> QED BY <1>6, <2>1, <2>2
<1>8. PICK S : S = Queries!Spread(E, s, d) OBVIOUS
<1>9. S = [k \in 0..d |-> IF k = 0 THEN {s} ELSE Grown(S[k - 1])]
    BY <1>7, <1>8 DEF Queries!Spread
<1>10. S[0] = {s} BY <1>9
<1>11. ASSUME NEW k \in 0..d-1 PROVE S[k + 1] = Grown(S[k])
    <2>1. k + 1 \in 0..d /\ k + 1 # 0 /\ (k + 1) - 1 = k OBVIOUS
    <2> HIDE DEF Grown
    <2> QED BY <1>9, <2>1
<1>12. \A k \in 0..d : S[k] \in SUBSET defined
    <2> DEFINE T == {k \in Nat : k <= d => S[k] \in SUBSET defined}
    <2>1. 0 \in T BY <1>10
    <2>2. ASSUME NEW k \in Nat, k \in T PROVE k + 1 \in T
        <3> SUFFICES ASSUME k + 1 <= d PROVE S[k + 1] \in SUBSET defined OBVIOUS
        <3>1. k \in 0..d-1 /\ S[k] \in SUBSET defined BY <2>2
        <3> QED BY <1>11, <3>1
    <2> HIDE DEF T
    <2>3. \A k \in Nat : k \in T BY <2>1, <2>2, AllNumbers
    <2> QED BY <2>3 DEF T
<1> QED BY <1>8, <1>9, <1>10, <1>11, <1>12

\* Edges lead from symbols that are there to symbols that are there, and back.
LEMMA EdgesStay ==
    ASSUME AllAnchored
    PROVE  /\ \A x \in defined : Queries!Out(x) \subseteq defined /\ Queries!In(x) \subseteq defined
           /\ \A x, y \in defined : y \in Queries!Out(x) <=> x \in Queries!In(y)
           /\ Queries!Ahead \in [defined -> SUBSET defined]
           /\ Queries!Behind \in [defined -> SUBSET defined]
<1>1. ASSUME NEW x \in defined
      PROVE  Queries!Out(x) \subseteq defined /\ Queries!In(x) \subseteq defined
    BY DEF AllAnchored, Anchored, Queries!Out, Queries!In
<1>2. ASSUME NEW x \in defined, NEW y \in defined
      PROVE  y \in Queries!Out(x) <=> x \in Queries!In(y)
    BY DEF AllAnchored, Queries!Out, Queries!In
<1> QED BY <1>1, <1>2 DEF Queries!Ahead, Queries!Behind

\* A chain, with its ends in the sequence.
Chain(q, s, g, n) ==
    /\ q \in [0..n -> defined] /\ q[0] = s /\ q[n] = g
    /\ \A i \in 0..n-1 : q[i + 1] \in Queries!Out(q[i])

LEMMA ChainedIs ==
    ASSUME NEW s \in defined, NEW g \in defined, NEW n \in Nat
    PROVE  Queries!Chained(s, g, n) <=> \E q : Chain(q, s, g, n)
<1>1. CASE n = 0
    <2>1. PICK q : q = [i \in 0..0 |-> s] OBVIOUS
    <2>2. s = g => Chain(q, s, g, n) BY <1>1, <2>1 DEF Chain
    <2>3. ASSUME NEW h, Chain(h, s, g, n) PROVE s = g BY <1>1, <2>3 DEF Chain
    <2> QED BY <1>1, <2>2, <2>3 DEF Queries!Chained
<1>2. CASE n # 0
    <2> DEFINE Whole(p) == [i \in 0..n |-> IF i = 0 THEN s ELSE IF i = n THEN g ELSE p[i]]
    <2>1. Queries!Chained(s, g, n) <=> \E p \in [1..n-1 -> defined] :
            \A i \in 0..n-1 : Whole(p)[i + 1] \in Queries!Out(Whole(p)[i])
        BY <1>2 DEF Queries!Chained
    <2>2. ASSUME NEW p \in [1..n-1 -> defined],
                 \A i \in 0..n-1 : Whole(p)[i + 1] \in Queries!Out(Whole(p)[i])
          PROVE  \E q : Chain(q, s, g, n)
        <3>1. PICK q : q = Whole(p) OBVIOUS
        <3>2. q \in [0..n -> defined] /\ q[0] = s /\ q[n] = g
            <4>1. \A i \in 0..n : i # 0 /\ i # n => p[i] \in defined OBVIOUS
            <4> QED BY <1>2, <3>1, <4>1
        <3>3. \A i \in 0..n-1 : q[i + 1] \in Queries!Out(q[i]) BY <2>2, <3>1
        <3> QED BY <3>2, <3>3 DEF Chain
    <2>3. ASSUME NEW q, Chain(q, s, g, n)
          PROVE  \E p \in [1..n-1 -> defined] :
                    \A i \in 0..n-1 : Whole(p)[i + 1] \in Queries!Out(Whole(p)[i])
        <3>1. PICK p : p = [i \in 1..n-1 |-> q[i]] OBVIOUS
        <3>2. p \in [1..n-1 -> defined] BY <2>3, <3>1 DEF Chain
        <3>3. \A i \in 0..n : Whole(p)[i] = q[i] BY <2>3, <3>1 DEF Chain
        <3>4. ASSUME NEW i \in 0..n-1 PROVE Whole(p)[i + 1] \in Queries!Out(Whole(p)[i])
            <4>1. i \in 0..n /\ i + 1 \in 0..n OBVIOUS
            <4>2. Whole(p)[i] = q[i] /\ Whole(p)[i + 1] = q[i + 1] BY <3>3, <4>1
            <4>3. q[i + 1] \in Queries!Out(q[i]) BY <2>3 DEF Chain
            <4> HIDE DEF Whole
            <4> QED BY <4>2, <4>3
        <3> HIDE DEF Whole
        <3> QED BY <3>2, <3>4
    <2> HIDE DEF Whole
    <2> QED BY <2>1, <2>2, <2>3
<1> QED BY <1>1, <1>2

LEMMA ChainStep ==
    ASSUME AllAnchored, NEW s \in defined, NEW g \in defined, NEW n \in Nat
    PROVE  Queries!Chained(s, g, n + 1) <=>
             \E x \in defined : Queries!Chained(s, x, n) /\ g \in Queries!Out(x)
<1>1. ASSUME NEW q, Chain(q, s, g, n + 1)
      PROVE  \E x \in defined : Queries!Chained(s, x, n) /\ g \in Queries!Out(x)
    <2>1. PICK h : h = [i \in 0..n |-> q[i]] OBVIOUS
    <2>2. q[n] \in defined /\ g \in Queries!Out(q[n]) BY <1>1 DEF Chain
    <2>3. Chain(h, s, q[n], n)
        <3>1. \A i \in 0..n-1 : i \in 0..n /\ i + 1 \in 0..n /\ i \in 0..(n + 1)-1 OBVIOUS
        <3> QED BY <1>1, <2>1, <3>1 DEF Chain
    <2> QED BY <2>2, <2>3, ChainedIs
<1>2. ASSUME NEW x \in defined, NEW h, Chain(h, s, x, n), g \in Queries!Out(x)
      PROVE  Queries!Chained(s, g, n + 1)
    <2>1. PICK q : q = [i \in 0..n+1 |-> IF i \in 0..n THEN h[i] ELSE g] OBVIOUS
    <2>2. q \in [0..n+1 -> defined] /\ q[0] = s /\ q[n + 1] = g BY <1>2, <2>1 DEF Chain
    <2>3. ASSUME NEW i \in 0..(n + 1)-1 PROVE q[i + 1] \in Queries!Out(q[i])
        <3>1. CASE i = n BY <1>2, <2>1, <3>1 DEF Chain
        <3>2. CASE i \in 0..n-1 BY <1>2, <2>1, <3>2 DEF Chain
        <3> QED BY <3>1, <3>2
    <2>4. Chain(q, s, g, n + 1) BY <2>2, <2>3 DEF Chain
    <2>5. n + 1 \in Nat OBVIOUS
    <2> QED BY <2>4, <2>5, ChainedIs
<1>3. n + 1 \in Nat OBVIOUS
<1> QED BY <1>1, <1>2, <1>3, ChainedIs

\* What is seen stays seen, and is closed when the cap kept nothing from being looked at.
LEMMA SpreadGrows ==
    ASSUME NEW E \in [defined -> SUBSET defined], NEW s \in defined, NEW d \in Nat,
           NEW seen, seen = Queries!Spread(E, s, d)
    PROVE  /\ \A k \in 0..d : seen[k] \subseteq seen[d]
           /\ s \in seen[d]
           /\ Queries!Last(seen, d) = {} => \A x \in seen[d] : E[x] \subseteq seen[d]
<1>1. /\ seen \in [0..d -> SUBSET defined] /\ seen[0] = {s}
      /\ \A k \in 0..d-1 : seen[k + 1] = seen[k] \cup UNION {E[x] : x \in seen[k]}
    BY SpreadIs
<1>2. \A k \in 0..d : seen[k] \subseteq seen[d]
    <2> DEFINE S == {i \in Nat : i <= d => seen[d - i] \subseteq seen[d]}
    <2>1. 0 \in S OBVIOUS
    <2>2. ASSUME NEW i \in Nat, i \in S PROVE i + 1 \in S
        <3> SUFFICES ASSUME i + 1 <= d PROVE seen[d - (i + 1)] \subseteq seen[d] OBVIOUS
        <3>1. PICK k : k = d - (i + 1) OBVIOUS
        <3>2. k \in 0..d-1 /\ k + 1 = d - i BY <3>1
        <3>3. seen[k + 1] \subseteq seen[d] BY <2>2, <3>2
        <3>4. seen[k] \subseteq seen[k + 1] BY <1>1, <3>2
        <3> QED BY <3>1, <3>3, <3>4
    <2> HIDE DEF S
    <2>3. \A i \in Nat : i \in S BY <2>1, <2>2, AllNumbers
    <2>4. ASSUME NEW k \in 0..d PROVE seen[k] \subseteq seen[d]
        <3>1. d - k \in Nat /\ d - k <= d /\ d - (d - k) = k OBVIOUS
        <3>2. d - k \in S BY <2>3, <3>1
        <3> QED BY <3>1, <3>2 DEF S
    <2> QED BY <2>4
<1>3. s \in seen[d] BY <1>1, <1>2
<1>4. ASSUME Queries!Last(seen, d) = {}, NEW x \in seen[d] PROVE E[x] \subseteq seen[d]
    <2>1. d # 0 /\ seen[d] \subseteq seen[d - 1] BY <1>3, <1>4 DEF Queries!Last
    <2>2. d - 1 \in 0..d-1 /\ (d - 1) + 1 = d BY <2>1
    <2>3. seen[d] = seen[d - 1] \cup UNION {E[y] : y \in seen[d - 1]} BY <1>1, <2>2
    <2> QED BY <1>4, <2>1, <2>3
<1> QED BY <1>2, <1>3, <1>4

\* After k levels a search along the edges has seen what chains of up to k edges lead to.
LEMMA AheadSees ==
    ASSUME AllAnchored, NEW s \in defined, NEW d \in Nat,
           NEW seen, seen = Queries!Spread(Queries!Ahead, s, d), NEW k \in 0..d
    PROVE  seen[k] = {x \in defined : \E n \in 0..k : Queries!Chained(s, x, n)}
<1> DEFINE Reached(j) == {x \in defined : \E n \in 0..j : Queries!Chained(s, x, n)}
           S == {j \in Nat : j <= d => seen[j] = Reached(j)}
<1>1. /\ seen \in [0..d -> SUBSET defined] /\ seen[0] = {s}
      /\ \A j \in 0..d-1 : seen[j + 1] = seen[j] \cup UNION {Queries!Ahead[x] : x \in seen[j]}
    BY EdgesStay, SpreadIs
<1>2. 0 \in S
    <2>1. \A x \in defined : Queries!Chained(s, x, 0) <=> s = x BY DEF Queries!Chained
    <2>2. Reached(0) = {s} BY <2>1
    <2> HIDE DEF Reached
    <2> QED BY <1>1, <2>2
<1>3. ASSUME NEW j \in Nat, j \in S PROVE j + 1 \in S
    <2> SUFFICES ASSUME j + 1 <= d PROVE seen[j + 1] = Reached(j + 1) OBVIOUS
    <2>1. seen[j] = Reached(j) /\ j \in 0..d-1 BY <1>3
    <2>2. seen[j + 1] = seen[j] \cup UNION {Queries!Ahead[x] : x \in seen[j]} BY <1>1, <2>1
    <2>3. ASSUME NEW x \in seen[j + 1] PROVE x \in Reached(j + 1)
        <3>1. CASE x \in seen[j]
            <4>1. x \in defined /\ \E n \in 0..j : Queries!Chained(s, x, n) BY <2>1, <3>1
            <4> QED BY <4>1
        <3>2. CASE \E y \in seen[j] : x \in Queries!Ahead[y]
            <4>1. PICK y \in seen[j] : x \in Queries!Ahead[y] BY <3>2
            <4>2. y \in defined /\ x \in Queries!Out(y) /\ x \in defined
                BY <2>1, <4>1, EdgesStay DEF Queries!Ahead
            <4>3. PICK n \in 0..j : Queries!Chained(s, y, n) BY <2>1, <4>1
            <4>4. n \in Nat /\ n + 1 \in 0..j+1 OBVIOUS
            <4>5. Queries!Chained(s, x, n + 1) BY <4>2, <4>3, <4>4, ChainStep
            <4> QED BY <4>2, <4>4, <4>5
        <3> HIDE DEF Reached
        <3> QED BY <2>2, <3>1, <3>2
    <2>4. ASSUME NEW x \in Reached(j + 1) PROVE x \in seen[j + 1]
        <3>1. x \in defined OBVIOUS
        <3>2. PICK n \in 0..j+1 : Queries!Chained(s, x, n) OBVIOUS
        <3>3. CASE n \in 0..j
            <4>1. x \in Reached(j) BY <3>1, <3>2, <3>3
            <4> HIDE DEF Reached
            <4> QED BY <2>1, <2>2, <4>1
        <3>4. CASE n = j + 1
            <4>1. PICK y \in defined : Queries!Chained(s, y, j) /\ x \in Queries!Out(y)
                BY <3>1, <3>2, <3>4, ChainStep
            <4>2. y \in seen[j] BY <2>1, <4>1
            <4>3. x \in Queries!Ahead[y] BY <4>1 DEF Queries!Ahead
            <4> QED BY <2>2, <4>2, <4>3
        <3> QED BY <3>2, <3>3, <3>4
    <2> HIDE DEF Reached
    <2> QED BY <2>3, <2>4
<1> HIDE DEF S
<1>4. \A j \in Nat : j \in S BY <1>2, <1>3, AllNumbers
<1> QED BY <1>4 DEF S

\* find_path: a path found is a shortest one; silence means there is none.
LEMMA PathIsHonest ==
    ASSUME AllAnchored, NEW s \in defined, NEW g \in defined, NEW d \in Nat,
           NEW path, path = Queries!FindPath(s, g, d)
    PROVE  /\ path.found => /\ Queries!Chained(s, g, path.hops)
                            /\ \A n \in 0..path.hops-1 : ~Queries!Chained(s, g, n)
           /\ ~path.found /\ ~path.truncated => ~Queries!Leads(s, g)
<1>1. PICK seen : seen = Queries!Spread(Queries!Ahead, s, d) OBVIOUS
<1>2. PICK at : at = {k \in 0..d : g \in seen[k]} OBVIOUS
<1>3. path = [found |-> at # {}, hops |-> IF at = {} THEN 0 ELSE Queries!Min(at),
              truncated |-> at = {} /\ Queries!Last(seen, d) # {}]
    BY <1>1, <1>2 DEF Queries!FindPath
<1>4. \A k \in 0..d : seen[k] = {x \in defined : \E n \in 0..k : Queries!Chained(s, x, n)}
    BY <1>1, AheadSees
<1>5. ASSUME at # {}
      PROVE  /\ Queries!Chained(s, g, path.hops)
             /\ \A n \in 0..path.hops-1 : ~Queries!Chained(s, g, n)
    <2>1. PICK h : h = Queries!Min(at) OBVIOUS
    <2>2. h \in at /\ \A k \in at : h <= k
        <3>1. at \subseteq Nat BY <1>2
        <3>2. \E x \in at : \A y \in at : x <= y BY <1>5, <3>1, LeastNumber
        <3> QED BY <2>1, <3>2 DEF Queries!Min
    <2>3. path.hops = h BY <1>3, <1>5, <2>1
    <2>4. h \in 0..d /\ g \in seen[h] BY <1>2, <2>2
    <2>5. ASSUME NEW n \in 0..h-1 PROVE ~Queries!Chained(s, g, n)
        <3> SUFFICES ASSUME Queries!Chained(s, g, n) PROVE FALSE OBVIOUS
        <3>1. n \in 0..d /\ n \in 0..n /\ ~(h <= n) BY <2>4
        <3>2. g \in seen[n] BY <1>4, <3>1
        <3> QED BY <1>2, <2>2, <3>1, <3>2
    <2>6. PICK n \in 0..h : Queries!Chained(s, g, n) BY <1>4, <2>4
    <2>7. n = h BY <2>4, <2>5, <2>6
    <2> QED BY <2>3, <2>5, <2>6, <2>7
<1>6. ASSUME at = {}, Queries!Last(seen, d) = {} PROVE ~Queries!Leads(s, g)
    <2>1. /\ s \in seen[d] /\ \A x \in seen[d] : Queries!Ahead[x] \subseteq seen[d]
        BY <1>1, <1>6, EdgesStay, SpreadGrows
    <2>2. seen[d] \in SUBSET defined /\ d \in 0..d BY <1>4
    <2>3. g \notin seen[d] BY <1>2, <1>6, <2>2
    <2>4. \A x \in seen[d] : Queries!Out(x) \subseteq seen[d] BY <2>1, <2>2 DEF Queries!Ahead
    <2> QED BY <2>1, <2>2, <2>3, <2>4 DEF Queries!Leads
<1>7. /\ path.found = (at # {})
      /\ path.truncated = (at = {} /\ Queries!Last(seen, d) # {})
    BY <1>3
<1> QED BY <1>5, <1>6, <1>7

\* affected: an answer that is not truncated lists all that leads to g, and no other.
LEMMA AffectedIsHonest ==
    ASSUME AllAnchored, NEW s \in defined, NEW g \in defined, NEW d \in Nat,
           NEW all, all = Queries!Affected(g, d, TRUE), ~all.truncated, s # g
    PROVE  s \in all.facts <=> Queries!Leads(s, g)
<1>1. PICK seen : seen = Queries!Spread(Queries!Behind, g, d) OBVIOUS
<1>2. PICK T : T = seen[d] OBVIOUS
<1>3. Queries!Last(seen, d) = {} /\ all.facts = UNION {Queries!In(x) : x \in T}
    BY <1>1, <1>2 DEF Queries!Affected
<1>4. /\ seen \in [0..d -> SUBSET defined] /\ seen[0] = {g}
      /\ \A j \in 0..d-1 : seen[j + 1] = seen[j] \cup UNION {Queries!Behind[x] : x \in seen[j]}
    <2>1. PICK E \in [defined -> SUBSET defined] : E = Queries!Behind BY EdgesStay
    <2>2. seen = Queries!Spread(E, g, d) BY <1>1, <2>1
    <2>3. /\ seen \in [0..d -> SUBSET defined] /\ seen[0] = {g}
          /\ \A j \in 0..d-1 : seen[j + 1] = seen[j] \cup UNION {E[x] : x \in seen[j]}
        BY <2>2, SpreadIs
    <2> QED BY <2>1, <2>3
<1>5. /\ \A k \in 0..d : seen[k] \subseteq T
      /\ g \in T
      /\ \A x \in T : Queries!Behind[x] \subseteq T
    BY <1>1, <1>2, <1>3, EdgesStay, SpreadGrows
<1>6. T \subseteq defined /\ d \in 0..d BY <1>2, <1>4
<1>7. \A x \in T : Queries!Behind[x] = Queries!In(x) BY <1>6 DEF Queries!Behind
<1>8. ASSUME s \in all.facts, NEW N \in SUBSET defined, s \in N,
             \A x \in N : Queries!Out(x) \subseteq N
      PROVE  g \in N
    <2> DEFINE S == {j \in Nat : j <= d => \A x \in seen[j] : x \in N => g \in N}
    <2>1. 0 \in S BY <1>4
    <2>2. ASSUME NEW j \in Nat, j \in S PROVE j + 1 \in S
        <3> SUFFICES ASSUME j + 1 <= d, NEW x \in seen[j + 1], x \in N PROVE g \in N OBVIOUS
        <3>1. j \in 0..d-1 /\ j \in 0..d OBVIOUS
        <3>2. CASE x \in seen[j] BY <2>2, <3>1, <3>2
        <3>3. CASE \E y \in seen[j] : x \in Queries!Behind[y]
            <4>1. PICK y \in seen[j] : x \in Queries!Behind[y] BY <3>3
            <4>2. y \in T /\ x \in defined /\ y \in defined BY <1>5, <1>6, <3>1, <4>1
            <4>3. x \in Queries!In(y) BY <1>7, <4>1, <4>2
            <4>4. y \in N BY <1>8, <4>2, <4>3, EdgesStay
            <4> QED BY <2>2, <4>1, <4>4
        <3> QED BY <1>4, <3>1, <3>2, <3>3
    <2> HIDE DEF S
    <2>3. \A j \in Nat : j \in S BY <2>1, <2>2, AllNumbers
    <2>4. s \in T
        <3>1. PICK x \in T : s \in Queries!In(x) BY <1>3, <1>8
        <3> QED BY <1>5, <1>7, <3>1
    <2>5. \A x \in seen[d] : x \in N => g \in N BY <2>3 DEF S
    <2> QED BY <1>2, <1>8, <2>4, <2>5
<1>9. ASSUME s \notin all.facts PROVE ~Queries!Leads(s, g)
    <2>1. PICK F : F = {g} \cup all.facts OBVIOUS
    <2> DEFINE S == {j \in Nat : j <= d => seen[j] \subseteq F}
    <2>2. 0 \in S
        <3>1. seen[0] \subseteq F BY <1>4, <2>1
        <3> QED BY <3>1
    <2>3. ASSUME NEW j \in Nat, j \in S PROVE j + 1 \in S
        <3> SUFFICES ASSUME j + 1 <= d PROVE seen[j + 1] \subseteq F OBVIOUS
        <3>1. j \in 0..d-1 /\ j \in 0..d /\ seen[j] \subseteq F BY <2>3
        <3>2. \A y \in seen[j] : y \in T BY <1>5, <3>1
        <3>3. \A y \in seen[j] : Queries!Behind[y] \subseteq F BY <1>3, <1>7, <2>1, <3>2
        <3> QED BY <1>4, <3>1, <3>3
    <2> HIDE DEF S
    <2>4. T \subseteq F
        <3>1. \A j \in Nat : j \in S BY <2>2, <2>3, AllNumbers
        <3>2. d \in S /\ d <= d BY <3>1
        <3> QED BY <1>2, <3>2 DEF S
    <2>5. s \notin T BY <1>9, <2>1, <2>4
    <2>6. PICK N : N = defined \ T OBVIOUS
    <2>7. ASSUME NEW x \in N PROVE Queries!Out(x) \subseteq N
        <3> SUFFICES ASSUME NEW y \in Queries!Out(x), y \notin N PROVE FALSE OBVIOUS
        <3>1. x \in defined /\ x \notin T /\ y \in defined BY <2>6, EdgesStay
        <3>2. y \in T BY <2>6, <3>1
        <3>3. x \in Queries!In(y) BY <3>1, EdgesStay
        <3> QED BY <1>5, <1>7, <3>1, <3>2, <3>3
    <2>8. N \in SUBSET defined /\ s \in N /\ g \notin N BY <1>5, <2>5, <2>6
    <2> QED BY <2>7, <2>8 DEF Queries!Leads
<1> QED BY <1>8, <1>9 DEF Queries!Leads

\* What an answer about the code graph does not say is not there: a path found is a
\* shortest one, nothing found and nothing truncated means no path of any length, and
\* what is affected is complete unless truncated (queries.py:13-15).  In every graph that
\* imports and scans can leave.
THEOREM AnswersHonest ==
    ASSUME Given
    PROVE  Queries!Spec => [](Queries!AnswersAreHonest /\ AnswersAreHonest)
<1>1. Queries!Init => AllAnchored BY AnchoredInit
<1>2. AllAnchored /\ [Queries!Next]_Queries!queryVars => AllAnchored' BY AnchoredStep
<1>3. AllAnchored => Queries!AnswersAreHonest
    <2> SUFFICES ASSUME AllAnchored,
                        NEW s \in {x \in defined : Queries!Candidates(x.name) = {x}},
                        NEW g \in {x \in defined : Queries!Candidates(x.name) = {x}},
                        NEW d \in DepthOf
                 PROVE  LET path == Queries!FindPath(s, g, d)
                            all  == Queries!Affected(g, d, TRUE)
                        IN  /\ path.found => /\ Queries!Chained(s, g, path.hops)
                                             /\ \A n \in 0..path.hops-1 : ~Queries!Chained(s, g, n)
                            /\ ~path.found /\ ~path.truncated => ~Queries!Leads(s, g)
                            /\ ~all.truncated /\ s # g => (s \in all.facts <=> Queries!Leads(s, g))
        BY DEF Queries!AnswersAreHonest
    <2>1. s \in defined /\ g \in defined /\ d \in Nat BY DEF Given
    <2> QED BY <2>1, PathIsHonest, AffectedIsHonest
<1>4. AllAnchored => AnswersAreHonest BY <1>3 DEF AnswersAreHonest
<1> QED BY <1>1, <1>2, <1>3, <1>4, PTL DEF Queries!Spec

-----------------------------------------------------------------------------
(* Texts *)

\* The nodes that Write writes.
Part == Name \cup {1, 2}
Node == [up : Nat, what : Code!Kinds, names : UNION {Code!Declares(w) : w \in Code!Kinds},
         word : UNION {Code!Words(w) : w \in Code!Kinds}, colons : BOOLEAN, fresh : BOOLEAN]
Standing(t, i) ==
    /\ t[i].up \in 0..i-1
    /\ t[i].names \in Code!Declares(t[i].what)
    /\ t[i].word \in Code!Words(t[i].what)
    /\ t[i].colons \in Code!Joined(t[i].what, t[i].word)
Grown(t) == t \in Seq(Node) /\ \A i \in DOMAIN t : Standing(t, i)

\* A symbol's node declares a name; only a const declares two.
LEMMA NamesOf ==
    ASSUME NEW t, Grown(t), NEW i \in DOMAIN t, t[i].what \in Code!Captured
    PROVE  /\ t[i].names \in Seq(Part) /\ Len(t[i].names) \in {1, 2}
           /\ lang # "ts" => Len(t[i].names) = 1
<1>1. t[i].names \in Code!Declares(t[i].what)
    BY DEF Grown, Standing
<1>2. t[i].what \notin {"call", "import"} /\ (lang # "ts" => t[i].what # "const")
    BY DEF Code!Captured
<1>3. t[i].names \in {<<n>> : n \in Name} \/ (t[i].what = "const" /\ t[i].names = <<1, 2>>)
    BY <1>1, <1>2 DEF Code!Declares
<1>4. CASE t[i].names = <<1, 2>> /\ t[i].what = "const"
    <2>1. <<1, 2>> \in Seq(Part) /\ Len(<<1, 2>>) = 2 BY DEF Part
    <2> QED BY <1>2, <1>4, <2>1
<1>5. ASSUME NEW n \in Name, t[i].names = <<n>> PROVE t[i].names \in Seq(Part) /\ Len(t[i].names) = 1
    BY <1>5 DEF Part
<1> QED BY <1>3, <1>4, <1>5

\* A function from numbers to X that is c at 0, and at j what g[j] makes of its value
\* at a number below.
Descends(f, n, c, g, up) == f[0] = c /\ \A j \in 1..n : f[j] = g[j][f[up[j]]]
\* Such a function is there.
LEMMA Descent ==
    ASSUME NEW n \in Nat, NEW X, NEW c \in X, NEW g \in [1..n -> [X -> X]],
           NEW up \in [1..n -> Nat], \A j \in 1..n : up[j] < j
    PROVE  \E f \in [0..n -> X] : Descends(f, n, c, g, up)
<1> DEFINE Fits(k, f) == f \in [0..k -> X] /\ f[0] = c /\ \A j \in 1..k : f[j] = g[j][f[up[j]]]
           S == {k \in Nat : k <= n => \E f : Fits(k, f)}
<1>1. 0 \in S
    <2>1. Fits(0, [j \in 0..0 |-> c]) OBVIOUS
    <2> HIDE DEF Fits
    <2> QED BY <2>1
<1>2. ASSUME NEW k \in Nat, k \in S PROVE k + 1 \in S
    <2>1. PICK m \in Nat : m = k + 1 OBVIOUS
    <2>2. ASSUME m <= n PROVE \E f : Fits(m, f)
        <3>1. PICK f : Fits(k, f)
            <4>1. k <= n BY <2>1, <2>2
            <4> HIDE DEF Fits
            <4> QED BY <1>2, <4>1
        <3>2. m \in 1..n /\ up[m] \in 0..k BY <2>1, <2>2
        <3>3. f \in [0..k -> X] /\ f[up[m]] \in X BY <3>1, <3>2
        <3>4. PICK x \in X : x = g[m][f[up[m]]] BY <3>2, <3>3
        <3> DEFINE h == [j \in 0..m |-> IF j = m THEN x ELSE f[j]]
        <3>5. \A j \in 0..k : h[j] = f[j] BY <2>1
        <3>6. h \in [0..m -> X] /\ h[m] = x
            <4>1. ASSUME NEW j \in 0..m PROVE (IF j = m THEN x ELSE f[j]) \in X
                <5>1. j # m => j \in 0..k BY <2>1
                <5> QED BY <3>3, <3>4, <5>1
            <4> QED BY <4>1
        <3>7. ASSUME NEW j \in 1..m PROVE h[j] = g[j][h[up[j]]]
            <4>1. CASE j = m
                <5>1. h[up[m]] = f[up[m]] BY <3>2, <3>5
                <5> HIDE DEF h
                <5> QED BY <3>4, <3>6, <4>1, <5>1
            <4>2. CASE j # m
                <5>1. j \in 1..k /\ up[j] \in 0..k BY <2>1, <2>2, <4>2
                <5> HIDE DEF h
                <5>2. h[j] = f[j] /\ h[up[j]] = f[up[j]] BY <3>5, <5>1
                <5> QED BY <3>1, <5>1, <5>2
            <4> QED BY <4>1, <4>2
        <3>8. h[0] = c
            <4>1. 0 \in 0..k OBVIOUS
            <4>2. h[0] = f[0] BY <3>5, <4>1
            <4> HIDE DEF h
            <4> QED BY <3>1, <4>2
        <3> HIDE DEF h
        <3> QED BY <3>6, <3>7, <3>8
    <2> HIDE DEF Fits
    <2> QED BY <2>1, <2>2
<1> HIDE DEF S
<1>3. \A k \in Nat : k \in S BY <1>1, <1>2, AllNumbers
<1>4. n \in S BY <1>3
<1>5. \E f : Fits(n, f)
    <2> HIDE DEF Fits
    <2> QED BY <1>4 DEF S
<1> QED BY <1>5 DEF Descends

\* The nodes of the kinds W around node i, from the file down, one after the other: p[j] for
\* the nodes at j and around it.
Climbs(t, W, p) ==
    p = [j \in 0..Len(t) |-> IF j = 0 THEN <<>>
           ELSE IF t[j].what \in W THEN Append(p[t[j].up], j) ELSE p[t[j].up]]

\* There are such paths.
LEMMA ClimbsIs ==
    ASSUME NEW t, t \in Seq(Node), \A i \in 1..Len(t) : t[i].up \in 0..i-1, NEW W
    PROVE  \E p : Climbs(t, W, p)
<1>1. PICK n \in Nat : n = Len(t) OBVIOUS
<1>2. \A i \in 1..n : t[i].up \in 0..i-1 BY <1>1
<1> DEFINE up == [i \in 1..n |-> t[i].up]
           g  == [i \in 1..n |-> [x \in Seq(Nat) |-> IF t[i].what \in W THEN Append(x, i) ELSE x]]
<1>3. up \in [1..n -> Nat] /\ \A j \in 1..n : up[j] < j /\ up[j] = t[j].up BY <1>2
<1>4. ASSUME NEW i \in 1..n
      PROVE  [x \in Seq(Nat) |-> IF t[i].what \in W THEN Append(x, i) ELSE x] \in [Seq(Nat) -> Seq(Nat)]
    <2>1. \A x \in Seq(Nat) : (IF t[i].what \in W THEN Append(x, i) ELSE x) \in Seq(Nat) OBVIOUS
    <2> QED BY <2>1
<1>5. g \in [1..n -> [Seq(Nat) -> Seq(Nat)]] BY <1>4
<1>6. \A i \in 1..n, x \in Seq(Nat) : g[i][x] = IF t[i].what \in W THEN Append(x, i) ELSE x OBVIOUS
<1> HIDE DEF up, g
<1>7. <<>> \in Seq(Nat) OBVIOUS
<1>8. PICK f \in [0..n -> Seq(Nat)] : f[0] = <<>> /\ \A j \in 1..n : f[j] = g[j][f[up[j]]]
    <2>1. PICK X : X = Seq(Nat) OBVIOUS
    <2>2. <<>> \in X /\ g \in [1..n -> [X -> X]] BY <1>5, <1>7, <2>1
    <2>3. up \in [1..n -> Nat] /\ \A j \in 1..n : up[j] < j BY <1>3
    <2>4. PICK f \in [0..n -> X] : Descends(f, n, <<>>, g, up) BY <2>2, <2>3, Descent
    <2> QED BY <2>1, <2>4 DEF Descends
<1>9. \A j \in 1..n : f[j] = IF t[j].what \in W THEN Append(f[t[j].up], j) ELSE f[t[j].up]
    <2> SUFFICES ASSUME NEW j \in 1..n PROVE f[j] = IF t[j].what \in W THEN Append(f[t[j].up], j) ELSE f[t[j].up]
        OBVIOUS
    <2>1. up[j] = t[j].up BY <1>3
    <2>2. t[j].up \in 0..j-1 BY <1>2
    <2>3. t[j].up \in 0..n BY <2>2
    <2>4. f[t[j].up] \in Seq(Nat) BY <2>3
    <2>5. f[j] = g[j][f[t[j].up]] BY <1>8, <2>1
    <2>6. PICK x \in Seq(Nat) : x = f[t[j].up] BY <2>4
    <2>7. g[j][x] = IF t[j].what \in W THEN Append(x, j) ELSE x BY <1>6
    <2> QED BY <2>5, <2>6, <2>7
<1>10. \A j \in 0..Len(t) : f[j] = IF j = 0 THEN <<>>
           ELSE IF t[j].what \in W THEN Append(f[t[j].up], j) ELSE f[t[j].up]
    <2> SUFFICES ASSUME NEW j \in 0..Len(t), j # 0
                 PROVE  f[j] = IF t[j].what \in W THEN Append(f[t[j].up], j) ELSE f[t[j].up]
        BY <1>8
    <2>1. j \in 1..n BY <1>1
    <2> QED BY <1>9, <2>1
<1>11. f = [j \in 0..Len(t) |-> f[j]] BY <1>1
<1> QED BY <1>10, <1>11 DEF Climbs

\* The last of them, if there is one, is of those kinds, and those before it are the ones around it.
LEMMA AroundIs ==
    ASSUME NEW t, t \in Seq(Node), \A i \in 1..Len(t) : t[i].up \in 0..i-1, NEW W, NEW i \in 1..Len(t)
    PROVE  LET c == Code!Around(t, i, W)
           IN  \/ c = <<>>
               \/ \E j \in 1..i-1 : t[j].what \in W /\ c = Append(Code!Around(t, j, W), j)
<1> DEFINE p == CHOOSE p : Climbs(t, W, p)
<1>1. Climbs(t, W, p) BY ClimbsIs
<1>2. \A k \in DOMAIN t : Code!Around(t, k, W) = p[t[k].up] BY DEF Code!Around, Climbs
<1> HIDE DEF p
<1>3. /\ p[0] = <<>>
      /\ \A j \in 1..Len(t) : p[j] = IF t[j].what \in W THEN Append(p[t[j].up], j) ELSE p[t[j].up]
    <2>1. 0 \in 0..Len(t) /\ \A j \in 1..Len(t) : j \in 0..Len(t) /\ j # 0 OBVIOUS
    <2>2. \A j \in 0..Len(t) : p[j] = IF j = 0 THEN <<>>
           ELSE IF t[j].what \in W THEN Append(p[t[j].up], j) ELSE p[t[j].up]
        BY <1>1 DEF Climbs
    <2> QED BY <2>1, <2>2
<1> DEFINE Good(k) == p[k] = <<>> \/ \E j \in 1..k : t[j].what \in W /\ p[k] = Append(p[t[j].up], j)
<1>4. \A k \in 0..Len(t) : Good(k)
    <2> HIDE DEF Good
    <2> DEFINE T == {k \in 0..Len(t) : ~Good(k)}
    <2> SUFFICES ASSUME T # {} PROVE FALSE OBVIOUS
    <2>1. T \subseteq Nat OBVIOUS
    <2>2. PICK m \in T : \A k \in T : m <= k BY <2>1, LeastNumber
    <2>3. m \in 0..Len(t) /\ ~Good(m) /\ \A k \in 0..m-1 : Good(k) BY <2>2
    <2>4. m # 0 BY <1>3, <2>3 DEF Good
    <2>5. m \in 1..Len(t) BY <2>3, <2>4
    <2>6. t[m].up \in 0..m-1 BY <2>5
    <2>7. Good(t[m].up) BY <2>3, <2>6
    <2>8. CASE t[m].what \in W
        <3>1. p[m] = Append(p[t[m].up], m) BY <1>3, <2>5, <2>8
        <3>2. m \in 1..m BY <2>5
        <3> QED BY <2>3, <2>8, <3>1, <3>2 DEF Good
    <2>9. CASE t[m].what \notin W
        <3>1. p[m] = p[t[m].up] BY <1>3, <2>5, <2>9
        <3>2. \A j \in 1..t[m].up : j \in 1..m BY <2>5, <2>6
        <3> QED BY <2>3, <2>7, <3>1, <3>2 DEF Good
    <2> QED BY <2>8, <2>9
<1>5. t[i].up \in 0..i-1 /\ Good(t[i].up)
    <2>1. t[i].up \in 0..Len(t) /\ t[i].up \in 0..i-1 OBVIOUS
    <2> HIDE DEF Good
    <2> QED BY <1>4, <2>1
<1>6. DOMAIN t = 1..Len(t) OBVIOUS
<1>7. Code!Around(t, i, W) = p[t[i].up] BY <1>2, <1>6
<1>8. CASE p[t[i].up] = <<>> BY <1>7, <1>8
<1>9. ASSUME NEW j \in 1..t[i].up, t[j].what \in W, p[t[i].up] = Append(p[t[j].up], j)
      PROVE  j \in 1..i-1 /\ Code!Around(t, i, W) = Append(Code!Around(t, j, W), j)
    <2>1. j \in 1..i-1 /\ j \in 1..Len(t) BY <1>5
    <2>2. Code!Around(t, j, W) = p[t[j].up] BY <1>2, <1>6, <2>1
    <2> QED BY <1>7, <1>9, <2>1, <2>2
<1> QED BY <1>5, <1>8, <1>9

\* They are nodes before i, of those kinds.
LEMMA AroundAre ==
    ASSUME NEW t, t \in Seq(Node), \A i \in 1..Len(t) : t[i].up \in 0..i-1, NEW W, NEW i \in 1..Len(t)
    PROVE  /\ Code!Around(t, i, W) \in Seq(Nat)
           /\ \A x \in 1..Len(Code!Around(t, i, W)) :
                 Code!Around(t, i, W)[x] \in 1..i-1 /\ t[Code!Around(t, i, W)[x]].what \in W
<1> DEFINE p == CHOOSE p : Climbs(t, W, p)
<1>1. Climbs(t, W, p) BY ClimbsIs
<1>2. \A k \in DOMAIN t : Code!Around(t, k, W) = p[t[k].up] BY DEF Code!Around, Climbs
<1> HIDE DEF p
<1>3. /\ p[0] = <<>>
      /\ \A j \in 1..Len(t) : p[j] = IF t[j].what \in W THEN Append(p[t[j].up], j) ELSE p[t[j].up]
    <2>1. 0 \in 0..Len(t) /\ \A j \in 1..Len(t) : j \in 0..Len(t) /\ j # 0 OBVIOUS
    <2>2. \A j \in 0..Len(t) : p[j] = IF j = 0 THEN <<>>
           ELSE IF t[j].what \in W THEN Append(p[t[j].up], j) ELSE p[t[j].up]
        BY <1>1 DEF Climbs
    <2> QED BY <2>1, <2>2
<1> DEFINE Good(k) == p[k] \in Seq(Nat) /\ \A x \in 1..Len(p[k]) : p[k][x] \in 1..k /\ t[p[k][x]].what \in W
<1>4. \A k \in 0..Len(t) : Good(k)
    <2> HIDE DEF Good
    <2> DEFINE T == {k \in 0..Len(t) : ~Good(k)}
    <2> SUFFICES ASSUME T # {} PROVE FALSE OBVIOUS
    <2>1. T \subseteq Nat OBVIOUS
    <2>2. PICK m \in T : \A k \in T : m <= k BY <2>1, LeastNumber
    <2>3. m \in 0..Len(t) /\ ~Good(m) /\ \A k \in 0..m-1 : Good(k) BY <2>2
    <2>4. m # 0
        <3>1. <<>> \in Seq(Nat) /\ Len(<<>>) = 0 OBVIOUS
        <3>2. Good(0) BY <1>3, <3>1 DEF Good
        <3> QED BY <2>3, <3>2
    <2>5. m \in 1..Len(t) BY <2>3, <2>4
    <2>6. PICK u \in 0..m-1 : u = t[m].up BY <2>5
    <2>7. PICK q : q = p[u] OBVIOUS
    <2>8. q \in Seq(Nat) /\ \A x \in 1..Len(q) : q[x] \in 1..m /\ t[q[x]].what \in W
        <3>1. Good(u) BY <2>3, <2>6
        <3>2. \A x : x \in 1..u => x \in 1..m BY <2>5, <2>6
        <3> QED BY <2>7, <3>1, <3>2 DEF Good
    <2>9. CASE t[m].what \in W
        <3>1. PICK r : r = Append(q, m) OBVIOUS
        <3>2. p[m] = r BY <1>3, <2>5, <2>6, <2>7, <2>9, <3>1
        <3>3. r \in Seq(Nat) /\ Len(r) = Len(q) + 1 /\ r[Len(q) + 1] = m /\ \A x \in 1..Len(q) : r[x] = q[x]
            BY <2>5, <2>8, <3>1
        <3>4. ASSUME NEW x \in 1..Len(r) PROVE r[x] \in 1..m /\ t[r[x]].what \in W
            <4>1. CASE x \in 1..Len(q) BY <2>8, <3>3, <4>1
            <4>2. CASE x = Len(q) + 1 BY <2>5, <2>9, <3>3, <4>2
            <4> QED BY <2>8, <3>3, <4>1, <4>2
        <3> QED BY <2>3, <3>2, <3>3, <3>4 DEF Good
    <2>10. CASE t[m].what \notin W
        <3>1. p[m] = q BY <1>3, <2>5, <2>6, <2>7, <2>10
        <3> QED BY <2>3, <2>8, <3>1 DEF Good
    <2> QED BY <2>9, <2>10
<1>5. t[i].up \in 0..i-1 /\ Good(t[i].up)
    <2>1. t[i].up \in 0..Len(t) /\ t[i].up \in 0..i-1 OBVIOUS
    <2> HIDE DEF Good
    <2> QED BY <1>4, <2>1
<1>6. DOMAIN t = 1..Len(t) OBVIOUS
<1>7. Code!Around(t, i, W) = p[t[i].up] BY <1>2, <1>6
<1>8. PICK q : q = p[t[i].up] OBVIOUS
<1>9. q \in Seq(Nat) /\ \A x \in 1..Len(q) : q[x] \in 1..i-1 /\ t[q[x]].what \in W
    <2>1. \A x : x \in 1..t[i].up => x \in 1..i-1 BY <1>5
    <2> QED BY <1>5, <1>8, <2>1
<1> QED BY <1>7, <1>8, <1>9

-----------------------------------------------------------------------------
(* Symbols *)

\* A number greater than the rest of a set that has a bound.
LEMMA GreatestNumber ==
    ASSUME NEW n \in Nat, NEW T, T \subseteq 0..n, T # {}
    PROVE  \E x \in T : \A y \in T : y <= x
<1> DEFINE U == {n - y : y \in T}
<1>1. U \subseteq Nat /\ U # {}
    <2>1. \A y \in T : n - y \in Nat OBVIOUS
    <2> QED BY <2>1
<1>2. PICK u \in U : \A v \in U : u <= v
    <2> HIDE DEF U
    <2> QED BY <1>1, LeastNumber
<1>3. PICK x \in T : u = n - x OBVIOUS
<1>4. ASSUME NEW y \in T PROVE y <= x
    <2>1. n - y \in U OBVIOUS
    <2>2. u <= n - y BY <1>2, <2>1
    <2> QED BY <1>3, <2>2
<1> QED BY <1>4

\* A name with one part more comes later.
LEMMA OneLonger ==
    ASSUME NEW S, NEW p \in Seq(S), NEW a \in S
    PROVE  /\ p \o <<a>> \in Seq(S) /\ Len(p \o <<a>>) = Len(p) + 1
           /\ Code!Front(p \o <<a>>) = p /\ Code!Last(p \o <<a>>) = a /\ Code!Less(p, p \o <<a>>)
<1>1. PICK q : q = p \o <<a>> OBVIOUS
<1>2. /\ q \in Seq(S) /\ Len(q) = Len(p) + 1 /\ q[Len(q)] = a
      /\ \A x \in 1..Len(p) : q[x] = p[x]
    BY <1>1
<1>3. SubSeq(q, 1, Len(p)) = p
    <2>1. SubSeq(q, 1, Len(p)) \in Seq(S) /\ Len(SubSeq(q, 1, Len(p))) = Len(p) BY <1>2
    <2>2. \A x \in 1..Len(p) : SubSeq(q, 1, Len(p))[x] = p[x] BY <1>2
    <2> QED BY <2>1, <2>2
<1>4. Len(q) - 1 = Len(p) BY <1>2
<1> QED BY <1>1, <1>2, <1>3, <1>4 DEF Code!Front, Code!Last, Code!Less

\* Lines are numbers, and go up.
LEMMA LinesGoUp ==
    ASSUME NEW t, NEW i \in Nat, NEW h \in Nat, h <= i
    PROVE  Code!Line(t, i) \in Nat /\ Code!Line(t, h) \in Nat /\ Code!Line(t, h) <= Code!Line(t, i)
<1> DEFINE A == {j \in 1..i : t[j].fresh}
           B == {j \in 1..h : t[j].fresh}
<1>1. IsFiniteSet(1..i) BY FS_Interval
<1>2. A \subseteq 1..i /\ B \subseteq A OBVIOUS
<1>3. IsFiniteSet(A) /\ IsFiniteSet(B) BY <1>1, <1>2, FS_Subset
<1>4. Cardinality(A) \in Nat /\ Cardinality(B) \in Nat /\ Cardinality(B) <= Cardinality(A)
    <2> HIDE DEF A, B
    <2> QED BY <1>2, <1>3, FS_Subset, FS_CardinalityType
<1>5. Code!Line(t, i) = Cardinality(A) /\ Code!Line(t, h) = Cardinality(B)
    BY DEF Code!Line, Cardinality, Code!Cardinality
<1> HIDE DEF A, B
<1> QED BY <1>4, <1>5

\* The row of the k-th name of node i in file f.
Row(f, i, k) ==
    LET b == Code!Build(Code!Text(f), i, k, Code!Chain(Code!Text(f), i))
    IN  [file |-> f, node |-> <<i, k>>, line |-> Code!Line(Code!Text(f), i),
         qname |-> b.qname, parent |-> b.parent, kind |-> b.kind]

\* The symbols of a file are the rows of its captured nodes.
LEMMA SymbolsAre ==
    ASSUME NEW f, Grown(Code!Text(f))
    PROVE  /\ \A s \in Code!Symbols(f) :
                 \E i \in 1..Len(Code!Text(f)) : /\ Code!Text(f)[i].what \in Code!Captured
                        /\ \E k \in 1..Len(Code!Text(f)[i].names) : s = Row(f, i, k)
           /\ \A i \in 1..Len(Code!Text(f)) : Code!Text(f)[i].what \in Code!Captured =>
                 \A k \in 1..Len(Code!Text(f)[i].names) : Row(f, i, k) \in Code!Symbols(f)
<1> DEFINE t == Code!Text(f)
           N == {i \in DOMAIN t : t[i].what \in Code!Captured}
           S == UNION {{<<i, k>> : k \in DOMAIN t[i].names} : i \in N}
<1>1. Code!Symbols(f) = {Row(f, x[1], x[2]) : x \in S}
    BY DEF Code!Symbols, Row
<1>2. DOMAIN t = 1..Len(t) BY DEF Grown
<1>3. \A i \in N : DOMAIN t[i].names = 1..Len(t[i].names)
    <2> TAKE i \in N
    <2>1. t[i].names \in Seq(Part) BY NamesOf
    <2> QED BY <2>1
<1>4. ASSUME NEW x \in S
      PROVE  \E i \in N : \E k \in 1..Len(t[i].names) : Row(f, x[1], x[2]) = Row(f, i, k)
    <2>1. PICK i \in N : \E k \in DOMAIN t[i].names : x = <<i, k>> OBVIOUS
    <2>2. PICK k \in DOMAIN t[i].names : x = <<i, k>> BY <2>1
    <2>3. x[1] = i /\ x[2] = k BY <2>2
    <2>4. k \in 1..Len(t[i].names) BY <1>3
    <2> HIDE DEF t, N
    <2> QED BY <2>3, <2>4
<1>5. ASSUME NEW i \in N, NEW k \in 1..Len(t[i].names) PROVE \E x \in S : Row(f, i, k) = Row(f, x[1], x[2])
    <2>1. <<i, k>> \in S BY <1>3
    <2>2. <<i, k>>[1] = i /\ <<i, k>>[2] = k OBVIOUS
    <2> HIDE DEF S
    <2> QED BY <2>1, <2>2
<1> HIDE DEF S
<1>6. /\ \A s \in Code!Symbols(f) : \E i \in N : \E k \in 1..Len(t[i].names) : s = Row(f, i, k)
      /\ \A i \in N : \A k \in 1..Len(t[i].names) : Row(f, i, k) \in Code!Symbols(f)
    <2> HIDE DEF t, N
    <2> QED BY <1>1, <1>4, <1>5
<1>7. \A i : i \in N <=> i \in 1..Len(t) /\ t[i].what \in Code!Captured BY <1>2
<1> HIDE DEF N
<1> QED BY <1>6, <1>7

\* The last of one or two.
LEMMA LastOf ==
    ASSUME NEW S, NEW q \in Seq(S), Len(q) \in {1, 2}
    PROVE  Len(q) \in 1..Len(q) /\ q[Len(q)] \in S
<1>1. Len(q) \in Nat /\ Len(q) >= 1 OBVIOUS
<1>2. Len(q) \in 1..Len(q) BY <1>1
<1> QED BY <1>2

\* Two groups of languages: those that nest names in the symbols around a node ...
Names(t, c) == [x \in DOMAIN c |-> Code!Last(t[c[x]].names)]
Nests       == lang \notin {"go", "rs"}
QnameOf(t, i, k, c) == Names(t, c) \o <<t[i].names[k]>>
ParentOf(t, c) == IF c = <<>> THEN None ELSE Code!Of(t, Code!Last(c))

\* What the first group builds.
LEMMA NestedIs ==
    ASSUME Nests, NEW t, NEW i, NEW k, NEW c
    PROVE  /\ Code!Build(t, i, k, c).qname = QnameOf(t, i, k, c)
           /\ Code!Build(t, i, k, c).parent = ParentOf(t, c)
<1>1. \E kind : Code!Build(t, i, k, c) = Code!Nested(t, i, k, c, kind)
    BY DEF Nests, Code!Build, Code!PythonSymbol, Code!TypeScriptSymbol, Code!JavaSymbol, Code!RubySymbol,
       Code!PhpSymbol, Code!CSymbol
<1>2. PICK kind : Code!Build(t, i, k, c) = Code!Nested(t, i, k, c, kind) BY <1>1
<1> QED BY <1>2 DEF Code!Nested, Names, QnameOf, ParentOf

\* ... and those that put a type before the name.
Owners(t, i) ==
    {j \in 1..i-1 : /\ t[j].what \in Code!Captured /\ Code!Type(t, i) # <<>>
                     /\ Code!Type(t, j) \o t[j].names = Code!Type(t, i)}
OwnerOf(t, i) ==
    IF Owners(t, i) = {} THEN None
    ELSE Code!Of(t, CHOOSE j \in Owners(t, i) : \A h \in Owners(t, i) : h <= j)

\* What the second group builds.
LEMMA OfTypeIs ==
    ASSUME ~Nests, NEW t, NEW i, NEW k, NEW c
    PROVE  /\ Code!Build(t, i, k, c).qname = Code!Type(t, i) \o t[i].names
           /\ Code!Build(t, i, k, c).parent = OwnerOf(t, i)
<1>1. PICK kind : Code!Build(t, i, k, c) = Code!OfType(t, i, kind)
    BY DEF Nests, Code!Build, Code!GoSymbol, Code!RustSymbol
<1> QED BY <1>1 DEF Code!OfType, Owners, OwnerOf

\* The symbols around a node are captured nodes before it, and the last one's are around that.
LEMMA ChainIs ==
    ASSUME NEW t, Grown(t), NEW i \in 1..Len(t)
    PROVE  /\ Code!Chain(t, i) \in Seq(Nat)
           /\ \A x \in 1..Len(Code!Chain(t, i)) :
                 Code!Chain(t, i)[x] \in 1..i-1 /\ t[Code!Chain(t, i)[x]].what \in Code!Captured
           /\ \/ Code!Chain(t, i) = <<>>
              \/ \E j \in 1..i-1 : t[j].what \in Code!Captured /\ Code!Chain(t, i) = Append(Code!Chain(t, j), j)
<1>1. t \in Seq(Node) /\ \A h \in 1..Len(t) : t[h].up \in 0..h-1 BY DEF Grown, Standing
<1>2. PICK W : W = Code!Captured OBVIOUS
<1>3. \A h \in 1..Len(t) : Code!Chain(t, h) = Code!Around(t, h, W) BY <1>2 DEF Code!Chain
<1>4. \A j \in 1..i-1 : j \in 1..Len(t) BY <1>1
<1>5. /\ Code!Around(t, i, W) \in Seq(Nat)
      /\ \A x \in 1..Len(Code!Around(t, i, W)) :
             Code!Around(t, i, W)[x] \in 1..i-1 /\ t[Code!Around(t, i, W)[x]].what \in W
    BY <1>1, AroundAre
<1>6. \/ Code!Around(t, i, W) = <<>>
      \/ \E j \in 1..i-1 : t[j].what \in W /\ Code!Around(t, i, W) = Append(Code!Around(t, j, W), j)
    BY <1>1, AroundIs
<1> QED BY <1>2, <1>3, <1>4, <1>5, <1>6

\* The names of a chain, and what one more node adds to it.
LEMMA NamesAre ==
    ASSUME NEW t, Grown(t), NEW c \in Seq(Nat),
           \A x \in 1..Len(c) : c[x] \in 1..Len(t) /\ t[c[x]].what \in Code!Captured
    PROVE  /\ Names(t, c) \in Seq(Part)
           /\ \A j \in 1..Len(t) : t[j].what \in Code!Captured =>
                 Names(t, Append(c, j)) = Names(t, c) \o <<Code!Last(t[j].names)>>
<1>1. \A j \in 1..Len(t) : t[j].what \in Code!Captured => Code!Last(t[j].names) \in Part
    <2> SUFFICES ASSUME NEW j \in 1..Len(t), t[j].what \in Code!Captured PROVE Code!Last(t[j].names) \in Part
        OBVIOUS
    <2>1. j \in DOMAIN t BY DEF Grown
    <2>2. t[j].names \in Seq(Part) /\ Len(t[j].names) \in {1, 2} BY <2>1, NamesOf
    <2> QED BY <2>2, LastOf DEF Code!Last
<1>2. PICK n \in Nat : n = Len(c) OBVIOUS
<1>3. DOMAIN c = 1..n BY <1>2
<1>4. \A x \in 1..n : Code!Last(t[c[x]].names) \in Part BY <1>1, <1>2
<1>5. PICK e : e = [x \in 1..n |-> Code!Last(t[c[x]].names)] OBVIOUS
<1>6. e \in Seq(Part) /\ Len(e) = n BY <1>4, <1>5
<1>7. Names(t, c) = e BY <1>3, <1>5 DEF Names
<1>8. ASSUME NEW j \in 1..Len(t), t[j].what \in Code!Captured
      PROVE  Names(t, Append(c, j)) = e \o <<Code!Last(t[j].names)>>
    <2>1. PICK a \in Part : a = Code!Last(t[j].names) BY <1>1, <1>8
    <2>2. PICK d : d = Append(c, j) OBVIOUS
    <2>3. /\ DOMAIN d = 1..n+1 /\ d[n+1] = j /\ \A x \in 1..n : d[x] = c[x] BY <1>2, <2>2
    <2>4. PICK g : g = e \o <<a>> OBVIOUS
    <2>5. g \in Seq(Part) /\ Len(g) = n + 1 /\ g[n+1] = a /\ \A x \in 1..n : g[x] = e[x] BY <1>6, <2>4
    <2>6. \A x \in 1..n+1 : g[x] = Code!Last(t[d[x]].names)
        <3> TAKE x \in 1..n+1
        <3>1. CASE x \in 1..n BY <1>5, <2>3, <2>5, <3>1
        <3>2. CASE x = n + 1 BY <2>1, <2>3, <2>5, <3>2
        <3> QED BY <3>1, <3>2
    <2>7. g = [x \in 1..n+1 |-> Code!Last(t[d[x]].names)]
        <3>1. g = [x \in 1..n+1 |-> g[x]] BY <2>5
        <3> QED BY <2>6, <3>1
    <2>8. Names(t, d) = g BY <2>3, <2>7 DEF Names
    <2> QED BY <2>1, <2>2, <2>4, <2>8
<1> QED BY <1>6, <1>7, <1>8

\* The type before a name is a sequence of names.
LEMMA TypeIs ==
    ASSUME NEW t, Grown(t), NEW i \in 1..Len(t), t[i].what \in Code!Captured, ~Nests
    PROVE  Code!Type(t, i) \in Seq(Part)
<1>1. i \in DOMAIN t /\ t \in Seq(Node) /\ \A h \in 1..Len(t) : t[h].up \in 0..h-1 BY DEF Grown, Standing
<1>2. <<>> \in Seq(Part) /\ \A n \in Name : <<n>> \in Seq(Part) BY DEF Part
<1>3. CASE lang = "go"
    <2>1. t[i].word \in Code!Words(t[i].what) BY <1>1 DEF Grown, Standing
    <2>2. t[i].what \notin {"call", "import"} BY <1>3 DEF Code!Captured
    <2>3. t[i].word \in {<<n>> : n \in Name} \cup {<<>>} BY <2>1, <2>2, <1>3 DEF Code!Words
    <2>4. t[i].word \in Seq(Part) BY <1>2, <2>3
    <2>5. Code!Type(t, i) = t[i].word
        <3> HIDE <2>1, <2>2, <2>3, <2>4
        <3> QED BY <1>3, Zenon DEF Code!Type
    <2> QED BY <2>4, <2>5
<1>4. CASE lang = "rs"
    <2>1. PICK c : c = Code!Around(t, i, {"impl", "function"}) OBVIOUS
    <2>2. Code!Type(t, i) =
            IF t[i].what = "function" /\ c # <<>> /\ t[Code!Last(c)].what = "impl"
            THEN t[Code!Last(c)].names ELSE <<>>
        BY <1>4, <2>1 DEF Code!Type
    <2>3. CASE c # <<>> /\ t[Code!Last(c)].what = "impl"
        <3>1. PICK W : W = {"impl", "function"} OBVIOUS
        <3>2. \E j \in 1..i-1 : t[j].what \in W /\ c = Append(Code!Around(t, j, W), j)
            BY <1>1, <2>1, <2>3, <3>1, AroundIs
        <3>3. PICK j \in 1..i-1 : c = Append(Code!Around(t, j, W), j) BY <3>2
        <3>4. j \in 1..Len(t) /\ j \in DOMAIN t BY <1>1
        <3>5. Code!Around(t, j, W) \in Seq(Nat) BY <1>1, <3>4, AroundAre
        <3>6. Code!Last(c) = j BY <3>3, <3>5 DEF Code!Last
        <3>7. t[j].names \in Code!Declares("impl") BY <2>3, <3>4, <3>6 DEF Grown, Standing
        <3>8. t[j].names \in {<<n>> : n \in Name} BY <3>7 DEF Code!Declares
        <3> QED BY <1>2, <2>2, <3>6, <3>8
    <2> QED BY <1>2, <2>2, <2>3
<1> QED BY <1>3, <1>4 DEF Nests

\* A parent is a row of its own, of a node before, whose qualified name is what is before the last part.
LEMMA ParentIs ==
    ASSUME NEW f, Grown(Code!Text(f)), NEW i \in 1..Len(Code!Text(f)), Code!Text(f)[i].what \in Code!Captured,
           NEW k \in 1..Len(Code!Text(f)[i].names), Row(f, i, k).parent # None
    PROVE  \E j \in 1..i-1 : /\ Code!Text(f)[j].what \in Code!Captured
              /\ \E h \in 1..Len(Code!Text(f)[j].names) : \E n \in Part :
                   /\ Row(f, j, h).node = Row(f, i, k).parent
                   /\ Row(f, j, h).qname \in Seq(Part)
                   /\ Row(f, i, k).qname = Row(f, j, h).qname \o <<n>>
<1> PICK t : t = Code!Text(f) OBVIOUS
<1>0. Grown(t) /\ i \in 1..Len(t) /\ t[i].what \in Code!Captured /\ k \in 1..Len(t[i].names) /\ DOMAIN t = 1..Len(t)
    BY DEF Grown
<1>1. t[i].names \in Seq(Part) /\ t[i].names[k] \in Part BY <1>0, NamesOf
<1>2. ASSUME NEW g, NEW h
      PROVE  /\ Row(f, g, h).node = <<g, h>> /\ Row(f, g, h).line = Code!Line(t, g)
             /\ Row(f, g, h).qname = Code!Build(t, g, h, Code!Chain(t, g)).qname
             /\ Row(f, g, h).parent = Code!Build(t, g, h, Code!Chain(t, g)).parent
    BY DEF Row
<1>3. \A j \in 1..i-1 : j \in 1..Len(t) BY <1>0 DEF Grown
<1>4. ASSUME NEW j \in 1..i-1, t[j].what \in Code!Captured
      PROVE  /\ Len(t[j].names) \in 1..Len(t[j].names) /\ t[j].names \in Seq(Part)
             /\ t[j].names[Len(t[j].names)] \in Part
    <2>1. j \in DOMAIN t BY <1>0, <1>3
    <2>2. t[j].names \in Seq(Part) /\ Len(t[j].names) \in {1, 2} BY <1>0, <1>4, <2>1, NamesOf
    <2> QED BY <2>2, LastOf
<1>5. CASE Nests
    <2>1. PICK c : c = Code!Chain(t, i) OBVIOUS
    <2>2. c # <<>> /\ Row(f, i, k).parent = Code!Of(t, Code!Last(c))
        <3>1. Row(f, i, k).parent = Code!Build(t, i, k, c).parent BY <1>2, <2>1
        <3>2. Code!Build(t, i, k, c).parent = ParentOf(t, c) BY <1>5, NestedIs
        <3> QED BY <3>1, <3>2 DEF ParentOf
    <2>3. PICK j \in 1..i-1 : t[j].what \in Code!Captured /\ c = Append(Code!Chain(t, j), j)
        BY <1>0, <2>1, <2>2, ChainIs
    <2>4. PICK d \in Seq(Nat) : d = Code!Chain(t, j) BY <1>0, <1>3, ChainIs
    <2>5. \A x \in 1..Len(d) : d[x] \in 1..Len(t) /\ t[d[x]].what \in Code!Captured
        <3>1. \A x \in 1..Len(d) : d[x] \in 1..j-1 /\ t[d[x]].what \in Code!Captured BY <1>0, <1>3, <2>4, ChainIs
        <3>2. \A y \in 1..j-1 : y \in 1..Len(t) BY <1>3
        <3> QED BY <3>1, <3>2
    <2>6. Code!Last(c) = j BY <2>3, <2>4 DEF Code!Last
    <2>7. Names(t, d) \in Seq(Part) /\ Names(t, c) = Names(t, d) \o <<Code!Last(t[j].names)>>
        BY <1>0, <1>3, <2>3, <2>4, <2>5, NamesAre
    <2>8. PICK h : h = Len(t[j].names) OBVIOUS
    <2>9. h \in 1..Len(t[j].names) /\ Code!Last(t[j].names) = t[j].names[h] /\ t[j].names[h] \in Part
        BY <1>4, <2>3, <2>8 DEF Code!Last
    <2>10. Row(f, j, h).qname = Names(t, d) \o <<t[j].names[h]>>
        <3>1. Row(f, j, h).qname = Code!Build(t, j, h, d).qname BY <1>2, <2>4
        <3>2. Code!Build(t, j, h, d).qname = QnameOf(t, j, h, d) BY <1>5, NestedIs
        <3> QED BY <3>1, <3>2 DEF QnameOf
    <2>11. Row(f, i, k).qname = Names(t, c) \o <<t[i].names[k]>>
        <3>1. Row(f, i, k).qname = Code!Build(t, i, k, c).qname BY <1>2, <2>1
        <3>2. Code!Build(t, i, k, c).qname = QnameOf(t, i, k, c) BY <1>5, NestedIs
        <3> QED BY <3>1, <3>2 DEF QnameOf
    <2>12. Row(f, j, h).qname = Names(t, c) /\ Names(t, c) \in Seq(Part) BY <2>7, <2>9, <2>10
    <2>13. Row(f, j, h).node = Row(f, i, k).parent BY <1>2, <2>2, <2>6, <2>8 DEF Code!Of
    <2> QED BY <1>1, <2>3, <2>9, <2>11, <2>12, <2>13
<1>6. CASE ~Nests
    <2>1. PICK T : T = Owners(t, i) OBVIOUS
    <2>2. T # {} /\ Row(f, i, k).parent = Code!Of(t, CHOOSE j \in T : \A h \in T : h <= j)
        <3>1. PICK c : c = Code!Chain(t, i) OBVIOUS
        <3>2. Row(f, i, k).parent = Code!Build(t, i, k, c).parent BY <1>2, <3>1
        <3>3. Code!Build(t, i, k, c).parent = OwnerOf(t, i) BY <1>6, OfTypeIs
        <3> QED BY <2>1, <3>2, <3>3 DEF OwnerOf
    <2>3. PICK m \in Nat : m = i - 1 OBVIOUS
    <2>4. T \subseteq 0..m BY <2>1, <2>3 DEF Owners
    <2>5. \E j \in T : \A h \in T : h <= j BY <2>2, <2>3, <2>4, GreatestNumber
    <2>6. PICK j \in T : j = CHOOSE x \in T : \A h \in T : h <= x BY <2>5
    <2>7. j \in 1..i-1 /\ t[j].what \in Code!Captured /\ Code!Type(t, j) \o t[j].names = Code!Type(t, i)
        BY <2>1 DEF Owners
    <2>8. PICK h : h = Len(t[j].names) OBVIOUS
    <2>9. h \in 1..Len(t[j].names) BY <1>4, <2>7, <2>8
    <2>10. Row(f, j, h).qname = Code!Type(t, i)
        <3>1. PICK c : c = Code!Chain(t, j) OBVIOUS
        <3>2. Row(f, j, h).qname = Code!Build(t, j, h, c).qname BY <1>2, <3>1
        <3>3. Code!Build(t, j, h, c).qname = Code!Type(t, j) \o t[j].names BY <1>6, OfTypeIs
        <3> QED BY <2>7, <3>2, <3>3
    <2>11. Row(f, i, k).qname = Code!Type(t, i) \o t[i].names
        <3>1. PICK c : c = Code!Chain(t, i) OBVIOUS
        <3>2. Row(f, i, k).qname = Code!Build(t, i, k, c).qname BY <1>2, <3>1
        <3>3. Code!Build(t, i, k, c).qname = Code!Type(t, i) \o t[i].names BY <1>6, OfTypeIs
        <3> QED BY <3>2, <3>3
    <2>12. Code!Type(t, i) \in Seq(Part) BY <1>0, <1>6, TypeIs
    <2>13. \E n \in Part : t[i].names = <<n>>
        <3>1. PICK q \in Seq(Part) : q = t[i].names /\ Len(q) = 1 BY <1>0, <1>6, NamesOf DEF Nests
        <3>2. q[1] \in Part /\ q = <<q[1]>> BY <3>1
        <3> QED BY <3>1, <3>2
    <2>14. Row(f, j, h).node = Row(f, i, k).parent BY <1>2, <2>2, <2>6, <2>8 DEF Code!Of
    <2> QED BY <2>7, <2>9, <2>10, <2>11, <2>12, <2>13, <2>14
<1> QED BY <1>5, <1>6

-----------------------------------------------------------------------------
(* The texts that Write writes stand, and so does the second file *)

TextsStand == \A t \in {text, other.text} : Grown(t)

\* What a node may be depends on the language alone.
LEMMA SameLanguage ==
    ASSUME lang' = lang, NEW CONSTANT t
    PROVE  Grown(t) <=> Grown(t)'
<1>1. Code!Kinds' = Code!Kinds BY DEF Code!Kinds, Code!Captured
<1>2. ASSUME NEW w PROVE Code!Words(w)' = Code!Words(w)
    BY DEF Code!Words, Code!Called, Code!Imported
<1>3. ASSUME NEW w, NEW u PROVE Code!Joined(w, u)' = Code!Joined(w, u)
    BY DEF Code!Joined
<1>4. Node' = Node
    <2>1. (UNION {Code!Words(w) : w \in Code!Kinds})' = UNION {Code!Words(w) : w \in Code!Kinds}
        <3>1. PICK K : K = Code!Kinds /\ K = Code!Kinds' BY <1>1
        <3>2. (UNION {Code!Words(w) : w \in Code!Kinds})' = UNION {Code!Words(w)' : w \in K} BY <3>1
        <3>3. \A w \in K : Code!Words(w)' = Code!Words(w) BY <1>2
        <3>4. UNION {Code!Words(w)' : w \in K} = UNION {Code!Words(w) : w \in K} BY <3>3
        <3> QED BY <3>1, <3>2, <3>4
    <2>2. (UNION {Code!Declares(w) : w \in Code!Kinds})' = UNION {Code!Declares(w) : w \in Code!Kinds}
        BY <1>1 DEF Code!Declares
    <2> QED BY <1>1, <2>1, <2>2 DEF Node
<1> QED BY <1>2, <1>3, <1>4 DEF Grown, Standing, Code!Declares

\* Write keeps that the nodes of the text stand.
LEMMA Growth == Code!Spec /\ Grown(other.text) => []TextsStand
<1>1. Code!Init /\ Grown(other.text) => TextsStand
    <2>1. Grown(<<>>) BY DEF Grown
    <2> QED BY <2>1 DEF TextsStand, Code!Init
<1>2. TextsStand /\ [Code!Next]_(Code!codeVars) => TextsStand'
    <2> SUFFICES ASSUME TextsStand, [Code!Next]_(Code!codeVars) PROVE TextsStand' OBVIOUS
    <2>1. CASE UNCHANGED Code!codeVars
        <3>1. lang' = lang /\ text' = text /\ other' = other BY <2>1 DEF Code!codeVars
        <3>2. \A t : Grown(t) => Grown(t)' BY <3>1, SameLanguage
        <3> QED BY <3>1, <3>2 DEF TextsStand
    <2>2. CASE Code!Next
        <3>1. PICK up \in Code!Open, w \in Code!Kinds : \E names \in Code!Declares(w), word \in Code!Words(w) :
                 \E colons \in Code!Joined(w, word), fresh \in Code!NewLine(names) :
                    Code!Write(up, w, names, word, colons, fresh)
            BY <2>2 DEF Code!Next
        <3>2. PICK names \in Code!Declares(w), word \in Code!Words(w) :
                 \E colons \in Code!Joined(w, word), fresh \in Code!NewLine(names) :
                    Code!Write(up, w, names, word, colons, fresh)
            BY <3>1
        <3>3. PICK colons \in Code!Joined(w, word), fresh \in Code!NewLine(names) :
                    Code!Write(up, w, names, word, colons, fresh)
            BY <3>2
        <3>4. lang' = lang /\ other' = other BY <3>3 DEF Code!Write
        <3>5. PICK t : t = text OBVIOUS
        <3>6. Grown(t) /\ Grown(other.text) BY <3>5 DEF TextsStand
        <3>7. PICK n \in Nat : n = Len(t) BY <3>6 DEF Grown
        <3>8. up \in 0..n
            <4>1. CASE t = <<>> BY <3>5, <4>1 DEF Code!Open
            <4>2. CASE t # <<>>
                <5>1. PICK c : c = Code!Around(t, n, Code!Kinds) OBVIOUS
                <5>2. n \in 1..Len(t) /\ t \in Seq(Node) /\ \A h \in 1..Len(t) : t[h].up \in 0..h-1
                    BY <3>6, <3>7, <4>2 DEF Grown, Standing
                <5>3. c \in Seq(Nat) /\ \A x \in 1..Len(c) : c[x] \in 1..n-1
                    <6>1. PICK W : W = Code!Kinds OBVIOUS
                    <6> QED BY <5>1, <5>2, <6>1, AroundAre
                <5>4. up \in {0, n} \cup Code!ToSet(c) BY <3>5, <3>7, <4>2, <5>1 DEF Code!Open
                <5> QED BY <3>7, <5>3, <5>4 DEF Code!ToSet
            <4> QED BY <4>1, <4>2
        <3> DEFINE node == [up |-> up, what |-> w, names |-> names, word |-> word, colons |-> colons, fresh |-> fresh]
        <3>9. PICK a : a = node OBVIOUS
        <3>10. text' = Append(t, a) BY <3>3, <3>5, <3>9 DEF Code!Write
        <3>11. a \in Node
            <4>1. names \in UNION {Code!Declares(v) : v \in Code!Kinds} BY <3>2
            <4>2. word \in UNION {Code!Words(v) : v \in Code!Kinds} BY <3>2
            <4>3. colons \in BOOLEAN BY <3>3 DEF Code!Joined
            <4>4. fresh \in BOOLEAN BY <3>3 DEF Code!NewLine
            <4>5. up \in Nat BY <3>8
            <4> QED BY <3>1, <3>9, <4>1, <4>2, <4>3, <4>4, <4>5 DEF Node
        <3>12. /\ a.up = up /\ a.what = w /\ a.names = names /\ a.word = word /\ a.colons = colons BY <3>9
        <3> HIDE DEF node
        <3>13. Grown(Append(t, a))
            <4>1. PICK u : u = Append(t, a) OBVIOUS
            <4>2. u \in Seq(Node) /\ Len(u) = n + 1 /\ u[n + 1] = a /\ \A x \in 1..n : u[x] = t[x]
                BY <3>6, <3>7, <3>11, <4>1 DEF Grown
            <4>3. ASSUME NEW i \in DOMAIN u PROVE Standing(u, i)
                <5>1. CASE i \in 1..n
                    <6>1. i \in DOMAIN t /\ u[i] = t[i] BY <3>6, <3>7, <4>2, <5>1 DEF Grown
                    <6>2. Standing(t, i) BY <3>6, <6>1 DEF Grown
                    <6> QED BY <6>1, <6>2 DEF Standing
                <5>2. CASE i = n + 1
                    <6>1. u[i] = a /\ up \in 0..i-1 BY <3>8, <4>2, <5>2
                    <6> QED BY <3>2, <3>3, <3>12, <6>1 DEF Standing
                <5> QED BY <4>2, <4>3, <5>1, <5>2
            <4> QED BY <4>1, <4>2, <4>3 DEF Grown
        <3>14. \A u : Grown(u) => Grown(u)' BY <3>4, SameLanguage
        <3> QED BY <3>4, <3>6, <3>10, <3>13, <3>14 DEF TextsStand
    <2> QED BY <2>1, <2>2
<1> QED BY <1>1, <1>2, PTL DEF Code!Spec

\* The rows of a file can be inserted in the order they have.
THEOREM ParentsFirst == Code!Spec /\ Grown(other.text) => []ParentsGoFirst
<1>1. TextsStand => ParentsGoFirst
    <2> SUFFICES ASSUME TextsStand, NEW f \in Code!FileNo, NEW s \in Code!Stored[f], s.parent # None
                 PROVE  \E r \in Code!Stored[f] : /\ r.node = s.parent /\ Code!Sorted(r, s)
                                                        /\ r.qname = Code!Front(s.qname)
        BY DEF ParentsGoFirst, Code!ParentsGoFirst
    <2>1. PICK t : t = Code!Text(f) OBVIOUS
    <2>2. Grown(t) BY <2>1 DEF TextsStand, Code!Text
    <2>3. s \in Code!Symbols(f) /\ Code!Stored[f] = Code!Symbols(f) BY DEF Code!Stored, Code!Insert
    <2>4. PICK i \in 1..Len(t) : t[i].what \in Code!Captured /\ \E k \in 1..Len(t[i].names) : s = Row(f, i, k)
        BY <2>1, <2>2, <2>3, SymbolsAre
    <2>5. PICK k \in 1..Len(t[i].names) : s = Row(f, i, k) BY <2>4
    <2>6. PICK j \in 1..i-1 : /\ t[j].what \in Code!Captured
              /\ \E h \in 1..Len(t[j].names) : \E n \in Part :
                   /\ Row(f, j, h).node = Row(f, i, k).parent
                   /\ Row(f, j, h).qname \in Seq(Part)
                   /\ Row(f, i, k).qname = Row(f, j, h).qname \o <<n>>
        BY <2>1, <2>2, <2>4, <2>5, ParentIs
    <2>7. PICK h \in 1..Len(t[j].names), n \in Part :
                   /\ Row(f, j, h).node = s.parent
                   /\ Row(f, j, h).qname \in Seq(Part)
                   /\ s.qname = Row(f, j, h).qname \o <<n>>
        BY <2>5, <2>6
    <2>8. i \in Nat /\ j \in Nat /\ j <= i /\ j \in 1..Len(t) BY <2>2 DEF Grown
    <2>9. PICK r : r = Row(f, j, h) OBVIOUS
    <2>10. r \in Code!Stored[f]
        <3>1. \A x \in 1..Len(t) : t[x].what \in Code!Captured =>
                 \A y \in 1..Len(t[x].names) : Row(f, x, y) \in Code!Symbols(f)
            BY <2>1, <2>2, SymbolsAre
        <3>2. Row(f, j, h) \in Code!Symbols(f) BY <2>6, <2>7, <2>8, <3>1
        <3> QED BY <2>3, <2>9, <3>2
    <2>11. PICK q \in Seq(Part) : q = r.qname BY <2>7, <2>9
    <2>12. Code!Less(q, s.qname) /\ Code!Front(s.qname) = q BY <2>7, <2>9, <2>11, OneLonger
    <2>13. r.line = Code!Line(t, j) /\ s.line = Code!Line(t, i) BY <2>1, <2>5, <2>9 DEF Row
    <2>14. r.line \in Nat /\ s.line \in Nat /\ r.line <= s.line BY <2>8, <2>13, LinesGoUp
    <2>15. Code!Sorted(r, s) BY <2>11, <2>12, <2>14 DEF Code!Sorted
    <2> QED BY <2>7, <2>9, <2>10, <2>11, <2>12, <2>15
<1> QED BY <1>1, Growth, PTL

-----------------------------------------------------------------------------
(* Names and what they resolve to *)

\* Two nodes are in order when their numbers are, or the places in one node.
LEMMA NodesInOrder ==
    ASSUME NEW i \in Nat, NEW k \in Nat, NEW m \in Nat, NEW h \in Nat, i < m \/ (i = m /\ k < h)
    PROVE  Code!Less(<<i, k>>, <<m, h>>)
<1> DEFINE p == <<i, k>>
           q == <<m, h>>
<1>1. /\ p \in Seq(Nat) /\ q \in Seq(Nat) /\ DOMAIN p = {1, 2} /\ DOMAIN q = {1, 2}
      /\ p[1] = i /\ p[2] = k /\ q[1] = m /\ q[2] = h
    OBVIOUS
<1> HIDE DEF p, q
<1>2. CASE i < m
    <2>1. SubSeq(p, 1, 1-1) = <<>> /\ SubSeq(q, 1, 1-1) = <<>> BY <1>1
    <2>2. 1 \in DOMAIN p \cap DOMAIN q /\ p[1] < q[1] BY <1>1, <1>2
    <2>3. Code!Less(p, q) BY <2>1, <2>2 DEF Code!Less
    <2> QED BY <2>3 DEF p, q
<1>3. CASE i = m /\ k < h
    <2>1. SubSeq(p, 1, 2-1) = SubSeq(q, 1, 2-1)
        <3>1. Len(p) = 2 /\ Len(q) = 2 BY DEF p, q
        <3>2. SubSeq(p, 1, 1) \in Seq(Nat) /\ Len(SubSeq(p, 1, 1)) = 1 /\ SubSeq(p, 1, 1)[1] = i BY <1>1, <3>1
        <3>3. SubSeq(q, 1, 1) \in Seq(Nat) /\ Len(SubSeq(q, 1, 1)) = 1 /\ SubSeq(q, 1, 1)[1] = i BY <1>1, <1>3, <3>1
        <3> QED BY <3>2, <3>3
    <2>2. 2 \in DOMAIN p \cap DOMAIN q /\ p[2] < q[2] BY <1>1, <1>3
    <2>3. Code!Less(p, q) BY <2>1, <2>2 DEF Code!Less
    <2> QED BY <2>3 DEF p, q
<1> QED BY <1>2, <1>3

\* Of the rows of one name in a file one is the last.
LEMMA LastRow ==
    ASSUME NEW f, Grown(Code!Text(f)), NEW S, S \subseteq Code!Symbols(f), S # {},
           NEW q, \A s \in S : s.qname = q
    PROVE  \E s \in S : \A r \in S \ {s} : Code!Sorted(r, s)
<1> PICK t : t = Code!Text(f) OBVIOUS
<1>0. Grown(t) OBVIOUS
<1>1. PICK n \in Nat : n = Len(t) BY DEF Grown
<1>2. \A s \in S : \E i \in 1..n : t[i].what \in Code!Captured /\ \E k \in 1..Len(t[i].names) : s = Row(f, i, k)
    BY <1>1, SymbolsAre
<1>3. \A i \in 1..n : t[i].what \in Code!Captured => Len(t[i].names) \in Nat
    <2> TAKE i \in 1..n
    <2>1. i \in DOMAIN t BY <1>0, <1>1 DEF Grown
    <2> QED BY <1>0, <2>1, NamesOf
<1> DEFINE I == {i \in 1..n : t[i].what \in Code!Captured /\ \E k \in 1..Len(t[i].names) : Row(f, i, k) \in S}
<1>4. I \subseteq 0..n /\ I # {}
    <2>1. PICK s \in S : TRUE OBVIOUS
    <2>2. PICK i \in 1..n : t[i].what \in Code!Captured /\ \E k \in 1..Len(t[i].names) : s = Row(f, i, k) BY <1>2
    <2>3. i \in I BY <2>1, <2>2
    <2> QED BY <2>3
<1>5. PICK m \in I : \A y \in I : y <= m
    <2> HIDE DEF I
    <2> QED BY <1>4, GreatestNumber
<1> DEFINE K == {k \in 1..Len(t[m].names) : Row(f, m, k) \in S}
<1>6. m \in 1..n /\ t[m].what \in Code!Captured BY <1>5
<1>7. PICK l \in Nat : l = Len(t[m].names) BY <1>3, <1>6
<1>8. K \subseteq 0..l /\ K # {} BY <1>5, <1>7
<1>9. PICK h \in K : \A y \in K : y <= h
    <2> HIDE DEF K
    <2> QED BY <1>8, GreatestNumber
<1>10. Row(f, m, h) \in S /\ h \in Nat BY <1>7, <1>9
<1>11. ASSUME NEW r \in S, r # Row(f, m, h) PROVE Code!Sorted(r, Row(f, m, h))
    <2>1. PICK i \in 1..n : t[i].what \in Code!Captured /\ \E k \in 1..Len(t[i].names) : r = Row(f, i, k) BY <1>2
    <2>2. PICK k \in 1..Len(t[i].names) : r = Row(f, i, k) BY <2>1
    <2>3. i \in I BY <2>1, <2>2
    <2>4. i <= m BY <1>5, <2>3
    <2>5. k \in Nat BY <1>3, <2>1
    <2>6. i < m \/ (i = m /\ k < h)
        <3>1. CASE i = m
            <4>1. k \in K BY <2>2, <3>1
            <4>2. k <= h /\ k # h BY <1>9, <1>11, <2>2, <3>1, <4>1
            <4> QED BY <1>10, <2>5, <3>1, <4>2
        <3> QED BY <1>6, <2>4, <3>1
    <2>7. i \in Nat /\ m \in Nat BY <1>6
    <2> HIDE DEF I, K
    <2>8. Code!Less(<<i, k>>, <<m, h>>) BY <1>10, <2>5, <2>6, <2>7, NodesInOrder
    <2>9. Code!Line(t, i) \in Nat /\ Code!Line(t, m) \in Nat /\ Code!Line(t, i) <= Code!Line(t, m)
        BY <2>4, <2>7, LinesGoUp
    <2>10. PICK s : s = Row(f, m, h) OBVIOUS
    <2>11. r.line = Code!Line(t, i) /\ r.node = <<i, k>> BY <2>2 DEF Row
    <2>12. s.line = Code!Line(t, m) /\ s.node = <<m, h>> BY <2>10 DEF Row
    <2>13. r.qname = s.qname BY <1>10, <2>10
    <2> QED BY <2>8, <2>9, <2>10, <2>11, <2>12, <2>13 DEF Code!Sorted
<1> QED BY <1>10, <1>11

\* None is not a row.
Fields == {"file", "node", "line", "qname", "parent", "kind"}

\* A definition is a stored row of the file with that name, and is there if such a row is.
LEMMA DefIs ==
    ASSUME NEW f \in Code!FileNo, Grown(Code!Text(f)), NEW q
    PROVE  /\ Code!Def(Code!Stored, f, q) # None =>
                 /\ Code!Def(Code!Stored, f, q) \in Code!Stored[f]
                 /\ Code!Def(Code!Stored, f, q).qname = q /\ Code!Def(Code!Stored, f, q).file = f
           /\ DOMAIN None # Fields /\ (\E s \in Code!Stored[f] : s.qname = q) => Code!Def(Code!Stored, f, q) # None
<1> DEFINE S == {s \in Code!Stored[f] : s.qname = q}
<1>1. Code!Stored[f] \subseteq Code!Symbols(f) BY DEF Code!Stored, Code!Insert
<1>2. Code!Def(Code!Stored, f, q) = IF S = {} THEN None ELSE CHOOSE s \in S : \A r \in S \ {s} : Code!Sorted(r, s)
    BY DEF Code!Def
<1>3. S # {} => \E s \in S : \A r \in S \ {s} : Code!Sorted(r, s)
    <2>1. S \subseteq Code!Symbols(f) /\ \A s \in S : s.qname = q BY <1>1
    <2> HIDE DEF S
    <2> QED BY <2>1, LastRow
<1>4. S # {} => Code!Def(Code!Stored, f, q) \in S
    <2> HIDE DEF S
    <2> QED BY <1>2, <1>3
<1>5. ASSUME NEW s \in Code!Stored[f] PROVE s.file = f /\ DOMAIN s = Fields
    <2>1. PICK i \in 1..Len(Code!Text(f)) : \E k \in 1..Len(Code!Text(f)[i].names) : s = Row(f, i, k)
        BY <1>1, SymbolsAre
    <2>2. PICK k : s = Row(f, i, k) BY <2>1
    <2> QED BY <2>2 DEF Row, Fields
<1>6. CASE S = {} BY <1>2, <1>6
<1>7. CASE S # {}
    <2>1. PICK d : d = Code!Def(Code!Stored, f, q) OBVIOUS
    <2>2. d \in Code!Stored[f] /\ d.qname = q BY <1>4, <1>7, <2>1
    <2>3. d.file = f /\ DOMAIN d = Fields BY <1>5, <2>2
    <2> QED BY <2>1, <2>2, <2>3
<1> QED BY <1>6, <1>7

\* The symbol around a node is a row.
LEMMA SourceIs ==
    ASSUME Grown(text), ~Code!Clash(Code!Symbols(1)), NEW i \in 1..Len(text),
           Code!SourceQname(text, Code!Chain(text, i)) # <<>>
    PROVE  /\ \E s \in Code!Stored[1] : s.qname = Code!SourceQname(text, Code!Chain(text, i))
           /\ Nests => Code!SourceQname(text, Code!Chain(text, i)) \in Seq(Part)
<1>1. PICK c : c = Code!Chain(text, i) OBVIOUS
<1>2. c # <<>> BY <1>1 DEF Code!SourceQname
<1>3. PICK j \in 1..i-1 : text[j].what \in Code!Captured /\ c = Append(Code!Chain(text, j), j)
    BY <1>1, <1>2, ChainIs
<1>4. j \in 1..Len(text) /\ j \in DOMAIN text BY DEF Grown
<1>5. PICK d \in Seq(Nat) : d = Code!Chain(text, j) BY <1>4, ChainIs
<1>6. Code!Last(c) = j /\ Code!Front(c) = d
    <2>1. c = Append(d, j) /\ j \in Nat BY <1>3, <1>5
    <2>2. c = d \o <<j>> BY <2>1
    <2> QED BY <2>1, <2>2, OneLonger
<1>7. PICK h : h = Len(text[j].names) OBVIOUS
<1>8. h \in 1..Len(text[j].names) BY <1>3, <1>4, <1>7, NamesOf, LastOf
<1>9. Code!Text(1) = text BY DEF Code!Text
<1>10. Row(1, j, h) \in Code!Symbols(1) BY <1>3, <1>4, <1>8, <1>9, SymbolsAre
<1>11. Code!Symbols(1) = Code!Stored[1] BY DEF Code!Stored, Code!Insert, Code!FileNo
<1>12. Row(1, j, h).qname = Code!Build(text, j, h, d).qname BY <1>5, <1>9 DEF Row
<1>13. Code!SourceQname(text, c) = Code!Build(text, j, h, d).qname BY <1>2, <1>6, <1>7 DEF Code!SourceQname
<1>14. ASSUME Nests PROVE Code!Build(text, j, h, d).qname \in Seq(Part)
    <2>1. \A x \in 1..Len(d) : d[x] \in 1..Len(text) /\ text[d[x]].what \in Code!Captured
        <3>1. \A x \in 1..Len(d) : d[x] \in 1..j-1 /\ text[d[x]].what \in Code!Captured BY <1>4, <1>5, ChainIs
        <3>2. \A y \in 1..j-1 : y \in 1..Len(text) BY <1>4
        <3> QED BY <3>1, <3>2
    <2>2. PICK e \in Seq(Part) : e = Names(text, d) BY <2>1, NamesAre
    <2>3. PICK a \in Part : a = text[j].names[h]
        <3>1. text[j].names \in Seq(Part) BY <1>3, <1>4, NamesOf
        <3> QED BY <1>8, <3>1
    <2>4. e \o <<a>> \in Seq(Part) OBVIOUS
    <2>5. Code!Build(text, j, h, d).qname = QnameOf(text, j, h, d) BY <1>14, NestedIs
    <2> QED BY <2>2, <2>3, <2>4, <2>5 DEF QnameOf
<1> QED BY <1>1, <1>10, <1>11, <1>12, <1>13, <1>14

\* The definitions that resolvers ask for: in the file, and in a module.
LEMMA SameFileIs ==
    ASSUME TextsStand, DOMAIN None # Fields, NEW w, NEW colons, NEW d,
           d = Code!SameFile(Code!Stored, w, colons) \/ d = Code!Def(Code!Stored, 1, w)
    PROVE  /\ d # None => d.file = 1 /\ d.qname = w /\ d \in Code!Stored[1]
           /\ Code!Def(Code!Stored, 1, w) = None => ~\E s \in Code!Stored[1] : s.qname = w
<1>1. 1 \in Code!FileNo /\ Grown(Code!Text(1)) BY DEF TextsStand, Code!Text, Code!FileNo
<1>2. d # None => d = Code!Def(Code!Stored, 1, w) BY DEF Code!SameFile
<1> QED BY <1>1, <1>2, DefIs

\* A definition in a module is one of a file that has that module.
LEMMA InModuleIs ==
    ASSUME TextsStand, NEW p, NEW q, NEW d, d = Code!InModule(Code!Stored, p, q), d # None
    PROVE  d.file \in Code!FileNo /\ d.qname = q /\ Code!Module(d.file) = p
<1>1. PICK F : F = {f \in Code!FileNo : Code!Module(f) = p} OBVIOUS
<1>2. F # {} /\ d = Code!Def(Code!Stored, CHOOSE f \in F : TRUE, q) BY <1>1 DEF Code!InModule
<1>3. PICK f \in F : f = CHOOSE x \in F : TRUE BY <1>2
<1>4. f \in Code!FileNo /\ Code!Module(f) = p BY <1>1
<1>5. Grown(Code!Text(f)) BY <1>4 DEF TextsStand, Code!Text
<1>6. d.qname = q /\ d.file = f BY <1>2, <1>3, <1>4, <1>5, DefIs
<1> QED BY <1>4, <1>6

\* A sibling's row is in the same directory.
LEMMA SiblingIs ==
    ASSUME TextsStand, NEW w, NEW d \in Code!Siblings(Code!Stored, w)
    PROVE  d.file \in Code!FileNo /\ d.qname = w /\ Code!Directory(d.file) = Code!Directory(1)
<1>1. PICK f \in Code!FileNo : Code!Directory(f) = Code!Directory(1) /\ d = Code!Def(Code!Stored, f, w) /\ d # None
    BY DEF Code!Siblings
<1>2. Grown(Code!Text(f)) BY <1>1 DEF TextsStand, Code!Text
<1>3. d.qname = w /\ d.file = f BY <1>1, <1>2, DefIs
<1> QED BY <1>1, <1>3

\* What resolving node n, recorded as w in the symbol source, to d has to keep.
Kept(n, w, source, d) ==
    LET f == d.file
        own == \E s \in Code!Stored[1] : s.qname = w
    IN  /\ Code!Last(d.qname) = Code!Last(w)
        /\ \/ f = 1 /\ d.qname = w
           \/ w[1] = Self /\ f = 1 /\ source # <<>> /\ Code!Front(d.qname) = Code!Front(source)
           \/ /\ lang \in {"go", "java"} /\ n.what = "call" /\ ~own
              /\ d.qname = w /\ Code!Directory(f) = Code!Directory(1)
           \/ lang = "py" /\ n.what = "import" /\ Code!Module(f) = Code!Front(w)
           \/ /\ lang \in {"rs", "ts"} /\ n.what = (IF lang = "rs" THEN "call" ELSE "import")
              /\ ~own /\ Code!Module(f) = Append(Code!Directory(1), w[Len(w) - 1])

\* A node of the text: what it is recorded as.
LEMMA Words ==
    ASSUME TextsStand, NEW i \in DOMAIN text, text[i].what \in {"call", "import"}
    PROVE  /\ text[i].what = "call" => text[i].word \in Code!Called
           /\ text[i].what = "import" => text[i].word \in Code!Imported /\ Code!Written(text[i]) = text[i].word
           /\ text[i].colons \in Code!Joined(text[i].what, text[i].word)
<1>1. Grown(text) BY DEF TextsStand
<1>2. Standing(text, i) BY <1>1 DEF Grown
<1>3. text[i].word \in Code!Words(text[i].what) /\ text[i].colons \in Code!Joined(text[i].what, text[i].word)
    BY <1>2 DEF Standing
<1>4. text[i].what = "call" => Code!Words(text[i].what) = Code!Called BY DEF Code!Words
<1>5. text[i].what = "import" => Code!Words(text[i].what) = Code!Imported BY DEF Code!Words
<1>6. text[i].what = "import" => Code!Written(text[i]) = text[i].word BY DEF Code!Written
<1> QED BY <1>3, <1>4, <1>5, <1>6

\* Self is not a name and None is not a row; the second file's path has no "..".
Distinct == Self \notin Name /\ DOMAIN None # Fields
Elsewhere == \E S : other.path \in Seq(S) /\ DotDot \notin S

\* A call that is recorded as it is written: all that have a name at all in Python and Rust.
LEMMA AsWritten ==
    ASSUME NEW n, n.what = "call", lang \in {"py", "rs"}, Code!Written(n) # None
    PROVE  Code!Written(n) = n.word
<1>1. Code!Written(n) = Code!Target(n.word) BY DEF Code!Written
<1>2. CASE lang = "py"
    <2>1. Code!Target(n.word) = Code!PythonCall(n.word) BY <1>2 DEF Code!Target
    <2> QED BY <1>1, <2>1 DEF Code!PythonCall
<1>3. CASE lang = "rs"
    <2>1. Code!Target(n.word) = Code!RustCall(n.word) BY <1>3 DEF Code!Target
    <2> QED BY <1>1, <2>1 DEF Code!RustCall
<1> QED BY <1>2, <1>3

\* Tuples of up to three.
LEMMA ShortTuples ==
    ASSUME NEW a, NEW b, NEW c
    PROVE  /\ Code!Front(<<a, b>>) = <<a>> /\ Code!Last(<<a, b>>) = b /\ Len(<<a, b>>) = 2
           /\ Code!Last(<<a>>) = a /\ Len(<<a>>) = 1
           /\ <<a>> \o <<b>> = <<a, b>> /\ <<a>> \o <<b, c>> = <<a, b, c>>
<1> PICK X : X = {a, b, c} OBVIOUS
<1>1. <<a>> \in Seq(X) /\ <<b>> \in Seq(X) /\ <<b, c>> \in Seq(X) /\ <<a, b>> \in Seq(X) /\ <<a, b, c>> \in Seq(X)
    OBVIOUS
<1>2. <<a>> \o <<b>> = <<a, b>>
    <2>1. PICK p : p = <<a>> \o <<b>> OBVIOUS
    <2>2. p \in Seq(X) /\ Len(p) = 2 /\ p[1] = a /\ p[2] = b BY <1>1, <2>1
    <2>3. PICK q \in Seq(X) : q = <<a, b>> /\ Len(q) = 2 /\ q[1] = a /\ q[2] = b BY <1>1
    <2>4. \A x \in 1..2 : p[x] = q[x] BY <2>2, <2>3
    <2>5. p = q BY <2>2, <2>3, <2>4
    <2> QED BY <2>1, <2>3, <2>5
<1>3. <<a>> \o <<b, c>> = <<a, b, c>>
    <2>1. PICK p : p = <<a>> \o <<b, c>> OBVIOUS
    <2>2. p \in Seq(X) /\ Len(p) = 3 /\ p[1] = a /\ p[2] = b /\ p[3] = c BY <1>1, <2>1
    <2>3. PICK q \in Seq(X) : q = <<a, b, c>> /\ Len(q) = 3 /\ q[1] = a /\ q[2] = b /\ q[3] = c BY <1>1
    <2>4. \A x \in 1..3 : p[x] = q[x] BY <2>2, <2>3
    <2>5. p = q BY <2>2, <2>3, <2>4
    <2> QED BY <2>1, <2>3, <2>5
<1>4. Code!Front(<<a, b>>) = <<a>> /\ Code!Last(<<a, b>>) = b
    <2>1. PICK p \in Seq(X) : p = <<a>> BY <1>1
    <2>2. b \in X OBVIOUS
    <2>3. Code!Front(p \o <<b>>) = p /\ Code!Last(p \o <<b>>) = b BY <2>2, OneLonger
    <2> QED BY <1>2, <2>1, <2>3
<1>5. Code!Last(<<a>>) = a BY DEF Code!Last
<1> QED BY <1>2, <1>3, <1>4, <1>5

\* Python: self is the caller's class, an import leaves the file.
LEMMA PythonKeeps ==
    ASSUME TextsStand, Distinct, lang = "py", NEW i \in DOMAIN text, text[i].what \in {"call", "import"},
           NEW w, w = Code!Written(text[i]), text[i].what = "call" => w # None, NEW q \in Seq(Part), NEW d,
           d = Code!ResolvePython(Code!Stored, text[i].what, w, q), d # None
    PROVE  Kept(text[i], w, q, d)
<1>1. CASE text[i].what = "import"
    <2>1. d = Code!InModule(Code!Stored, Code!Front(w), <<Code!Last(w)>>) BY <1>1 DEF Code!ResolvePython
    <2>2. d.qname = <<Code!Last(w)>> /\ Code!Module(d.file) = Code!Front(w) BY <2>1, InModuleIs
    <2>3. Code!Last(<<Code!Last(w)>>) = Code!Last(w)
        <3>1. PICK a : a = Code!Last(w) OBVIOUS
        <3>2. Code!Last(<<a>>) = a BY DEF Code!Last
        <3> QED BY <3>1, <3>2
    <2> QED BY <1>1, <2>2, <2>3 DEF Kept
<1>2. CASE text[i].what = "call" /\ w[1] = Self /\ w[1] # Dot
    <2>1. d = Code!Def(Code!Stored, 1, Code!Front(q) \o Tail(w)) /\ Len(q) >= 2
        BY <1>2 DEF Code!ResolvePython
    <2>2. w \in Code!Called BY <1>2, Words, AsWritten
    <2>3. \E b \in Name : w = <<Self, b>>
        <3>1. \A n \in Name : w # <<n>> BY <1>2 DEF Distinct
        <3>2. w \in (Name \cup {Opaque} \cup {Self}) \X Name BY <2>2, <3>1 DEF Code!Called
        <3> QED BY <1>2, <3>2
    <2>4. PICK b \in Name : w = <<Self, b>> BY <2>3
    <2>5. Tail(w) = <<b>> /\ Code!Last(w) = b BY <2>4 DEF Code!Last
    <2>6. PICK p \in Seq(Part) : p = Code!Front(q)
        <3>1. Len(q) - 1 \in Nat BY <2>1
        <3>2. SubSeq(q, 1, Len(q) - 1) \in Seq(Part) BY <2>1, <3>1
        <3> QED BY <3>2 DEF Code!Front
    <2>7. b \in Part BY DEF Part
    <2>8. Code!Front(p \o <<b>>) = p /\ Code!Last(p \o <<b>>) = b BY <2>7, OneLonger
    <2>9. d.file = 1 /\ d.qname = p \o <<b>>
        <3>1. d = Code!Def(Code!Stored, 1, p \o <<b>>) BY <2>1, <2>5, <2>6
        <3> QED BY <3>1, SameFileIs DEF Distinct
    <2>10. q # <<>> BY <2>1
    <2> QED BY <1>2, <2>5, <2>6, <2>8, <2>9, <2>10 DEF Kept
<1>3. CASE text[i].what = "call" /\ w[1] # Self
    <2>1. d = Code!Def(Code!Stored, 1, w) BY <1>3 DEF Code!ResolvePython
    <2>2. d.file = 1 /\ d.qname = w BY <2>1, SameFileIs DEF Distinct
    <2> QED BY <2>2 DEF Kept
<1> QED BY <1>1, <1>2, <1>3 DEF Code!ResolvePython

\* TypeScript: an import from "./" reaches the module beside the file, one from "../" none.
LEMMA TypeScriptKeeps ==
    ASSUME TextsStand, Distinct, Elsewhere, lang = "ts", NEW i \in DOMAIN text, text[i].what \in {"call", "import"},
           NEW w, w = Code!Written(text[i]), NEW q, NEW d,
           d = Code!ResolveTypeScript(Code!Stored, text[i].what, w), d # None
    PROVE  Kept(text[i], w, q, d)
<1> PICK e : e = Code!SameFile(Code!Stored, w, FALSE) OBVIOUS
<1>0. e = Code!Def(Code!Stored, 1, w) BY DEF Code!SameFile
<1>1. CASE d = e
    <2>1. d = Code!Def(Code!Stored, 1, w) BY <1>0, <1>1
    <2>2. d.file = 1 /\ d.qname = w BY <2>1, SameFileIs DEF Distinct
    <2> QED BY <2>2 DEF Kept
<1>2. CASE d # e
    <2>0. e = None /\ text[i].what = "import" BY <1>2 DEF Code!ResolveTypeScript
    <2>1. w \in Code!TypeScriptImports BY <2>0, Words DEF Code!Imported
    <2>2. w \in {<<2>>, <<2, 1>>, <<Dot, 2, 1>>, <<DotDot, 2, 1>>} BY <2>1 DEF Code!TypeScriptImports
    <2>3. w = <<Dot, 2, 1>> \/ w = <<DotDot, 2, 1>>
        <3>1. ~(Len(w) < 3) BY <1>2 DEF Code!ResolveTypeScript
        <3>2. Len(<<2>>) < 3 /\ Len(<<2, 1>>) < 3 OBVIOUS
        <3> QED BY <2>2, <3>1, <3>2
    <2>4. Code!Last(w) = 1 /\ Len(w) = 3 /\ w[2] = 2 BY <2>3 DEF Code!Last
    <2>5. Code!Path(1) = <<Src, 1>> BY DEF Code!Path
    <2>6. Code!Directory(1) = <<Src>> BY <2>5, ShortTuples DEF Code!Directory
    <2>7. PICK p : p = Code!Directory(1) \o (IF w[1] = Dot THEN <<w[2]>> ELSE <<DotDot, w[2]>>) OBVIOUS
    <2>8. d.file \in Code!FileNo /\ d.qname = <<1>> /\ Code!Module(d.file) = p
        <3>1. d = Code!InModule(Code!Stored, p, <<Code!Last(w)>>) BY <1>2, <2>7 DEF Code!ResolveTypeScript
        <3>2. d = Code!InModule(Code!Stored, p, <<1>>) BY <2>4, <3>1
        <3> QED BY <3>2, InModuleIs
    <2>9. CASE w[1] = Dot
        <3>1. p = <<Src>> \o <<2>> BY <2>4, <2>6, <2>7, <2>9
        <3>2. p = Append(Code!Directory(1), w[Len(w) - 1])
            <4>1. w[Len(w) - 1] = 2 BY <2>4
            <4>2. Append(<<Src>>, 2) = <<Src>> \o <<2>> OBVIOUS
            <4> QED BY <2>6, <3>1, <4>1, <4>2
        <3>3. Code!Last(<<1>>) = 1 BY DEF Code!Last
        <3>4. ~\E s \in Code!Stored[1] : s.qname = w BY <1>0, <2>0, SameFileIs DEF Distinct
        <3> QED BY <2>0, <2>4, <2>8, <3>2, <3>3, <3>4 DEF Kept
    <2>10. CASE w[1] # Dot
        <3>1. p = <<Src, DotDot, 2>>
            <4>1. p = <<Src>> \o <<DotDot, 2>> BY <2>4, <2>6, <2>7, <2>10
            <4> QED BY <4>1, ShortTuples
        <3>2. d.file # 1
            <4>1. Code!Module(1) \in {<<Src, 1>>, <<Src>>} BY <2>5, <2>6 DEF Code!Module, Code!Directory
            <4>2. <<Src, DotDot, 2>> \notin {<<Src, 1>>, <<Src>>} OBVIOUS
            <4> QED BY <2>8, <3>1, <4>1, <4>2
        <3>3. d.file = 2 /\ Code!Path(2) = other.path BY <2>8, <3>2 DEF Code!FileNo, Code!Path
        <3>4. PICK S : other.path \in Seq(S) /\ DotDot \notin S BY DEF Elsewhere
        <3>5. PICK o \in Seq(S) : o = other.path BY <3>4
        <3>6. p = o \/ p = SubSeq(o, 1, Len(o) - 1) BY <2>8, <3>3, <3>5 DEF Code!Module, Code!Front
        <3>7. p \in Seq(S)
            <4>1. Len(o) - 1 \in Nat => SubSeq(o, 1, Len(o) - 1) \in Seq(S) OBVIOUS
            <4>2. Len(o) = 0 => SubSeq(o, 1, Len(o) - 1) = <<>> OBVIOUS
            <4>3. Len(o) \in Nat /\ <<>> \in Seq(S) OBVIOUS
            <4> QED BY <3>6, <4>1, <4>2, <4>3
        <3>8. 2 \in 1..Len(p) /\ p[2] = DotDot BY <3>1
        <3>9. p[2] \in S BY <3>7, <3>8
        <3> QED BY <3>4, <3>8, <3>9
    <2> QED BY <2>9, <2>10
<1> QED BY <1>1, <1>2

\* Go and Java: what the file does not define is a sibling's.
LEMMA PackageKeeps ==
    ASSUME TextsStand, Distinct, lang \in {"go", "java"}, NEW i \in DOMAIN text, text[i].what \in {"call", "import"},
           NEW w, NEW q, NEW d, d = Code!ResolvePackage(Code!Stored, text[i].what, w), d # None
    PROVE  Kept(text[i], w, q, d)
<1> PICK e : e = Code!SameFile(Code!Stored, w, FALSE) OBVIOUS
<1>0. e = Code!Def(Code!Stored, 1, w) BY DEF Code!SameFile
<1>1. CASE d = e
    <2>1. d = Code!Def(Code!Stored, 1, w) BY <1>0, <1>1
    <2>2. d.file = 1 /\ d.qname = w BY <2>1, SameFileIs DEF Distinct
    <2> QED BY <2>2 DEF Kept
<1>2. CASE d # e
    <2>1. PICK B : B = Code!Siblings(Code!Stored, w) OBVIOUS
    <2>2. e = None /\ text[i].what # "import" /\ B # {} /\ d = CHOOSE s \in B : TRUE
        BY <1>2, <2>1 DEF Code!ResolvePackage
    <2>3. d \in B BY <2>2
    <2>4. d.qname = w /\ Code!Directory(d.file) = Code!Directory(1) BY <2>1, <2>3, SiblingIs
    <2>5. ~\E s \in Code!Stored[1] : s.qname = w BY <1>0, <2>2, SameFileIs DEF Distinct
    <2> QED BY <2>2, <2>4, <2>5 DEF Kept
<1> QED BY <1>1, <1>2

\* Rust: what the file does not define is the module's that the word names.
LEMMA RustKeeps ==
    ASSUME TextsStand, Distinct, lang = "rs", NEW i \in DOMAIN text, text[i].what \in {"call", "import"},
           NEW w, w = Code!Written(text[i]), text[i].what = "call" => w # None, NEW q, NEW d,
           d = Code!ResolveRust(Code!Stored, text[i].what, w, text[i].colons), d # None
    PROVE  Kept(text[i], w, q, d)
<1> PICK e : e = Code!Def(Code!Stored, 1, w) OBVIOUS
<1>1. CASE d = e
    <2>1. d = Code!Def(Code!Stored, 1, w) BY <1>1
    <2>2. d.file = 1 /\ d.qname = w BY <2>1, SameFileIs DEF Distinct
    <2> QED BY <2>2 DEF Kept
<1>2. CASE d # e
    <2>1. /\ e = None /\ text[i].colons /\ text[i].what = "call"
          /\ d = Code!InModule(Code!Stored, Code!Directory(1) \o Code!Front(w), <<Code!Last(w)>>)
        BY <1>2 DEF Code!ResolveRust
    <2>2. w = text[i].word BY <2>1, AsWritten
    <2>3. w \in Code!Called /\ text[i].colons \in Code!Joined("call", w) BY <2>1, <2>2, Words
    <2>4. ~(Len(w) < 2) BY <2>1, <2>3 DEF Code!Joined
    <2>5. PICK X : X = Name \cup {Opaque} \cup {Self} OBVIOUS
    <2>6. w \in X \X Name
        <3>1. \A n \in Name : Len(<<n>>) < 2 OBVIOUS
        <3>2. w \in {<<n>> : n \in Name} \cup X \X Name BY <2>3, <2>5 DEF Code!Called
        <3> QED BY <2>4, <3>1, <3>2
    <2>7. PICK a \in X, b \in Name : w = <<a, b>> BY <2>6
    <2>8. Len(w) = 2 /\ Code!Last(w) = b /\ Code!Front(w) = <<a>> /\ w[Len(w) - 1] = a
        <3>1. Code!Last(<<a, b>>) = b /\ Code!Front(<<a, b>>) = <<a>> BY ShortTuples
        <3>2. Code!Last(w) = b /\ Code!Front(w) = <<a>> /\ Len(w) = 2 BY <2>7, <3>1
        <3> QED BY <2>7, <3>2
    <2>9. Code!Path(1) = <<Src, 1>> BY DEF Code!Path
    <2>10. Code!Directory(1) = <<Src>> BY <2>9, ShortTuples DEF Code!Directory
    <2>11. Code!Directory(1) \o Code!Front(w) = Append(Code!Directory(1), w[Len(w) - 1]) BY <2>8, <2>10
    <2>12. d.qname = <<b>> /\ Code!Module(d.file) = Append(Code!Directory(1), w[Len(w) - 1])
        <3>1. d = Code!InModule(Code!Stored, Append(Code!Directory(1), w[Len(w) - 1]), <<b>>) BY <2>1, <2>8, <2>11
        <3>2. PICK p : p = Append(Code!Directory(1), w[Len(w) - 1]) OBVIOUS
        <3>3. d = Code!InModule(Code!Stored, p, <<b>>) BY <3>1, <3>2
        <3> QED BY <3>2, <3>3, InModuleIs
    <2>13. Code!Last(<<b>>) = b BY DEF Code!Last
    <2>14. ~\E s \in Code!Stored[1] : s.qname = w BY <2>1, SameFileIs DEF Distinct
    <2> QED BY <2>1, <2>8, <2>12, <2>13, <2>14 DEF Kept
<1> QED BY <1>1, <1>2

\* Every resolver resolves to what is written.
LEMMA ResolversKeep ==
    ASSUME TextsStand, Distinct, Elsewhere, NEW i \in DOMAIN text, text[i].what \in {"call", "import"},
           NEW w, w = Code!Written(text[i]), text[i].what = "call" => w # None,
           NEW q, Nests => q \in Seq(Part), NEW d,
           d = Code!Resolve(Code!Stored, text[i], w, q), d # None
    PROVE  Kept(text[i], w, q, d)
<1>1. CASE lang = "py"
    <2>1. d = Code!ResolvePython(Code!Stored, text[i].what, w, q) BY <1>1 DEF Code!Resolve
    <2>2. q \in Seq(Part) BY <1>1 DEF Nests
    <2> QED BY <1>1, <2>1, <2>2, PythonKeeps
<1>2. CASE lang = "ts"
    <2>1. d = Code!ResolveTypeScript(Code!Stored, text[i].what, w) BY <1>2 DEF Code!Resolve
    <2> QED BY <1>2, <2>1, TypeScriptKeeps
<1>3. CASE lang \in {"go", "java"}
    <2>1. d = Code!ResolvePackage(Code!Stored, text[i].what, w) BY <1>3 DEF Code!Resolve
    <2> QED BY <1>3, <2>1, PackageKeeps
<1>4. CASE lang = "rs"
    <2>1. d = Code!ResolveRust(Code!Stored, text[i].what, w, text[i].colons) BY <1>4 DEF Code!Resolve
    <2> QED BY <1>4, <2>1, RustKeeps
<1>5. CASE lang \notin {"py", "ts", "go", "java", "rs"}
    <2>1. d = Code!SameFile(Code!Stored, w, text[i].colons) BY <1>5 DEF Code!Resolve
    <2>2. d.file = 1 /\ d.qname = w BY <2>1, SameFileIs DEF Distinct
    <2> QED BY <2>2 DEF Kept
<1> QED BY <1>1, <1>2, <1>3, <1>4, <1>5

\* A call or an import resolves to a symbol of the name that is written, the
\* file's own before another one's, and else one of the module that the word names.
THEOREM NamesResolve ==
    ASSUME Distinct
    PROVE  Code!Spec /\ Grown(other.text) /\ Elsewhere => []ResolvedAsWritten
<1>1. TextsStand /\ Elsewhere => ResolvedAsWritten
    <2> SUFFICES ASSUME TextsStand, Elsewhere, NEW r \in Code!Relations, r.target # None
                 PROVE  LET n == text[r.node]
                            w == Code!Written(n)
                            f == r.target.file
                            own == \E s \in Code!Stored[1] : s.qname = w
                        IN  /\ Code!Last(r.target.qname) = Code!Last(w)
                            /\ \/ f = 1 /\ r.target.qname = w
                               \/ w[1] = Self /\ f = 1 /\ Code!Front(r.target.qname) = Code!Front(r.source.qname)
                               \/ /\ lang \in {"go", "java"} /\ n.what = "call" /\ ~own
                                  /\ r.target.qname = w /\ Code!Directory(f) = Code!Directory(1)
                               \/ lang = "py" /\ n.what = "import" /\ Code!Module(f) = Code!Front(w)
                               \/ /\ lang \in {"rs", "ts"} /\ n.what = (IF lang = "rs" THEN "call" ELSE "import")
                                  /\ ~own /\ Code!Module(f) = Append(Code!Directory(1), w[Len(w) - 1])
        BY DEF ResolvedAsWritten, Code!ResolvedAsWritten
    <2> DEFINE source == [i \in DOMAIN text |-> Code!SourceQname(text, Code!Chain(text, i))]
    <2>1. ~Code!Clash(Code!Symbols(1)) /\ r \in Code!RelationsOf(Code!Stored, source) BY DEF Code!Relations
    <2>2. PICK i \in DOMAIN text : /\ Code!Recorded(text[i], Code!Written(text[i]), source[i])
              /\ r = [node |-> i, source |-> IF source[i] = <<>> THEN None ELSE Code!Def(Code!Stored, 1, source[i]),
                      target |-> Code!Resolve(Code!Stored, text[i], Code!Written(text[i]), source[i])]
        <3> HIDE DEF source
        <3> QED BY <2>1 DEF Code!RelationsOf
    <2>3. PICK q : q = source[i] /\ q = Code!SourceQname(text, Code!Chain(text, i)) OBVIOUS
    <2> HIDE DEF source
    <2>4. PICK w : w = Code!Written(text[i]) OBVIOUS
    <2>5. PICK d : d = r.target OBVIOUS
    <2>6. r.node = i /\ d = Code!Resolve(Code!Stored, text[i], w, q) /\ d # None BY <2>2, <2>3, <2>4, <2>5
    <2>7. text[i].what \in {"call", "import"} BY <2>2 DEF Code!Recorded
    <2>8. Grown(text) /\ i \in 1..Len(text) BY DEF TextsStand, Grown
    <2>9. q # <<>> => q = r.source.qname
        <3> SUFFICES ASSUME q # <<>> PROVE q = r.source.qname OBVIOUS
        <3>1. \E s \in Code!Stored[1] : s.qname = q BY <2>1, <2>3, <2>8, SourceIs
        <3>2. 1 \in Code!FileNo /\ Grown(Code!Text(1)) BY <2>8 DEF Code!FileNo, Code!Text
        <3>3. Code!Def(Code!Stored, 1, q).qname = q BY <3>1, <3>2, DefIs DEF Distinct
        <3>4. r.source = Code!Def(Code!Stored, 1, q) BY <2>2, <2>3
        <3> QED BY <3>3, <3>4
    <2>10. Nests => q \in Seq(Part)
        <3>1. CASE q = <<>> BY <3>1
        <3>2. CASE q # <<>> BY <2>1, <2>3, <2>8, <3>2, SourceIs
        <3> QED BY <3>1, <3>2
    <2>11. text[i].what = "call" => w # None BY <2>2, <2>4 DEF Code!Recorded
    <2>12. Kept(text[i], w, q, d) BY <2>4, <2>6, <2>7, <2>10, <2>11, ResolversKeep
    <2> QED BY <2>4, <2>5, <2>6, <2>9, <2>12 DEF Kept
<1>2. Elsewhere /\ [Code!Next]_(Code!codeVars) => Elsewhere'
    BY DEF Elsewhere, Code!Next, Code!Write, Code!codeVars
<1>3. Code!Spec /\ Elsewhere => []Elsewhere BY <1>2, PTL DEF Code!Spec
<1> QED BY <1>1, <1>3, Growth, PTL
=============================================================================
