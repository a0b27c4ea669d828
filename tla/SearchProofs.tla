---------------------------- MODULE SearchProofs ----------------------------
(***************************************************************************)
(* What TLAPS proves of Search for any rows, databases, requests, limits   *)
(* and failures: what an answer may show, what the counters may count, and *)
(* that the fusion keeps the order its lists agree on.                     *)
(***************************************************************************)
EXTENDS Search, FiniteSetTheorems, WellFoundedInduction, TLAPS

-----------------------------------------------------------------------------
(* Numbers *)

\* A set of numbers that is not empty has a least member.
LEMMA LeastOf ==
    ASSUME NEW T, T \subseteq Nat, T # {}
    PROVE  \E x \in T : \A y \in T : x <= y
<1> DEFINE R == OpToRel(<, Nat)
<1>1. PICK x \in T : \A y \in T : <<y, x>> \notin R
  <2>1. IsWellFoundedOn(R, Nat)
    BY NatLessThanWellFounded
  <2> HIDE DEF R
  <2> QED BY <2>1, WFMin
<1>2. \A y \in T : ~ (y < x)
  BY <1>1 DEF OpToRel
<1> QED BY <1>2

\* Induction: a set with 0 that has n + 1 when it has n has all numbers.
LEMMA Induct ==
    ASSUME NEW S, 0 \in S, \A n \in Nat : n \in S => n + 1 \in S
    PROVE  \A n \in Nat : n \in S
<1> SUFFICES ASSUME Nat \ S # {} PROVE FALSE
  OBVIOUS
<1>1. PICK x \in Nat \ S : \A y \in Nat \ S : x <= y
  BY LeastOf
<1>2. x # 0 /\ x - 1 \in Nat
  BY <1>1
<1>3. x - 1 \in S
  BY <1>1, <1>2
<1>4. (x - 1) + 1 \in S
  BY <1>2, <1>3
<1> QED BY <1>1, <1>4

\* Sums of a sequence of numbers, from the left.
LEMMA Sums ==
    ASSUME NEW N \in Nat, NEW c \in [1..N -> Nat]
    PROVE  \E f \in [0..N -> Nat] : f = [n \in 0..N |-> IF n = 0 THEN 0 ELSE f[n - 1] + c[n]]
<1> DEFINE Upto(m) == {f \in [0..m -> Nat] : f[0] = 0 /\ \A n \in 1..m : f[n] = f[n - 1] + c[n]}
           S == {m \in Nat : m <= N => Upto(m) # {}}
<1>1. 0 \in S
  <2>1. PICK f : f = [n \in 0..0 |-> 0]
    OBVIOUS
  <2>2. f \in [0..0 -> Nat] /\ f[0] = 0 /\ \A n \in 1..0 : f[n] = f[n - 1] + c[n]
    BY <2>1
  <2>3. Upto(0) # {}
    BY <2>2
  <2> HIDE DEF Upto
  <2> QED BY <2>3
<1>2. ASSUME NEW m \in Nat, m \in S PROVE m + 1 \in S
  <2>1. ASSUME m + 1 <= N PROVE Upto(m + 1) # {}
    <3>1. PICK f \in Upto(m) : TRUE
      BY <1>2, <2>1
    <3>2. PICK h : h = [n \in 0..m + 1 |-> IF n \in 0..m THEN f[n] ELSE f[m] + c[m + 1]]
      OBVIOUS
    <3>3. f[m] \in Nat /\ c[m + 1] \in Nat
      BY <2>1, <3>1
    <3>4. h \in [0..m + 1 -> Nat] /\ h[0] = 0
      BY <3>1, <3>2, <3>3
    <3>5. ASSUME NEW n \in 1..m + 1 PROVE h[n] = h[n - 1] + c[n]
      <4>1. n - 1 \in 0..m /\ h[n - 1] = f[n - 1]
        BY <3>2
      <4>2. CASE n \in 1..m
        BY <3>1, <3>2, <4>1, <4>2
      <4>3. CASE n = m + 1
        BY <3>2, <4>1, <4>3
      <4> QED BY <4>2, <4>3
    <3> QED BY <3>4, <3>5
  <2> HIDE DEF Upto
  <2> QED BY <2>1
<1>3. Upto(N) # {}
  <2> HIDE DEF S
  <2>1. \A m \in Nat : m \in S
    BY <1>1, <1>2, Induct
  <2>2. N \in S /\ N <= N
    BY <2>1
  <2> QED BY <2>2 DEF S
<1>4. PICK f \in Upto(N) : TRUE
  BY <1>3
<1>5. f = [n \in 0..N |-> IF n = 0 THEN 0 ELSE f[n - 1] + c[n]]
  BY <1>4
<1> QED BY <1>4, <1>5

\* A finite set of numbers that is not empty has a greatest member.
LEMMA GreatestOf ==
    ASSUME NEW T, T \subseteq Nat, T # {}, IsFiniteSet(T)
    PROVE  \E x \in T : \A y \in T : y <= x
<1> DEFINE Has(U) == \E x \in U : \A y \in U : y <= x
           S == {n \in Nat : \A U \in SUBSET Nat :
                    IsFiniteSet(U) /\ Cardinality(U) = n /\ U # {} => Has(U)}
<1>0. 0 \in S
  <2>1. \A U \in SUBSET Nat : ~ (IsFiniteSet(U) /\ Cardinality(U) = 0 /\ U # {})
    BY FS_EmptySet
  <2> HIDE DEF Has
  <2> QED BY <2>1
<1>2. ASSUME NEW n \in Nat, n \in S PROVE n + 1 \in S
  <2> SUFFICES ASSUME NEW U \in SUBSET Nat, IsFiniteSet(U), Cardinality(U) = n + 1, U # {}
               PROVE  \E x \in U : \A y \in U : y <= x
    OBVIOUS
  <2>1. PICK u \in U : TRUE
    OBVIOUS
  <2>2. PICK V : V = U \ {u}
    OBVIOUS
  <2>6. IsFiniteSet(U \ {u}) /\ Cardinality(U \ {u}) = Cardinality(U) - 1
    BY <2>1, FS_RemoveElement
  <2>3. V \in SUBSET Nat /\ IsFiniteSet(V) /\ Cardinality(V) = n
    BY <2>2, <2>6
  <2>4. CASE V = {}
    BY <2>1, <2>2, <2>4
  <2>5. CASE V # {}
    <3>1. PICK x \in V : \A y \in V : y <= x
      BY <1>2, <2>3, <2>5
    <3> QED BY <2>1, <2>2, <3>1
  <2> QED BY <2>4, <2>5
<1> HIDE DEF S
<1>3. \A n \in Nat : n \in S
  BY <1>0, <1>2, Induct
<1>4. Cardinality(T) \in Nat
  BY FS_CardinalityType
<1> QED BY <1>3, <1>4 DEF S

\* Division by a positive number: the greatest quotient that is not too large.
LEMMA DivIs ==
    ASSUME NEW a \in Int, NEW k \in Nat \ {0}
    PROVE  a \div k \in Int /\ k * (a \div k) <= a /\ a < k * (a \div k) + k
OBVIOUS

LEMMA TimesMono ==
    ASSUME NEW x \in Int, NEW y \in Int, NEW k \in Nat, x <= y
    PROVE  k * x <= k * y
OBVIOUS

LEMMA DivBest ==
    ASSUME NEW a \in Int, NEW k \in Nat \ {0}, NEW q \in Int, k * q <= a
    PROVE  q <= a \div k
<1>1. PICK p : p = a \div k
  OBVIOUS
<1>2. p \in Int /\ k * p <= a /\ a < k * p + k
  BY <1>1, DivIs
<1>3. SUFFICES ASSUME p + 1 <= q PROVE FALSE
  BY <1>1, <1>2
<1>4. k * (p + 1) <= k * q
  BY <1>2, <1>3, TimesMono
<1>5. k * (p + 1) = k * p + k
  BY <1>2
<1>6. k * p \in Int /\ k * q \in Int
  BY <1>2
<1> QED BY <1>2, <1>4, <1>5, <1>6

\* It grows with the dividend, and not with the divisor.
LEMMA DivMono ==
    ASSUME NEW a \in Int, NEW b \in Int, NEW k \in Nat \ {0}, a <= b
    PROVE  a \div k <= b \div k
<1>1. a \div k \in Int /\ k * (a \div k) <= a
  BY DivIs
<1>2. k * (a \div k) <= b
  BY <1>1
<1> QED BY <1>1, <1>2, DivBest

LEMMA DivDown ==
    ASSUME NEW a \in Nat, NEW k \in Nat \ {0}
    PROVE  a \div k \in Nat /\ a \div (k + 1) <= a \div k
<1>1. 0 <= a \div k
  <2>1. k * 0 <= a
    OBVIOUS
  <2> QED BY <2>1, DivBest
<1>2. PICK q : q = a \div (k + 1)
  OBVIOUS
<1>3. q \in Int /\ (k + 1) * q <= a /\ 0 <= q
  <2>1. k + 1 \in Nat \ {0} /\ (k + 1) * 0 <= a
    OBVIOUS
  <2>2. 0 <= q
    BY <1>2, <2>1, DivBest
  <2> QED BY <1>2, <2>1, <2>2, DivIs
<1>4. k * q <= a
  <2>1. (k + 1) * q = k * q + q
    BY <1>3
  <2> QED BY <1>3, <2>1
<1>5. q <= a \div k
  BY <1>3, <1>4, DivBest
<1> QED BY <1>1, <1>2, <1>5, DivIs

-----------------------------------------------------------------------------
(* Sets in order *)

\* When a finite set is totally ordered, one member is at each place: as many
\* members are before it as there are places.
LEMMA EachPlace ==
    ASSUME NEW S, IsFiniteSet(S), NEW R,
           \A x \in S : <<x, x>> \notin R,
           \A x, y, z \in S : <<x, y>> \in R /\ <<y, z>> \in R => <<x, z>> \in R,
           \A x, y \in S : x # y => <<x, y>> \in R \/ <<y, x>> \in R
    PROVE  \A i \in 1..Cardinality(S) : \E c \in S : Cardinality({b \in S : <<b, c>> \in R}) = i - 1
<1>1. PICK n : n = Cardinality(S)
  OBVIOUS
<1> DEFINE Under(c) == {b \in S : <<b, c>> \in R}
<1>2. n \in Nat
  BY <1>1, FS_CardinalityType
<1>3. ASSUME NEW c \in S PROVE Cardinality(Under(c)) \in 0..n - 1
  <2>1. IsFiniteSet(Under(c)) /\ Cardinality(Under(c)) <= n
    BY <1>1, FS_Subset
  <2>2. Cardinality(Under(c)) # n
    <3>1. Under(c) # S
      OBVIOUS
    <3> QED BY <1>1, <3>1, FS_Subset
  <2>3. Cardinality(Under(c)) \in Nat
    BY <2>1, FS_CardinalityType
  <2> QED BY <1>2, <2>1, <2>2, <2>3
<1>4. ASSUME NEW b \in S, NEW c \in S, <<b, c>> \in R
      PROVE  Cardinality(Under(b)) < Cardinality(Under(c))
  <2>1. Under(b) \subseteq Under(c) /\ Under(b) # Under(c)
    BY <1>4
  <2>2. IsFiniteSet(Under(c))
    BY FS_Subset
  <2>3. Cardinality(Under(b)) <= Cardinality(Under(c)) /\ Cardinality(Under(b)) # Cardinality(Under(c))
    <3> HIDE DEF Under
    <3> QED BY <2>1, <2>2, FS_Subset
  <2>4. Cardinality(Under(b)) \in 0..n - 1 /\ Cardinality(Under(c)) \in 0..n - 1
    BY <1>3
  <2> HIDE DEF Under
  <2> QED BY <1>2, <2>3, <2>4
<1> HIDE DEF Under
<1>5. PICK f : f = [c \in S |-> Cardinality(Under(c))]
  OBVIOUS
<1>6. f \in Injection(S, 0..n - 1)
  <2>1. f \in [S -> 0..n - 1]
    BY <1>3, <1>5
  <2>2. ASSUME NEW b \in S, NEW c \in S, b # c PROVE f[b] # f[c]
    <3>1. Cardinality(Under(b)) \in 0..n - 1 /\ Cardinality(Under(c)) \in 0..n - 1
      BY <1>3
    <3>2. Cardinality(Under(b)) < Cardinality(Under(c)) \/ Cardinality(Under(c)) < Cardinality(Under(b))
      BY <1>4, <2>2
    <3> QED BY <1>2, <1>5, <3>1, <3>2
  <2> QED BY <2>1, <2>2 DEF Injection, IsInjective
<1>7. IsFiniteSet(0..n - 1) /\ Cardinality(0..n - 1) = n
  <2>1. 0 \in Int /\ n - 1 \in Int
    BY <1>2
  <2>2. /\ IsFiniteSet(0..n - 1)
        /\ Cardinality(0..n - 1) = IF 0 > n - 1 THEN 0 ELSE (n - 1) - 0 + 1
    BY <2>1, FS_Interval
  <2> QED BY <1>2, <2>2
<1>8. f \in Surjection(S, 0..n - 1)
  BY <1>1, <1>6, <1>7, FS_Injection
<1>9. ASSUME NEW i \in 1..n PROVE \E c \in S : Cardinality(Under(c)) = i - 1
  <2>1. i - 1 \in 0..n - 1
    BY <1>2
  <2> QED BY <1>5, <1>8, <2>1 DEF Surjection
<1> QED BY <1>1, <1>9 DEF Under

\* How often a row is listed; behind one list comes another.
LEMMA RanksAdd ==
    ASSUME NEW b \in Seq(Row), NEW s \in Seq(Row), NEW r
    PROVE  /\ Cardinality(Ranks(b, r)) \in Nat /\ Cardinality(Ranks(s, r)) \in Nat
           /\ Cardinality(Ranks(b \o s, r)) = Cardinality(Ranks(b, r)) + Cardinality(Ranks(s, r))
<1>1. ASSUME NEW t \in Seq(Row) PROVE IsFiniteSet(Ranks(t, r)) /\ Cardinality(Ranks(t, r)) \in Nat
  <2>1. IsFiniteSet(1..Len(t))
    BY FS_Interval
  <2>2. Ranks(t, r) \in SUBSET (1..Len(t))
    BY DEF Ranks
  <2>3. IsFiniteSet(Ranks(t, r))
    BY <2>1, <2>2, FS_Subset
  <2> QED BY <2>3, FS_CardinalityType
<1>2. PICK T : T = {Len(b) + i : i \in Ranks(s, r)}
  OBVIOUS
<1>3. IsFiniteSet(T) /\ Cardinality(T) = Cardinality(Ranks(s, r))
  <2>1. PICK f : f = [i \in Ranks(s, r) |-> Len(b) + i]
    OBVIOUS
  <2>2. Ranks(s, r) \subseteq Nat /\ Len(b) \in Nat
    BY DEF Ranks
  <2>3. f \in Bijection(Ranks(s, r), T)
    BY <1>2, <2>1, <2>2 DEF Bijection, Injection, IsInjective, Surjection
  <2>4. ExistsBijection(Ranks(s, r), T)
    BY <2>3 DEF ExistsBijection
  <2> QED BY <1>1, <2>4, FS_Bijection
<1>4. Ranks(b \o s, r) = Ranks(b, r) \cup T
  <2>1. /\ Len(b \o s) = Len(b) + Len(s) /\ Len(b) \in Nat /\ Len(s) \in Nat
        /\ \A i \in 1..Len(b) + Len(s) : (b \o s)[i] = IF i <= Len(b) THEN b[i] ELSE s[i - Len(b)]
    OBVIOUS
  <2>2. ASSUME NEW i \in Ranks(b \o s, r) PROVE i \in Ranks(b, r) \cup T
    <3>1. i \in 1..Len(b) + Len(s) /\ (b \o s)[i] = r
      BY <2>1 DEF Ranks
    <3>2. CASE i <= Len(b)
      BY <2>1, <3>1, <3>2 DEF Ranks
    <3>3. CASE ~(i <= Len(b))
      <4>1. i - Len(b) \in Ranks(s, r) /\ Len(b) + (i - Len(b)) = i
        BY <2>1, <3>1, <3>3 DEF Ranks
      <4> QED BY <1>2, <4>1
    <3> QED BY <3>2, <3>3
  <2>3. ASSUME NEW i \in Ranks(b, r) \cup T PROVE i \in Ranks(b \o s, r)
    <3>1. CASE i \in Ranks(b, r)
      BY <2>1, <3>1 DEF Ranks
    <3>2. CASE i \in T
      <4>1. PICK j \in Ranks(s, r) : i = Len(b) + j
        BY <1>2, <3>2
      <4>2. j \in 1..Len(s) /\ s[j] = r
        BY DEF Ranks
      <4> QED BY <2>1, <4>1, <4>2 DEF Ranks
    <3> QED BY <3>1, <3>2
  <2> QED BY <2>2, <2>3
<1>5. Ranks(b, r) \cap T = {}
  <2>1. \A i \in Ranks(b, r) : i <= Len(b)
    BY DEF Ranks
  <2>2. \A i \in T : i > Len(b)
    BY <1>2 DEF Ranks
  <2>3. \A i \in Ranks(b, r) : i \in Nat /\ Len(b) \in Nat
    BY DEF Ranks
  <2> QED BY <2>1, <2>2, <2>3
<1>6. Cardinality(Ranks(b \o s, r)) = Cardinality(Ranks(b, r)) + Cardinality(T) - Cardinality({})
  BY <1>1, <1>3, <1>4, <1>5, FS_Union
<1> QED BY <1>1, <1>3, <1>6, FS_EmptySet

-----------------------------------------------------------------------------
(* Scores *)

\* The share of a place in a list.
At(w, n) == (w * 100000) \div (60 + n)

LEMMA SharesFall ==
    ASSUME NEW w \in Nat, NEW n \in Nat
    PROVE  At(w, n) \in Nat /\ At(w, n + 1) <= At(w, n)
<1>1. PICK a : a = w * 100000
  OBVIOUS
<1>2. PICK k : k = 60 + n
  OBVIOUS
<1>3. a \in Nat /\ k \in Nat \ {0} /\ 60 + (n + 1) = k + 1
  BY <1>1, <1>2
<1>4. a \div k \in Nat /\ a \div (k + 1) <= a \div k
  BY <1>3, DivDown
<1> QED BY <1>1, <1>2, <1>3, <1>4 DEF At

\* What a row gets from a list is the sum of the shares of its places.
SumUp(f, w, s, r) ==
    /\ f \in [0..Len(s) -> Nat] /\ f[0] = 0
    /\ \A n \in 1..Len(s) : f[n] = f[n - 1] + IF s[n] = r THEN At(w, n) ELSE 0

LEMMA ShareIs ==
    ASSUME NEW w \in Nat, NEW s \in Seq(Row), NEW r
    PROVE  \E f : SumUp(f, w, s, r) /\ Share(w, s, r) = f[Len(s)]
<1>1. PICK c : c = [n \in 1..Len(s) |-> IF s[n] = r THEN At(w, n) ELSE 0]
  OBVIOUS
<1>2. c \in [1..Len(s) -> Nat] /\ Len(s) \in Nat
  <2>1. ASSUME NEW n \in 1..Len(s) PROVE At(w, n) \in Nat
    <3>1. n \in Nat
      OBVIOUS
    <3> QED BY <3>1, SharesFall
  <2> QED BY <1>1, <2>1
<1> DEFINE Good(f) == f = [n \in 0..Len(s) |->
              IF n = 0 THEN 0 ELSE f[n - 1] + IF s[n] = r THEN At(w, n) ELSE 0]
<1>3. PICK g \in [0..Len(s) -> Nat] : g = [n \in 0..Len(s) |-> IF n = 0 THEN 0 ELSE g[n - 1] + c[n]]
  BY <1>2, Sums
<1>4. Good(g)
  <2>1. \A n \in 0..Len(s) : n # 0 => c[n] = IF s[n] = r THEN At(w, n) ELSE 0
    BY <1>1, <1>2
  <2> QED BY <1>3, <2>1
<1>5. PICK f : f = CHOOSE h : Good(h)
  OBVIOUS
<1>6. Good(f)
  <2> HIDE DEF Good
  <2> QED BY <1>4, <1>5
<1>7. Share(w, s, r) = f[Len(s)]
  BY <1>5 DEF Share, At
<1>8. /\ f[0] = 0 /\ DOMAIN f = 0..Len(s)
      /\ \A n \in 1..Len(s) : f[n] = f[n - 1] + IF s[n] = r THEN At(w, n) ELSE 0
  <2>1. f = [n \in 0..Len(s) |-> IF n = 0 THEN 0 ELSE f[n - 1] + IF s[n] = r THEN At(w, n) ELSE 0]
    BY <1>6
  <2> QED BY <1>2, <2>1
<1>9. \A n \in 0..Len(s) : f[n] \in Nat
  <2> DEFINE S == {n \in Nat : n <= Len(s) => f[n] \in Nat}
  <2>1. 0 \in S
    BY <1>8
  <2>2. ASSUME NEW n \in Nat, n \in S PROVE n + 1 \in S
    <3> SUFFICES ASSUME n + 1 <= Len(s) PROVE f[n + 1] \in Nat
      OBVIOUS
    <3>1. n + 1 \in 1..Len(s) /\ (n + 1) - 1 = n /\ f[n] \in Nat
      BY <1>2, <2>2
    <3>2. At(w, n + 1) \in Nat
      <4>1. PICK m \in Nat : m = n + 1
        OBVIOUS
      <4> QED BY <4>1, SharesFall
    <3> QED BY <1>8, <3>1, <3>2
  <2> HIDE DEF S
  <2>3. \A n \in Nat : n \in S
    BY <2>1, <2>2, Induct
  <2> QED BY <1>2, <2>3 DEF S
<1>10. f \in [0..Len(s) -> Nat]
  <2>1. f = [n \in 0..Len(s) |-> f[n]]
    BY <1>6
  <2> QED BY <1>9, <2>1
<1> QED BY <1>7, <1>8, <1>10 DEF SumUp

\* One more place: the lead of one row over another in shares stays worth their
\* lead in places, at what the place is worth.
LEMMA LeadStep ==
    ASSUME NEW x \in Int, NEW w \in Nat, NEW v \in Nat, v <= w,
           NEW d \in Nat, NEW e \in {-1, 0, 1}, w * d <= x
    PROVE  v * (d + e) <= x + (IF e = 1 THEN v ELSE IF e = 0 THEN 0 ELSE -v)
<1>1. v * d <= w * d
  <2>1. d * v <= d * w
    BY TimesMono
  <2>2. d * v = v * d /\ d * w = w * d
    OBVIOUS
  <2> QED BY <2>1, <2>2
<1>2. v * (d + e) = v * d + (IF e = 1 THEN v ELSE IF e = 0 THEN 0 ELSE -v)
  <2>1. CASE e = 1
    BY <2>1
  <2>2. CASE e = 0
    BY <2>2
  <2>3. CASE e = -1
    BY <2>3
  <2> QED BY <2>1, <2>2, <2>3
<1>3. v * d \in Int /\ w * d \in Int
  OBVIOUS
<1> QED BY <1>1, <1>2, <1>3

\* How often a row is listed up to a place.
LEMMA ListedType ==
    ASSUME NEW s, NEW r, NEW n \in Nat
    PROVE  IsFiniteSet({i \in 1..n : s[i] = r}) /\ Listed(s, r, n) \in Nat
<1>1. PICK P : P = {i \in 1..n : s[i] = r}
  OBVIOUS
<1>2. IsFiniteSet(1..n) /\ P \in SUBSET (1..n)
  BY <1>1, FS_Interval
<1>3. IsFiniteSet(P) /\ Cardinality(P) \in Nat
  BY <1>2, FS_Subset, FS_CardinalityType
<1> QED BY <1>1, <1>3 DEF Listed

LEMMA ListedFirst == \A s, r : Listed(s, r, 0) = 0
<1> SUFFICES ASSUME NEW s, NEW r PROVE Listed(s, r, 0) = 0
  OBVIOUS
<1>1. {i \in 1..0 : s[i] = r} = {}
  OBVIOUS
<1> QED BY <1>1, FS_EmptySet DEF Listed

LEMMA ListedNext ==
    ASSUME NEW s, NEW r, NEW n \in Nat
    PROVE  Listed(s, r, n + 1) = Listed(s, r, n) + IF s[n + 1] = r THEN 1 ELSE 0
<1>1. PICK P : P = {i \in 1..n : s[i] = r}
  OBVIOUS
<1>2. IsFiniteSet(P)
  BY <1>1, ListedType
<1>3. {i \in 1..n + 1 : s[i] = r} = IF s[n + 1] = r THEN P \cup {n + 1} ELSE P
  BY <1>1
<1>4. n + 1 \notin P
  BY <1>1
<1>5. Cardinality(P) \in Nat /\ Cardinality(P \cup {n + 1}) = Cardinality(P) + 1
  BY <1>2, <1>4, FS_AddElement, FS_CardinalityType
<1>6. Listed(s, r, n) = Cardinality(P)
  BY <1>1 DEF Listed
<1>7. Listed(s, r, n + 1) = IF s[n + 1] = r THEN Cardinality(P \cup {n + 1}) ELSE Cardinality(P)
  BY <1>3 DEF Listed
<1> QED BY <1>5, <1>6, <1>7

\* A row that is ahead of another in a list gets as much from it.
LEMMA AheadGetsMore ==
    ASSUME NEW w \in Nat, NEW s \in Seq(Row), NEW a, NEW b, Ahead(s, a, b)
    PROVE  Share(w, s, b) \in Nat /\ Share(w, s, a) \in Nat /\ Share(w, s, b) <= Share(w, s, a)
<1>a. PICK f : SumUp(f, w, s, a) /\ Share(w, s, a) = f[Len(s)]
  BY ShareIs
<1>b. PICK g : SumUp(g, w, s, b) /\ Share(w, s, b) = g[Len(s)]
  BY ShareIs
<1>1. /\ f \in [0..Len(s) -> Nat] /\ f[0] = 0
      /\ \A n \in 1..Len(s) : f[n] = f[n - 1] + IF s[n] = a THEN At(w, n) ELSE 0
  BY <1>a DEF SumUp
<1>2. /\ g \in [0..Len(s) -> Nat] /\ g[0] = 0
      /\ \A n \in 1..Len(s) : g[n] = g[n - 1] + IF s[n] = b THEN At(w, n) ELSE 0
  BY <1>b DEF SumUp
<1>3. Len(s) \in Nat
  OBVIOUS
<1>4. \A n \in 0..Len(s) : Listed(s, b, n) <= Listed(s, a, n)
  <2>1. \A n \in 1..Len(s) : Listed(s, b, n) <= Listed(s, a, n)
    BY DEF Ahead
  <2>2. Listed(s, b, 0) = 0 /\ Listed(s, a, 0) = 0
    BY ListedFirst
  <2> QED BY <1>3, <2>1, <2>2
<1> DEFINE S == {n \in Nat : n <= Len(s) =>
                   At(w, n) * (Listed(s, a, n) - Listed(s, b, n)) <= f[n] - g[n]}
<1>5. 0 \in S
  <2>1. PICK z \in Nat : z = 0
    OBVIOUS
  <2>3. Listed(s, a, 0) = 0 /\ Listed(s, b, 0) = 0 /\ At(w, z) \in Nat
    BY ListedFirst, SharesFall
  <2>2. At(w, 0) * (Listed(s, a, 0) - Listed(s, b, 0)) = 0
    BY <2>1, <2>3
  <2> QED BY <1>1, <1>2, <2>2
<1>6. ASSUME NEW n \in Nat, n \in S PROVE n + 1 \in S
  <2> SUFFICES ASSUME n + 1 <= Len(s)
               PROVE  At(w, n + 1) * (Listed(s, a, n + 1) - Listed(s, b, n + 1)) <= f[n + 1] - g[n + 1]
    OBVIOUS
  <2>1. PICK d : d = Listed(s, a, n) - Listed(s, b, n)
    OBVIOUS
  <2>2. PICK x : x = f[n] - g[n]
    OBVIOUS
  <2>3. PICK e : e = (IF s[n + 1] = a THEN 1 ELSE 0) - (IF s[n + 1] = b THEN 1 ELSE 0)
    OBVIOUS
  <2>4. PICK v : v = At(w, n + 1)
    OBVIOUS
  <2>5. n \in 0..Len(s) /\ n + 1 \in 1..Len(s) /\ (n + 1) - 1 = n
    BY <1>3
  <2>6. d \in Nat /\ e \in {-1, 0, 1} /\ x \in Int
    <3>1. Listed(s, a, n) \in Nat /\ Listed(s, b, n) \in Nat /\ Listed(s, b, n) <= Listed(s, a, n)
      BY <1>4, <2>5, ListedType
    <3>2. f[n] \in Nat /\ g[n] \in Nat
      BY <1>1, <1>2, <2>5
    <3> QED BY <2>1, <2>2, <2>3, <3>1, <3>2
  <2>7. v \in Nat /\ At(w, n) \in Nat /\ v <= At(w, n)
    <3>1. PICK m : m = n + 1
      OBVIOUS
    <3>2. m \in Nat /\ v = At(w, m)
      BY <2>4, <3>1
    <3>3. v \in Nat /\ At(w, n) \in Nat
      BY <3>2, SharesFall
    <3> QED BY <2>4, <3>3, SharesFall
  <2>8. At(w, n) * d <= x
    BY <1>6, <2>1, <2>2, <2>5
  <2>9. v * (d + e) <= x + (IF e = 1 THEN v ELSE IF e = 0 THEN 0 ELSE -v)
    BY <2>6, <2>7, <2>8, LeadStep
  <2>10. Listed(s, a, n + 1) - Listed(s, b, n + 1) = d + e
    <3>1. /\ Listed(s, a, n) \in Nat /\ Listed(s, b, n) \in Nat
          /\ Listed(s, a, n + 1) = Listed(s, a, n) + IF s[n + 1] = a THEN 1 ELSE 0
          /\ Listed(s, b, n + 1) = Listed(s, b, n) + IF s[n + 1] = b THEN 1 ELSE 0
      BY ListedType, ListedNext
    <3> QED BY <2>1, <2>3, <3>1
  <2>11. f[n + 1] - g[n + 1] = x + (IF e = 1 THEN v ELSE IF e = 0 THEN 0 ELSE -v)
    <3>1. /\ f[n + 1] = f[n] + IF s[n + 1] = a THEN v ELSE 0
          /\ g[n + 1] = g[n] + IF s[n + 1] = b THEN v ELSE 0
          /\ f[n] \in Nat /\ g[n] \in Nat
      BY <1>1, <1>2, <2>4, <2>5
    <3> QED BY <2>2, <2>3, <2>7, <3>1
  <2> QED BY <2>4, <2>9, <2>10, <2>11
<1> HIDE DEF S
<1>7. \A n \in Nat : n \in S
  BY <1>5, <1>6, Induct
<1>8. At(w, Len(s)) * (Listed(s, a, Len(s)) - Listed(s, b, Len(s))) <= f[Len(s)] - g[Len(s)]
  BY <1>3, <1>7 DEF S
<1>9. 0 <= At(w, Len(s)) * (Listed(s, a, Len(s)) - Listed(s, b, Len(s)))
  <2>1. At(w, Len(s)) \in Nat
    BY <1>3, SharesFall
  <2>2. Listed(s, a, Len(s)) - Listed(s, b, Len(s)) \in Nat
    <3>1. Listed(s, a, Len(s)) \in Nat /\ Listed(s, b, Len(s)) \in Nat
      BY <1>3, ListedType
    <3> QED BY <1>3, <1>4, <3>1
  <2> QED BY <2>1, <2>2
<1>10. f[Len(s)] \in Nat /\ g[Len(s)] \in Nat
  BY <1>1, <1>2, <1>3
<1>11. g[Len(s)] <= f[Len(s)]
  <2>1. PICK y : y = At(w, Len(s)) * (Listed(s, a, Len(s)) - Listed(s, b, Len(s)))
    OBVIOUS
  <2>2. y \in Int
    <3>1. At(w, Len(s)) \in Nat /\ Listed(s, a, Len(s)) \in Nat /\ Listed(s, b, Len(s)) \in Nat
      BY <1>3, ListedType, SharesFall
    <3> QED BY <2>1, <3>1
  <2> QED BY <1>8, <1>9, <1>10, <2>1, <2>2
<1> QED BY <1>a, <1>b, <1>10, <1>11

\* A row that is ahead of another in every list is fused as high.
LEMMA FusedIsNat ==
    ASSUME NEW L \in Lists, NEW r
    PROVE  Fused(L, r) \in Nat
<1>1. /\ L.fts \in Seq(Row) /\ L.chunkFts \in Seq(Row) /\ L.vec \in Seq(Row)
      /\ L.chunkVec \in Seq(Row) /\ L.graph \in Seq(Row)
  BY DEF Lists
<1>2. 10 \in Nat /\ 7 \in Nat /\ VectorWeight \in Nat
  BY Numbers DEF VectorWeight, Larger
<1>3. ASSUME NEW w \in Nat, NEW s \in Seq(Row) PROVE Share(w, s, r) \in Nat
  <2>1. PICK f : SumUp(f, w, s, r) /\ Share(w, s, r) = f[Len(s)]
    BY ShareIs
  <2>2. Len(s) \in 0..Len(s) /\ f \in [0..Len(s) -> Nat]
    BY <2>1 DEF SumUp
  <2> QED BY <2>1, <2>2
<1>4. /\ Share(10, L.fts, r) \in Nat /\ Share(10, L.chunkFts, r) \in Nat /\ Share(7, L.graph, r) \in Nat
      /\ Share(VectorWeight, L.vec, r) \in Nat /\ Share(VectorWeight, L.chunkVec, r) \in Nat
  BY <1>1, <1>2, <1>3
<1> QED BY <1>4 DEF Fused

LEMMA FusedIsHigher ==
    ASSUME NEW L \in Lists, NEW a, NEW b, \A c \in DOMAIN L : Ahead(L[c], a, b)
    PROVE  Fused(L, b) <= Fused(L, a)
<1>1. /\ L.fts \in Seq(Row) /\ L.chunkFts \in Seq(Row) /\ L.vec \in Seq(Row)
      /\ L.chunkVec \in Seq(Row) /\ L.graph \in Seq(Row)
  BY DEF Lists
<1>2. /\ Ahead(L.fts, a, b) /\ Ahead(L.chunkFts, a, b) /\ Ahead(L.vec, a, b)
      /\ Ahead(L.chunkVec, a, b) /\ Ahead(L.graph, a, b)
  BY DEF Lists
<1>3. 10 \in Nat /\ 7 \in Nat /\ VectorWeight \in Nat
  BY Numbers DEF VectorWeight, Larger
<1>4. ASSUME NEW w \in Nat, NEW s \in Seq(Row), Ahead(s, a, b)
      PROVE  Share(w, s, b) \in Nat /\ Share(w, s, a) \in Nat /\ Share(w, s, b) <= Share(w, s, a)
  BY <1>4, AheadGetsMore
<1>5. /\ Share(10, L.fts, b) \in Nat /\ Share(10, L.fts, a) \in Nat
      /\ Share(10, L.fts, b) <= Share(10, L.fts, a)
  BY <1>1, <1>2, <1>4
<1>6. /\ Share(10, L.chunkFts, b) \in Nat /\ Share(10, L.chunkFts, a) \in Nat
      /\ Share(10, L.chunkFts, b) <= Share(10, L.chunkFts, a)
  BY <1>1, <1>2, <1>4
<1>7. /\ Share(7, L.graph, b) \in Nat /\ Share(7, L.graph, a) \in Nat
      /\ Share(7, L.graph, b) <= Share(7, L.graph, a)
  BY <1>1, <1>2, <1>4
<1>8. /\ Share(VectorWeight, L.vec, b) \in Nat /\ Share(VectorWeight, L.vec, a) \in Nat
      /\ Share(VectorWeight, L.vec, b) <= Share(VectorWeight, L.vec, a)
  BY <1>1, <1>2, <1>3, <1>4
<1>9. /\ Share(VectorWeight, L.chunkVec, b) \in Nat /\ Share(VectorWeight, L.chunkVec, a) \in Nat
      /\ Share(VectorWeight, L.chunkVec, b) <= Share(VectorWeight, L.chunkVec, a)
  BY <1>1, <1>2, <1>3, <1>4
<1> QED BY <1>5, <1>6, <1>7, <1>8, <1>9 DEF Fused

\* The rows a query found are finitely many, and in their lists.
LEMMA NamedAre ==
    ASSUME NEW L \in Lists
    PROVE  /\ Joined(L) \in Seq(Row) /\ Named(L) \subseteq Row /\ IsFiniteSet(Named(L))
           /\ Named(L) = UNION {ToSet(L[c]) : c \in DOMAIN L}
<1>1. /\ L.fts \in Seq(Row) /\ L.chunkFts \in Seq(Row) /\ L.vec \in Seq(Row)
      /\ L.chunkVec \in Seq(Row) /\ L.graph \in Seq(Row)
  BY DEF Lists
<1>2. ASSUME NEW s \in Seq(Row), NEW t \in Seq(Row)
      PROVE  s \o t \in Seq(Row) /\ ToSet(s \o t) = ToSet(s) \cup ToSet(t)
  <2>1. /\ s \o t \in Seq(Row) /\ Len(s \o t) = Len(s) + Len(t) /\ Len(s) \in Nat /\ Len(t) \in Nat
        /\ \A i \in 1..Len(s) + Len(t) : (s \o t)[i] = IF i <= Len(s) THEN s[i] ELSE t[i - Len(s)]
    OBVIOUS
  <2>2. ASSUME NEW x \in ToSet(s \o t) PROVE x \in ToSet(s) \cup ToSet(t)
    <3>1. PICK i \in 1..Len(s) + Len(t) : x = (s \o t)[i]
      BY <2>1 DEF ToSet
    <3>2. CASE i <= Len(s)
      BY <2>1, <3>1, <3>2 DEF ToSet
    <3>3. CASE ~(i <= Len(s))
      <4>1. i - Len(s) \in 1..Len(t) /\ x = t[i - Len(s)]
        BY <2>1, <3>1, <3>3
      <4> QED BY <4>1 DEF ToSet
    <3> QED BY <3>2, <3>3
  <2>3. ASSUME NEW x \in ToSet(s) PROVE x \in ToSet(s \o t)
    <3>1. PICK i \in 1..Len(s) : x = s[i]
      BY DEF ToSet
    <3>2. i \in 1..Len(s \o t) /\ (s \o t)[i] = x
      BY <2>1, <3>1
    <3> QED BY <2>1, <3>2 DEF ToSet
  <2>4. ASSUME NEW x \in ToSet(t) PROVE x \in ToSet(s \o t)
    <3>1. PICK i \in 1..Len(t) : x = t[i]
      BY DEF ToSet
    <3>2. PICK j : j = Len(s) + i
      OBVIOUS
    <3>3. j \in 1..Len(s \o t) /\ (s \o t)[j] = x
      BY <2>1, <3>1, <3>2
    <3> QED BY <2>1, <3>3 DEF ToSet
  <2> QED BY <2>1, <2>2, <2>3, <2>4
<1>3. PICK s : s = L.fts \o L.chunkFts
  OBVIOUS
<1>4. PICK t : t = s \o L.vec
  OBVIOUS
<1>5. PICK u : u = t \o L.chunkVec
  OBVIOUS
<1>6. s \in Seq(Row) /\ ToSet(s) = ToSet(L.fts) \cup ToSet(L.chunkFts)
  BY <1>1, <1>2, <1>3
<1>7. t \in Seq(Row) /\ ToSet(t) = ToSet(s) \cup ToSet(L.vec)
  BY <1>1, <1>2, <1>4, <1>6
<1>8. u \in Seq(Row) /\ ToSet(u) = ToSet(t) \cup ToSet(L.chunkVec)
  BY <1>1, <1>2, <1>5, <1>7
<1>9. Joined(L) = u \o L.graph
  BY <1>3, <1>4, <1>5 DEF Joined
<1>10. Joined(L) \in Seq(Row) /\ Named(L) = ToSet(u) \cup ToSet(L.graph)
  BY <1>1, <1>2, <1>8, <1>9 DEF Named
<1>11. DOMAIN L = {"fts", "chunkFts", "vec", "chunkVec", "graph"}
  BY DEF Lists
<1>12. UNION {ToSet(L[c]) : c \in DOMAIN L}
          = ToSet(L.fts) \cup ToSet(L.chunkFts) \cup ToSet(L.vec) \cup ToSet(L.chunkVec) \cup ToSet(L.graph)
  BY <1>11
<1>13. Named(L) = UNION {ToSet(L[c]) : c \in DOMAIN L}
  BY <1>6, <1>7, <1>8, <1>10, <1>12
<1>14. Named(L) \subseteq Row
  BY <1>10 DEF Named, ToSet
<1>15. IsFiniteSet(Named(L))
  BY <1>14, Rows, FS_Subset
<1> QED BY <1>10, <1>13, <1>14, <1>15

\* What the relevance is divided by: positive.  A row fused as high as another and
\* boosted as much scores as high.
Span(f, S) == IF Max({f[q] : q \in S}) > Min({f[q] : q \in S})
              THEN Max({f[q] : q \in S}) - Min({f[q] : q \in S}) ELSE 100000

LEMMA SpanIsPositive ==
    ASSUME NEW S, S # {}, IsFiniteSet(S), NEW f \in [S -> Nat]
    PROVE  Span(f, S) \in Nat \ {0} /\ Min({f[q] : q \in S}) \in Nat
<1>1. PICK T : T = {f[q] : q \in S}
  OBVIOUS
<1>2. T \subseteq Nat /\ T # {}
  BY <1>1
<1>3. IsFiniteSet(T)
  <2>1. f \in Surjection(S, T)
    BY <1>1 DEF Surjection
  <2> QED BY <2>1, FS_Surjection
<1>4. Max(T) \in Nat
  <2>1. \E x \in T : \A y \in T : y <= x
    BY <1>2, <1>3, GreatestOf
  <2>2. \E x \in T : \A y \in T : x >= y
    BY <1>2, <2>1
  <2>3. Max(T) \in T
    BY <2>2 DEF Max
  <2> QED BY <1>2, <2>3
<1>5. Min(T) \in Nat
  <2>1. \E x \in T : \A y \in T : x <= y
    BY <1>2, LeastOf
  <2>2. Min(T) \in T
    BY <2>1 DEF Min
  <2> QED BY <1>2, <2>2
<1>6. Span(f, S) = IF Max(T) > Min(T) THEN Max(T) - Min(T) ELSE 100000
  BY <1>1 DEF Span
<1> QED BY <1>1, <1>4, <1>5, <1>6

LEMMA ScoreIs ==
    ASSUME NEW L \in Lists, NEW r \in Named(L), NEW d
    PROVE  /\ Score(L, r, d) \in Int
           /\ \A q \in Named(L) : Fused(L, q) <= Fused(L, r) /\ Bonus[q] <= Bonus[r]
                 => Score(L, q, d) <= Score(L, r, d)
<1>1. PICK f : f = [q \in Named(L) |-> Fused(L, q)]
  OBVIOUS
<1>2. f \in [Named(L) -> Nat]
  BY <1>1, FusedIsNat
<1>3. Named(L) # {} /\ IsFiniteSet(Named(L)) /\ Named(L) \subseteq Row
  BY NamedAre
<1>4. PICK k : k = Span(f, Named(L))
  OBVIOUS
<1>5. PICK lo : lo = Min({f[q] : q \in Named(L)})
  OBVIOUS
<1>6. k \in Nat \ {0} /\ lo \in Nat
  BY <1>2, <1>3, <1>4, <1>5, SpanIsPositive
<1>7. ASSUME NEW q \in Named(L)
      PROVE  /\ Score(L, q, d) = ((f[q] - lo) * 1000) \div k + Bonus[q] + (IF d = Global THEN 0 ELSE 100)
             /\ (f[q] - lo) * 1000 \in Int
             /\ ((f[q] - lo) * 1000) \div k \in Int
             /\ Bonus[q] \in Int /\ f[q] \in Nat
  <2>1. Score(L, q, d) = ((f[q] - lo) * 1000) \div k + Bonus[q] + (IF d = Global THEN 0 ELSE 100)
    BY <1>1, <1>4, <1>5 DEF Score, Span
  <2>2. f[q] \in Nat /\ Bonus[q] \in Int
    BY <1>2, <1>3, Numbers
  <2>3. PICK x : x = (f[q] - lo) * 1000
    OBVIOUS
  <2>4. x \in Int
    BY <1>6, <2>2, <2>3
  <2>5. x \div k \in Int
    BY <1>6, <2>4, DivIs
  <2> QED BY <2>1, <2>2, <2>3, <2>4, <2>5
<1>8. ASSUME NEW q \in Named(L), Fused(L, q) <= Fused(L, r), Bonus[q] <= Bonus[r]
      PROVE  Score(L, q, d) <= Score(L, r, d)
  <2>1. PICK x : x = (f[q] - lo) * 1000
    OBVIOUS
  <2>2. PICK y : y = (f[r] - lo) * 1000
    OBVIOUS
  <2>3. x \in Int /\ y \in Int /\ x <= y
    <3>1. f[q] \in Nat /\ f[r] \in Nat /\ f[q] <= f[r]
      BY <1>1, <1>7, <1>8
    <3> QED BY <1>6, <2>1, <2>2, <3>1
  <2>4. x \div k <= y \div k
    BY <1>6, <2>3, DivMono
  <2>5. /\ Score(L, q, d) = x \div k + Bonus[q] + (IF d = Global THEN 0 ELSE 100)
        /\ Score(L, r, d) = y \div k + Bonus[r] + (IF d = Global THEN 0 ELSE 100)
        /\ x \div k \in Int /\ y \div k \in Int /\ Bonus[q] \in Int /\ Bonus[r] \in Int
    BY <1>7, <2>1, <2>2
  <2> QED BY <1>8, <2>4, <2>5
<1>9. Score(L, r, d) \in Int
  <2>1. PICK x : x = ((f[r] - lo) * 1000) \div k
    OBVIOUS
  <2>2. Score(L, r, d) = x + Bonus[r] + (IF d = Global THEN 0 ELSE 100) /\ x \in Int /\ Bonus[r] \in Int
    BY <1>7, <2>1
  <2> QED BY <2>2
<1> QED BY <1>8, <1>9

-----------------------------------------------------------------------------
(* Answers *)

\* What is ranked: no two came at the same place.
Ranked == [row : Row, score : Int, came : Nat \X Nat]
Apart(C) == C \subseteq Ranked /\ IsFiniteSet(C) /\ \A b, c \in C : b.came = c.came => b = c

\* Sorting gives a sequence of what is sorted.
LEMMA SortedIs ==
    ASSUME NEW C, Apart(C)
    PROVE  Sorted(C) \in Seq(C) /\ Len(Sorted(C)) = Cardinality(C) /\ Cardinality(C) \in Nat
<1>1. PICK R : R = {p \in C \X C : Before(p[1], p[2])}
  OBVIOUS
<1>2. \A x, y \in C : <<x, y>> \in R <=> Before(x, y)
  BY <1>1
<1>3. \A x \in C : x.score \in Int /\ x.came[1] \in Nat /\ x.came[2] \in Nat /\ x.came = <<x.came[1], x.came[2]>>
  BY DEF Apart, Ranked
<1>4. \A x \in C : <<x, x>> \notin R
  BY <1>2, <1>3 DEF Before, Earlier
<1>5. \A x, y, z \in C : <<x, y>> \in R /\ <<y, z>> \in R => <<x, z>> \in R
  <2> SUFFICES ASSUME NEW x \in C, NEW y \in C, NEW z \in C, Before(x, y), Before(y, z)
               PROVE  Before(x, z)
    BY <1>2
  <2> QED BY <1>3 DEF Before, Earlier
<1>6. \A x, y \in C : x # y => <<x, y>> \in R \/ <<y, x>> \in R
  <2> SUFFICES ASSUME NEW x \in C, NEW y \in C, x # y PROVE Before(x, y) \/ Before(y, x)
    BY <1>2
  <2>1. x.came # y.came
    BY DEF Apart
  <2> QED BY <1>3, <2>1 DEF Before, Earlier
<1>7. \A i \in 1..Cardinality(C) : \E c \in C : Cardinality({b \in C : <<b, c>> \in R}) = i - 1
  BY <1>4, <1>5, <1>6, EachPlace DEF Apart
<1>8. ASSUME NEW c \in C PROVE {b \in C : <<b, c>> \in R} = {b \in C : Before(b, c)}
  BY <1>2
<1>9. \A i \in 1..Cardinality(C) : \E c \in C : Cardinality({b \in C : Before(b, c)}) = i - 1
  <2> SUFFICES ASSUME NEW i \in 1..Cardinality(C)
               PROVE  \E c \in C : Cardinality({b \in C : Before(b, c)}) = i - 1
    OBVIOUS
  <2>1. PICK c \in C : Cardinality({b \in C : <<b, c>> \in R}) = i - 1
    BY <1>7
  <2> QED BY <1>8, <2>1
<1>10. Cardinality(C) \in Nat
  BY FS_CardinalityType DEF Apart
<1>11. Sorted(C) \in [1..Cardinality(C) -> C]
  BY <1>9 DEF Sorted, InOrder
<1> QED BY <1>10, <1>11

\* The rerank moves rows and changes scores; it adds none.
LEMMA RerankedIs ==
    ASSUME NEW C \in SUBSET Ranked, NEW s \in Seq(C), at \in Nat,
           NEW llm \in [1..Smaller(TopK, Len(s)) -> {-1, 0, 1000}]
    PROVE  /\ Reranked(s, llm) \in Seq(Ranked)
           /\ \A i \in DOMAIN Reranked(s, llm) : \E c \in C : Reranked(s, llm)[i].row = c.row
<1>1. PICK n : n = Smaller(TopK, Len(s))
  OBVIOUS
<1>2. n \in Nat /\ n <= Len(s) /\ Len(s) \in Nat
  BY <1>1, Numbers DEF Smaller
<1> DEFINE sc(i)  == IF llm[i] = -1 THEN s[i].score
                     ELSE (Blend(i) * s[i].score + (100 - Blend(i)) * llm[i]) \div 100
           rec(i) == [row |-> s[i].row, came |-> <<at, i>>, score |-> sc(i)]
<1>3. PICK mixed : mixed = {rec(i) : i \in 1..n}
  OBVIOUS
<1>4. ASSUME NEW i \in 1..n PROVE s[i] \in C /\ s[i] \in Ranked /\ sc(i) \in Int
  <2>1. s[i] \in C
    BY <1>2
  <2>2. s[i].score \in Int
    BY <2>1 DEF Ranked
  <2>3. llm[i] \in Int
    BY <1>1
  <2>4. Blend(i) \in {75, 60, 40}
    BY DEF Blend
  <2>5. PICK x : x = Blend(i) * s[i].score + (100 - Blend(i)) * llm[i]
    OBVIOUS
  <2>6. x \in Int
    BY <2>2, <2>3, <2>4, <2>5
  <2>7. x \div 100 \in Int
    BY <2>6, DivIs
  <2> QED BY <2>1, <2>2, <2>5, <2>7
<1>5. ASSUME NEW i \in 1..n
      PROVE  rec(i) \in Ranked /\ rec(i).came = <<at, i>> /\ rec(i).row = s[i].row
  <2>1. s[i].row \in Row /\ <<at, i>> \in Nat \X Nat
    BY <1>2, <1>4 DEF Ranked
  <2> HIDE DEF sc
  <2> QED BY <1>4, <2>1 DEF Ranked
<1> HIDE DEF rec
<1>6. Apart(mixed)
  <2>1. mixed \subseteq Ranked
    BY <1>3, <1>5
  <2>2. IsFiniteSet(mixed)
    <3>1. PICK f : f = [i \in 1..n |-> rec(i)]
      OBVIOUS
    <3>2. f \in Surjection(1..n, mixed)
      BY <1>3, <3>1 DEF Surjection
    <3>3. IsFiniteSet(1..n)
      BY <1>2, FS_Interval
    <3> QED BY <3>2, <3>3, FS_Surjection
  <2>3. \A b, c \in mixed : b.came = c.came => b = c
    <3> SUFFICES ASSUME NEW i \in 1..n, NEW j \in 1..n, rec(i).came = rec(j).came
                 PROVE  rec(i) = rec(j)
      BY <1>3
    <3>1. <<at, i>> = <<at, j>>
      BY <1>5
    <3> QED BY <3>1
  <2> QED BY <2>1, <2>2, <2>3 DEF Apart
<1>7. PICK h : h = Sorted(mixed)
  OBVIOUS
<1>8. PICK t : t = SubSeq(s, n + 1, Len(s))
  OBVIOUS
<1>9. h \in Seq(mixed)
  BY <1>6, <1>7, SortedIs
<1>10. t \in Seq(C)
  BY <1>2, <1>8
<1>11. Reranked(s, llm) = s \/ Reranked(s, llm) = h \o t
  BY <1>1, <1>3, <1>7, <1>8 DEF Reranked, rec
<1>12. ASSUME NEW x \in mixed \cup C PROVE x \in Ranked /\ \E c \in C : x.row = c.row
  <2>1. CASE x \in C
    BY <2>1
  <2>2. CASE x \in mixed
    <3>1. PICK i \in 1..n : x = rec(i)
      BY <1>3, <2>2
    <3> QED BY <1>4, <1>5, <3>1
  <2> QED BY <2>1, <2>2
<1>13. PICK D : D = mixed \cup C
  OBVIOUS
<1>14. PICK u : u = Reranked(s, llm)
  OBVIOUS
<1>15. u \in Seq(D)
  <2>1. s \in Seq(D) /\ h \in Seq(D) /\ t \in Seq(D)
    BY <1>9, <1>10, <1>13
  <2>2. h \o t \in Seq(D)
    BY <2>1
  <2> QED BY <1>11, <1>14, <2>1, <2>2
<1>16. \A i \in DOMAIN u : u[i] \in D
  BY <1>15
<1>17. u \in Seq(Ranked)
  <2>1. D \subseteq Ranked
    BY <1>12, <1>13
  <2> QED BY <1>15, <2>1
<1>18. \A i \in DOMAIN u : \E c \in C : u[i].row = c.row
  BY <1>12, <1>13, <1>16
<1> QED BY <1>14, <1>17, <1>18

\* An answer has rows of what was ranked, within the limit.
LEMMA AnswerIs ==
    ASSUME NEW s \in Seq(Ranked)
    PROVE  /\ Answer(s) \in Seq(Row) /\ Len(Answer(s)) <= Limit
           /\ \A r \in ToSet(Answer(s)) : \E i \in DOMAIN s : r = s[i].row
<1>1. PICK F : F = {i \in DOMAIN s : \A j \in 1..i-1 : Hash[s[j].row] # Hash[s[i].row]}
  OBVIOUS
<1>2. F \subseteq 1..Len(s) /\ F \subseteq Int /\ IsFiniteSet(F)
  <2>1. F \subseteq 1..Len(s) /\ Len(s) \in Nat
    BY <1>1
  <2>2. IsFiniteSet(1..Len(s))
    BY <2>1, FS_Interval
  <2>3. IsFiniteSet(F)
    BY <2>1, <2>2, FS_Subset
  <2> QED BY <2>1, <2>3
<1>3. PICK R : R = {p \in F \X F : p[1] < p[2]}
  OBVIOUS
<1>4. \A x, y \in F : <<x, y>> \in R <=> x < y
  BY <1>3
<1>5. /\ \A x \in F : <<x, x>> \notin R
      /\ \A x, y, z \in F : <<x, y>> \in R /\ <<y, z>> \in R => <<x, z>> \in R
      /\ \A x, y \in F : x # y => <<x, y>> \in R \/ <<y, x>> \in R
  BY <1>2, <1>4
<1>6. \A i \in 1..Cardinality(F) : \E c \in F : Cardinality({b \in F : <<b, c>> \in R}) = i - 1
  BY <1>2, <1>5, EachPlace
<1> DEFINE Below(c) == {b \in F : b < c}
<1>7. ASSUME NEW i \in 1..Cardinality(F) PROVE \E c \in F : Cardinality(Below(c)) = i - 1
  <2>1. PICK c \in F : Cardinality({b \in F : <<b, c>> \in R}) = i - 1
    BY <1>6
  <2>2. {b \in F : <<b, c>> \in R} = Below(c)
    BY <1>4
  <2> QED BY <2>1, <2>2
<1>8. PICK first : first = [i \in 1..Cardinality(F) |->
                               CHOOSE c \in F : Cardinality(Below(c)) = i - 1]
  OBVIOUS
<1>9. Cardinality(F) \in Nat
  BY <1>2, FS_CardinalityType
<1>10. first \in [1..Cardinality(F) -> F] /\ Len(first) = Cardinality(F)
  <2> HIDE DEF Below
  <2> QED BY <1>7, <1>8, <1>9
<1>11. PICK n : n = Smaller(Limit, Len(first))
  OBVIOUS
<1>12. n \in Nat /\ n <= Limit /\ n <= Cardinality(F)
  BY <1>9, <1>10, <1>11, Numbers DEF Smaller
<1>13. Answer(s) = [i \in 1..n |-> s[first[i]].row]
  BY <1>1, <1>8, <1>11 DEF Answer, InOrder
<1>14. ASSUME NEW i \in 1..n PROVE first[i] \in DOMAIN s /\ s[first[i]].row \in Row
  <2>1. first[i] \in F
    BY <1>10, <1>12
  <2>2. first[i] \in 1..Len(s)
    BY <1>2, <2>1
  <2>3. s[first[i]] \in Ranked
    BY <2>2
  <2> QED BY <2>2, <2>3 DEF Ranked
<1>15. Answer(s) \in [1..n -> Row]
  BY <1>13, <1>14
<1>16. Answer(s) \in Seq(Row) /\ Len(Answer(s)) = n
  BY <1>12, <1>15
<1>17. ASSUME NEW r \in ToSet(Answer(s)) PROVE \E i \in DOMAIN s : r = s[i].row
  <2>1. PICK i \in 1..n : r = s[first[i]].row
    BY <1>13 DEF ToSet
  <2> QED BY <1>14, <2>1
<1> QED BY <1>12, <1>16, <1>17

-----------------------------------------------------------------------------
(* The inductive invariant *)

\* Where a call is: its lists are of rows of the database it is in, what it has read
\* was active at some time of it, and so were its candidates, which come in the
\* order of the databases.
Stage ==
    /\ active \subseteq Row /\ asked \subseteq Row /\ project \in Db \cup {None}
    /\ pc \in {"idle", "bm25", "vector", "graph", "backfill", "fuse", "rank"}
    /\ at \in DOMAIN Searched
    /\ lists \in Lists /\ \A c \in DOMAIN lists : ToSet(lists[c]) \subseteq In(Here)
    /\ cached \subseteq In(Here) \cap asked
    /\ Apart(cands)
    /\ \A c \in cands : /\ c.row \in asked /\ c.came[1] # 0
                        /\ pc = "rank" \/ c.came[1] < at
    /\ pc # "idle" => active \subseteq asked
    /\ pc \in {"idle", "bm25", "rank"} => lists = NoLists /\ cached = {}
    /\ pc \in {"idle", "rank"} => at = 1

\* What was answered and counted.
Shown ==
    /\ results \in Seq(Row) /\ Len(results) <= Limit /\ ToSet(results) \subseteq asked
    /\ buffer \in Seq(Row) /\ Len(buffer) < FlushSize
    /\ open \in [Row -> Nat] /\ count \in [Row -> Nat] /\ hits \in [Row -> Nat]

Inv == Stage /\ Shown

\* The databases are one or two.
LEMMA SearchedAre ==
    ASSUME Stage
    PROVE  /\ Searched \in Seq(Db) /\ Len(Searched) \in {1, 2} /\ at \in 1..Len(Searched) /\ at \in Nat
           /\ Here \in Db
<1>1. Searched = <<Global>> \/ (Searched = <<project, Global>> /\ project \in Db)
  BY DEF Searched, Stage
<1>2. Searched \in Seq(Db) /\ Len(Searched) \in {1, 2}
  <2>1. Global \in Db
    BY Rows
  <2>2. CASE Searched = <<Global>>
    BY <2>1, <2>2
  <2>3. CASE Searched = <<project, Global>> /\ project \in Db
    BY <2>1, <2>3
  <2> QED BY <1>1, <2>2, <2>3
<1>3. at \in 1..Len(Searched)
  BY <1>2 DEF Stage
<1> QED BY <1>2, <1>3 DEF Here

LEMMA NothingListed == NoLists \in Lists /\ \A c \in DOMAIN NoLists : ToSet(NoLists[c]) = {}
<1>1. <<>> \in Seq(Row) /\ ToSet(<<>>) = {}
  BY DEF ToSet
<1>2. NoLists \in Lists
  BY <1>1 DEF NoLists, Lists
<1>3. \A c \in DOMAIN NoLists : NoLists[c] = <<>>
  BY DEF NoLists
<1> QED BY <1>1, <1>2, <1>3

\* What a leg matched is rows it may return.
LEMMA SomeAre ==
    ASSUME NEW R \in SUBSET Row, NEW s \in SomeOf(R)
    PROVE  s \in Seq(R) /\ ToSet(s) \subseteq R
<1>1. PICK S \in SUBSET R : s \in SetToSeqs(S)
  BY DEF SomeOf, Orders, SetToAllKPermutations
<1>2. IsFiniteSet(S)
  BY Rows, FS_Subset
<1>3. Cardinality(S) \in Nat
  BY <1>2, FS_CardinalityType
<1>4. s \in [1..Cardinality(S) -> S]
  BY <1>1 DEF SetToSeqs
<1>5. s \in Seq(R)
  BY <1>3, <1>4
<1> QED BY <1>5 DEF ToSet

LEMMA VariantsAre ==
    ASSUME NEW R \in SUBSET Row, NEW v \in Variant(R)
    PROVE  v \in Seq(R)
<1>1. CASE v = <<>>
  BY <1>1
<1>2. CASE \E r \in R : v = <<r>>
  BY <1>2
<1> QED BY <1>1, <1>2 DEF Variant

\* Lists one after the other have the rows of both.
LEMMA ToSetOf ==
    ASSUME NEW R, NEW s \in Seq(R), NEW t \in Seq(R)
    PROVE  s \o t \in Seq(R) /\ ToSet(s \o t) \subseteq R
<1>1. s \o t \in Seq(R)
  OBVIOUS
<1> QED BY <1>1 DEF ToSet

\* At rest: after the call has ended, whatever is set.
LEMMA AtRest ==
    ASSUME active \subseteq Row, asked \subseteq Row, project \in Db \cup {None}, at = 1,
           pc = "idle", lists = NoLists, cached = {}, cands = {}
    PROVE  Stage
<1>1. 1 \in DOMAIN Searched
  BY DEF Searched
<1>2. Apart({})
  BY FS_EmptySet DEF Apart
<1> QED BY <1>1, <1>2, NothingListed DEF Stage

\* A call has candidates of databases it was in before.
LEMMA NoneYet ==
    ASSUME Stage, pc # "rank", at = 1 PROVE cands = {}
<1> SUFFICES ASSUME NEW c \in cands PROVE FALSE
  OBVIOUS
<1>1. c.came[1] # 0 /\ c.came[1] < 1 /\ c.came[1] \in Nat
  BY DEF Stage, Apart, Ranked
<1> QED BY <1>1

LEMMA InitInv == Init => Inv
<1> SUFFICES ASSUME Init PROVE Inv
  OBVIOUS
<1>1. Stage
  BY AtRest DEF Init
<1>2. Shown
  <2>1. results \in Seq(Row) /\ buffer \in Seq(Row) /\ Len(results) = 0 /\ Len(buffer) = 0
    BY DEF Init
  <2>2. ToSet(results) = {}
    BY DEF Init, ToSet
  <2> QED BY <2>1, <2>2, Numbers DEF Init, Shown
<1> QED BY <1>1, <1>2 DEF Inv

\* The steps of a call in a database.
LEMMA BeginStage ==
    ASSUME Stage, NEW c, Begin(c) PROVE Stage'
<1>1. cands = {} /\ lists = NoLists /\ cached = {} /\ at = 1
  BY NoneYet DEF Begin, Stage
<1>2. 1 \in DOMAIN Searched'
  BY DEF Searched
<1>3. /\ active' = active /\ asked' = active /\ project' = project /\ pc' = "bm25" /\ at' = 1
      /\ lists' = NoLists /\ cached' = {} /\ cands' = {}
  BY <1>1 DEF Begin
<1>4. Apart({})
  BY FS_EmptySet DEF Apart
<1>5. lists' \in Lists /\ \A k \in DOMAIN lists' : ToSet(lists'[k]) = {}
  BY <1>3, NothingListed
<1> QED BY <1>2, <1>3, <1>4, <1>5 DEF Stage, Apart

LEMMA RaisesStage ==
    ASSUME Stage, EmbedRaises PROVE Stage'
<1>1. cands = {} /\ lists = NoLists /\ cached = {} /\ at = 1
  BY NoneYet DEF EmbedRaises, Stage
<1>2. /\ active' = active /\ asked' = asked /\ project' = project /\ pc' = "idle" /\ at' = 1
      /\ lists' = NoLists /\ cached' = {} /\ cands' = {}
  BY <1>1 DEF EmbedRaises
<1>3. 1 \in DOMAIN Searched'
  BY DEF Searched
<1>4. Apart({})
  BY FS_EmptySet DEF Apart
<1>5. lists' \in Lists /\ \A k \in DOMAIN lists' : ToSet(lists'[k]) = {}
  BY <1>2, NothingListed
<1> QED BY <1>2, <1>3, <1>4, <1>5 DEF Stage, Apart

\* Of a leg it is only said what it lists and what it has read.
LEMMA LegStage ==
    ASSUME Stage, pc \notin {"idle", "rank"}, pc' \in {"vector", "graph", "backfill", "fuse"},
           UNCHANGED <<active, project, call, at, cands, asked>>,
           lists' \in Lists, \A c \in DOMAIN lists' : ToSet(lists'[c]) \subseteq In(Here),
           cached' \subseteq In(Here) \cap asked
    PROVE  Stage'
<1>1. Searched' = Searched /\ Here' = Here /\ Apart(cands)'
  BY DEF Searched, Here, Stage, Apart
<1> QED BY <1>1 DEF Stage, In

\* A row a statement sees is in the database, and active.
LEMMA VisibleAre ==
    ASSUME Stage, pc # "idle"
    PROVE  /\ Visible(Here) \in SUBSET Row /\ Visible(Here) \cap Chunked \in SUBSET Row
           /\ Visible(Here) \subseteq In(Here) \cap asked
           /\ In(Here) \in SUBSET Row
BY DEF Stage, Visible, In

\* Lists of visible rows, and what they leave cached.
LEMMA HitsAre ==
    ASSUME Stage, pc # "idle",
           NEW f \in SomeOf(Visible(Here)), NEW v \in Variant(Visible(Here)),
           NEW k \in SomeOf(Visible(Here) \cap Chunked)
    PROVE  /\ f \o v \in Seq(Row) /\ k \in Seq(Row)
           /\ ToSet(f \o v) \subseteq In(Here) /\ ToSet(k) \subseteq In(Here)
           /\ ToSet(f \o v \o k) \subseteq In(Here) \cap asked
<1>1. PICK V : V = Visible(Here)
  OBVIOUS
<1>2. V \in SUBSET Row /\ V \subseteq In(Here) \cap asked
  BY <1>1, VisibleAre
<1>3. f \in Seq(V) /\ v \in Seq(V)
  BY <1>1, <1>2, SomeAre, VariantsAre
<1>4. PICK W : W = V \cap Chunked
  OBVIOUS
<1>5. k \in Seq(W) /\ ToSet(k) \subseteq W
  BY <1>1, <1>2, <1>4, SomeAre
<1>6. k \in Seq(V)
  BY <1>4, <1>5
<1>7. f \o v \in Seq(V) /\ ToSet(f \o v) \subseteq V
  BY <1>3, ToSetOf
<1>8. ToSet(f \o v \o k) \subseteq V
  BY <1>6, <1>7, ToSetOf
<1>9. f \o v \in Seq(Row) /\ k \in Seq(Row)
  BY <1>2, <1>6, <1>7
<1> QED BY <1>2, <1>4, <1>5, <1>7, <1>8, <1>9

LEMMA Bm25Stage ==
    ASSUME Stage, NEW failed \in BOOLEAN, Bm25(failed) PROVE Stage'
<1>1. /\ pc = "bm25" /\ pc' = "vector" /\ UNCHANGED <<active, project, call, at, cands, asked>>
  BY DEF Bm25
<1>2. CASE failed \/ "bm25" \notin call.channels
  <2>1. lists' = NoLists /\ cached' = {}
    BY <1>2 DEF Bm25
  <2>2. lists' \in Lists /\ \A c \in DOMAIN lists' : ToSet(lists'[c]) \subseteq In(Here)
    BY <2>1, NothingListed
  <2> QED BY <1>1, <2>1, <2>2, LegStage
<1>3. CASE ~(failed \/ "bm25" \notin call.channels)
  <2>1. PICK f \in SomeOf(Visible(Here)), v \in Variant(Visible(Here)),
             k \in SomeOf(Visible(Here) \cap Chunked) :
                /\ lists' = [NoLists EXCEPT !.fts = f \o v, !.chunkFts = k]
                /\ cached' = ToSet(f \o v \o k)
    BY <1>3 DEF Bm25
  <2>2. /\ f \o v \in Seq(Row) /\ k \in Seq(Row)
        /\ ToSet(f \o v) \subseteq In(Here) /\ ToSet(k) \subseteq In(Here)
        /\ ToSet(f \o v \o k) \subseteq In(Here) \cap asked
    BY <1>1, <2>1, HitsAre
  <2>3. PICK g : g = f \o v
    OBVIOUS
  <2>4. lists' = [fts |-> g, chunkFts |-> k, vec |-> <<>>, chunkVec |-> <<>>, graph |-> <<>>]
    BY <2>1, <2>3 DEF NoLists
  <2>5. <<>> \in Seq(Row) /\ ToSet(<<>>) = {}
    BY DEF ToSet
  <2>6. lists' \in Lists
    BY <2>2, <2>3, <2>4, <2>5 DEF Lists
  <2>7. \A c \in DOMAIN lists' : lists'[c] \in {g, k, <<>>}
    BY <2>4
  <2>8. \A c \in DOMAIN lists' : ToSet(lists'[c]) \subseteq In(Here)
    BY <2>2, <2>3, <2>5, <2>7
  <2> QED BY <1>1, <2>1, <2>2, <2>6, <2>8, LegStage
<1> QED BY <1>2, <1>3

LEMMA VectorStage ==
    ASSUME Stage, NEW failed \in BOOLEAN, Vector(failed) PROVE Stage'
<1>1. /\ pc = "vector" /\ pc' = "graph" /\ UNCHANGED <<active, project, call, at, cands, asked>>
  BY DEF Vector
<1>2. /\ lists \in Lists /\ \A c \in DOMAIN lists : ToSet(lists[c]) \subseteq In(Here)
      /\ cached \subseteq In(Here) \cap asked
  BY DEF Stage
<1>3. CASE "vector" \notin call.channels
  <2>1. lists' = lists /\ cached' = cached
    BY <1>3 DEF Vector
  <2> QED BY <1>1, <1>2, <2>1, LegStage
<1>4. CASE "vector" \in call.channels
  <2>1. PICK f \in SomeOf(Visible(Here)), v \in Variant(Visible(Here)),
             k \in SomeOf(Visible(Here) \cap Chunked) :
                /\ cached' = cached \cup ToSet(f \o v \o k)
                /\ lists' = IF failed THEN lists ELSE [lists EXCEPT !.vec = f \o v, !.chunkVec = k]
    BY <1>4 DEF Vector
  <2>2. /\ f \o v \in Seq(Row) /\ k \in Seq(Row)
        /\ ToSet(f \o v) \subseteq In(Here) /\ ToSet(k) \subseteq In(Here)
        /\ ToSet(f \o v \o k) \subseteq In(Here) \cap asked
    BY <1>1, <2>1, HitsAre
  <2>3. PICK g : g = f \o v
    OBVIOUS
  <2>4. cached' \subseteq In(Here) \cap asked
    BY <1>2, <2>1, <2>2
  <2>5. CASE failed
    BY <1>1, <1>2, <2>1, <2>4, <2>5, LegStage
  <2>6. CASE ~failed
    <3>1. lists' = [fts |-> lists.fts, chunkFts |-> lists.chunkFts, vec |-> g, chunkVec |-> k,
                    graph |-> lists.graph]
      BY <1>2, <2>1, <2>3, <2>6 DEF Lists
    <3>2. lists' \in Lists
      BY <1>2, <2>2, <2>3, <3>1 DEF Lists
    <3>3. \A c \in DOMAIN lists' : c \in DOMAIN lists /\ lists'[c] \in {g, k, lists[c]}
      BY <1>2, <3>1 DEF Lists
    <3>4. \A c \in DOMAIN lists' : ToSet(lists'[c]) \subseteq In(Here)
      BY <1>2, <2>2, <2>3, <3>3
    <3> QED BY <1>1, <2>4, <3>2, <3>4, LegStage
  <2> QED BY <2>5, <2>6
<1> QED BY <1>3, <1>4

LEMMA GraphStage ==
    ASSUME Stage, NEW failed \in BOOLEAN, Graph(failed) PROVE Stage'
<1>1. /\ pc = "graph" /\ pc' = "backfill" /\ cached' = cached
      /\ UNCHANGED <<active, project, call, at, cands, asked>>
  BY DEF Graph
<1>2. /\ lists \in Lists /\ \A c \in DOMAIN lists : ToSet(lists[c]) \subseteq In(Here)
      /\ cached \subseteq In(Here) \cap asked
  BY DEF Stage
<1>3. CASE lists' = lists
  BY <1>1, <1>2, <1>3, LegStage
<1>4. CASE \E g \in SomeOf(In(Here)) : lists' = [lists EXCEPT !.graph = g]
  <2>1. PICK g \in SomeOf(In(Here)) : lists' = [lists EXCEPT !.graph = g]
    BY <1>4
  <2>2. In(Here) \in SUBSET Row
    BY <1>1, VisibleAre
  <2>3. g \in Seq(In(Here)) /\ ToSet(g) \subseteq In(Here)
    BY <2>2, SomeAre
  <2>4. g \in Seq(Row)
    BY <2>2, <2>3
  <2>5. lists' \in Lists
    BY <1>2, <2>1, <2>4 DEF Lists
  <2>6. \A c \in DOMAIN lists' : c \in DOMAIN lists /\ lists'[c] \in {g, lists[c]}
    BY <1>2, <2>1 DEF Lists
  <2>7. \A c \in DOMAIN lists' : ToSet(lists'[c]) \subseteq In(Here)
    BY <1>2, <2>3, <2>6
  <2> QED BY <1>1, <1>2, <2>5, <2>7, LegStage
<1> QED BY <1>3, <1>4 DEF Graph

LEMMA BackfillStage ==
    ASSUME Stage, Backfill PROVE Stage'
<1>1. /\ pc = "backfill" /\ pc' = "fuse" /\ lists' = lists
      /\ UNCHANGED <<active, project, call, at, cands, asked>>
      /\ cached' = cached \cup (ToSet(lists.graph) \cap active)
  BY DEF Backfill
<1>2. /\ lists \in Lists /\ \A c \in DOMAIN lists : ToSet(lists[c]) \subseteq In(Here)
      /\ cached \subseteq In(Here) \cap asked /\ active \subseteq asked
  BY <1>1 DEF Stage
<1>3. "graph" \in DOMAIN lists
  BY <1>2 DEF Lists
<1>4. cached' \subseteq In(Here) \cap asked
  BY <1>1, <1>2, <1>3
<1> QED BY <1>1, <1>2, <1>4, LegStage

\* The candidates of a database came after those of the one before, each at a
\* place of its own.
LEMMA FuseStage ==
    ASSUME Stage, Fuse PROVE Stage'
<1> DEFINE rank(r) == Min(Ranks(Joined(lists), r))
           rec(r)  == [row |-> r, score |-> Score(lists, r, Here), came |-> <<at, rank(r)>>]
<1>1. PICK N : N = Named(lists) \cap cached
  OBVIOUS
<1>2. PICK new : new = {rec(r) : r \in N}
  OBVIOUS
<1>3. /\ pc = "fuse" /\ cands' = cands \cup new /\ lists' = NoLists /\ cached' = {}
      /\ UNCHANGED <<active, project, call, asked>>
  BY <1>1, <1>2 DEF Fuse
<1>4. /\ lists \in Lists /\ cached \subseteq In(Here) \cap asked /\ asked \subseteq Row
      /\ Apart(cands) /\ active \subseteq asked /\ active \subseteq Row /\ project \in Db \cup {None}
  BY <1>3 DEF Stage
<1>5. at \in 1..Len(Searched) /\ at \in Nat /\ Len(Searched) \in {1, 2}
  BY SearchedAre
<1>6. ASSUME NEW r \in N PROVE rank(r) \in Nat /\ Joined(lists)[rank(r)] = r
  <2>1. Joined(lists) \in Seq(Row) /\ r \in ToSet(Joined(lists))
    BY <1>1, <1>4, NamedAre DEF Named
  <2>2. Ranks(Joined(lists), r) # {} /\ Ranks(Joined(lists), r) \subseteq Nat
    BY <2>1 DEF Ranks, ToSet
  <2>3. \E x \in Ranks(Joined(lists), r) : \A y \in Ranks(Joined(lists), r) : x <= y
    BY <2>2, LeastOf
  <2>4. rank(r) \in Ranks(Joined(lists), r)
    BY <2>3 DEF Min
  <2> QED BY <2>2, <2>4 DEF Ranks
<1>7. ASSUME NEW r \in N
      PROVE  rec(r) \in Ranked /\ rec(r).came = <<at, rank(r)>> /\ rec(r).row = r
  <2>1. r \in Row /\ Score(lists, r, Here) \in Int
    BY <1>1, <1>4, ScoreIs
  <2>2. <<at, rank(r)>> \in Nat \X Nat
    BY <1>5, <1>6
  <2> HIDE DEF rank
  <2> QED BY <2>1, <2>2 DEF Ranked
<1> HIDE DEF rank, rec
<1>8. ASSUME NEW b \in new PROVE b \in Ranked /\ b.came[1] = at /\ b.row \in asked
  <2>1. PICK r \in N : b = rec(r)
    BY <1>2
  <2> QED BY <1>1, <1>4, <1>7, <2>1
<1>9. IsFiniteSet(new)
  <2>1. PICK f : f = [r \in N |-> rec(r)]
    OBVIOUS
  <2>2. f \in Surjection(N, new)
    BY <1>2, <2>1 DEF Surjection
  <2>3. IsFiniteSet(N)
    BY <1>1, <1>4, NamedAre, FS_Subset
  <2> QED BY <2>2, <2>3, FS_Surjection
<1>10. \A b, c \in new : b.came = c.came => b = c
  <2> SUFFICES ASSUME NEW q \in N, NEW r \in N, rec(q).came = rec(r).came PROVE rec(q) = rec(r)
    BY <1>2
  <2>1. <<at, rank(q)>> = <<at, rank(r)>>
    BY <1>7
  <2>2. q = r
    BY <1>6, <2>1
  <2> QED BY <2>2
<1>11. ASSUME NEW c \in cands
       PROVE  c \in Ranked /\ c.came[1] < at /\ c.came[1] \in Nat /\ c.came[1] # 0 /\ c.row \in asked
  BY <1>3 DEF Stage, Apart, Ranked
<1>12. Apart(cands')
  <2>1. cands' \subseteq Ranked
    BY <1>3, <1>8, <1>11
  <2>2. IsFiniteSet(cands')
    BY <1>3, <1>4, <1>9, FS_Union DEF Apart
  <2>3. ASSUME NEW b \in cands', NEW c \in cands', b.came = c.came PROVE b = c
    <3>1. CASE b \in cands /\ c \in cands
      BY <1>4, <2>3, <3>1 DEF Apart
    <3>2. CASE b \in new /\ c \in new
      BY <1>10, <2>3, <3>2
    <3>3. CASE (b \in cands /\ c \in new) \/ (b \in new /\ c \in cands)
      BY <1>5, <1>8, <1>11, <2>3, <3>3
    <3> QED BY <1>3, <3>1, <3>2, <3>3
  <2> QED BY <2>1, <2>2, <2>3 DEF Apart
<1>13. ASSUME NEW c \in cands' PROVE c.row \in asked /\ c.came[1] # 0 /\ c.came[1] <= at /\ c.came[1] \in Nat
  <2>1. CASE c \in cands
    BY <1>5, <1>11, <2>1
  <2>2. CASE c \in new
    BY <1>5, <1>8, <2>2
  <2> QED BY <1>3, <2>1, <2>2
<1>14. Searched' = Searched /\ DOMAIN Searched = 1..Len(Searched)
  <2>1. Searched \in Seq(Db)
    BY SearchedAre
  <2>2. DOMAIN Searched = 1..Len(Searched)
    BY <2>1
  <2>3. Searched' = Searched
    BY <1>3 DEF Searched
  <2> QED BY <2>2, <2>3
<1>15. \/ pc' = "bm25" /\ at' = at + 1 /\ at' \in DOMAIN Searched
       \/ pc' = "rank" /\ at' = 1 /\ 1 \in DOMAIN Searched
  BY <1>5, <1>14 DEF Fuse
<1>16. lists' \in Lists /\ \A k \in DOMAIN lists' : ToSet(lists'[k]) = {}
  BY <1>3, NothingListed
<1>17. Apart(cands)'
  BY <1>12 DEF Apart
<1>18. \A c \in cands' : c.row \in asked' /\ c.came[1] # 0 /\ (pc' = "rank" \/ c.came[1] < at')
  BY <1>3, <1>5, <1>13, <1>15
<1> QED BY <1>3, <1>4, <1>14, <1>15, <1>16, <1>17, <1>18 DEF Stage

LEMMA FinishStage ==
    ASSUME Stage, Finish PROVE Stage'
<1>1. /\ pc = "rank" /\ pc' = "idle" /\ cands' = {}
      /\ UNCHANGED <<active, project, at, lists, cached, asked>>
  BY DEF Finish
<1>2. /\ active \subseteq Row /\ asked \subseteq Row /\ project \in Db \cup {None} /\ at = 1
      /\ lists = NoLists /\ cached = {}
  BY <1>1 DEF Stage
<1>3. 1 \in DOMAIN Searched'
  BY DEF Searched
<1>4. Apart({})
  BY FS_EmptySet DEF Apart
<1>5. lists' \in Lists /\ \A k \in DOMAIN lists' : ToSet(lists'[k]) = {}
  BY <1>1, <1>2, NothingListed
<1> QED BY <1>1, <1>2, <1>3, <1>4, <1>5 DEF Stage, Apart

\* Between two calls; a process that dies is between two calls.
LEMMA IdleStage ==
    ASSUME Stage, pc' = "idle", at' = 1, lists' = NoLists, cached' = {}, cands' = {},
           active' \subseteq Row, asked' \subseteq Row, project' \in Db \cup {None}
    PROVE  Stage'
<1>1. 1 \in DOMAIN Searched'
  BY DEF Searched
<1>2. Apart({})
  BY FS_EmptySet DEF Apart
<1>3. lists' \in Lists /\ \A k \in DOMAIN lists' : ToSet(lists'[k]) = {}
  BY NothingListed
<1> QED BY <1>1, <1>2, <1>3 DEF Stage, Apart

LEMMA ToggleStage ==
    ASSUME Stage, NEW r \in Row, Toggle(r) PROVE Stage'
<1>1. /\ active' \subseteq Row /\ active' \subseteq asked' /\ asked \subseteq asked' /\ asked' \subseteq Row
      /\ UNCHANGED <<project, pc, call, at, lists, cached, cands>>
  BY DEF Toggle, Stage, stage
<1>2. Searched' = Searched /\ Here' = Here /\ Apart(cands)'
  BY <1>1 DEF Searched, Here, Stage, Apart
<1> QED BY <1>1, <1>2 DEF Stage, In

LEMMA NextStage ==
    ASSUME Stage, [Next]_vars PROVE Stage'
<1>1. ASSUME NEW c \in Request, Begin(c) PROVE Stage'
  BY <1>1, BeginStage
<1>2. CASE EmbedRaises
  BY <1>2, RaisesStage
<1>3. ASSUME NEW failed \in BOOLEAN, Bm25(failed) \/ Vector(failed) \/ Graph(failed) PROVE Stage'
  BY <1>3, Bm25Stage, VectorStage, GraphStage
<1>4. CASE Backfill
  BY <1>4, BackfillStage
<1>5. CASE Fuse
  BY <1>5, FuseStage
<1>6. CASE Finish
  BY <1>6, FinishStage
<1>7. ASSUME pc = "idle", UNCHANGED <<active, stage>>, asked' \subseteq Row, project' \in Db \cup {None}
      PROVE  Stage'
  <2>1. at = 1 /\ lists = NoLists /\ cached = {} /\ cands = {} /\ active \subseteq Row
    BY <1>7, NoneYet DEF Stage
  <2> QED BY <1>7, <2>1, IdleStage DEF stage
<1>8. CASE Shutdown
  BY <1>7, <1>8 DEF Shutdown, Stage
<1>9. ASSUME NEW d \in Db, SetProject(d) PROVE Stage'
  BY <1>7, <1>9 DEF SetProject, Stage
<1>10. ASSUME NEW d \in Db, NEW commits \in BOOLEAN, OtherCall(d, commits) PROVE Stage'
  BY <1>7, <1>10 DEF OtherCall, Stage
<1>11. CASE Die
  <2>1. /\ pc' = "idle" /\ at' = 1 /\ lists' = NoLists /\ cached' = {} /\ cands' = {}
        /\ active' = active /\ asked' = asked /\ project' = None
    BY <1>11 DEF Die
  <2>2. active \subseteq Row /\ asked \subseteq Row
    BY DEF Stage
  <2> QED BY <2>1, <2>2, IdleStage
<1>12. ASSUME NEW r \in Row, Toggle(r) PROVE Stage'
  BY <1>12, ToggleStage
<1>13. ASSUME NEW D, NEW filter, FanOut(D, filter) PROVE Stage'
  <2>1. pc = "idle" /\ UNCHANGED <<active, project, stage>> /\ asked' = active
    BY <1>13 DEF FanOut
  <2> QED BY <1>7, <2>1 DEF Stage
<1>14. CASE UNCHANGED vars
  <2>1. UNCHANGED <<active, asked, project, pc, call, at, lists, cached, cands>>
    BY <1>14 DEF vars, stage
  <2>2. Searched' = Searched /\ Here' = Here /\ Apart(cands)'
    BY <2>1 DEF Searched, Here, Stage, Apart
  <2> QED BY <2>1, <2>2 DEF Stage, In
<1> QED
  BY <1>1, <1>2, <1>3, <1>4, <1>5, <1>6, <1>8, <1>9, <1>10, <1>11, <1>12, <1>13, <1>14 DEF Next

\* How often a row is among those buffered.
LEMMA TimesAre ==
    ASSUME NEW b \in Seq(Row)
    PROVE  /\ Times(b) \in [Row -> Nat]
           /\ \A t \in Seq(Row), r \in Row : Times(b \o t)[r] = Times(b)[r] + Times(t)[r]
           /\ b = <<>> => \A r \in Row : Times(b)[r] = 0
<1>1. ASSUME NEW r \in Row PROVE Times(b)[r] \in Nat
  <2>1. Cardinality(Ranks(b, r)) \in Nat
    BY RanksAdd
  <2> QED BY <2>1 DEF Times
<1>2. Times(b) \in [Row -> Nat]
  <2>1. Times(b) = [r \in Row |-> Times(b)[r]]
    BY DEF Times
  <2> QED BY <1>1, <2>1
<1>3. ASSUME NEW t \in Seq(Row), NEW r \in Row PROVE Times(b \o t)[r] = Times(b)[r] + Times(t)[r]
  <2>1. Cardinality(Ranks(b \o t, r)) = Cardinality(Ranks(b, r)) + Cardinality(Ranks(t, r))
    BY RanksAdd
  <2> QED BY <2>1 DEF Times
<1>4. ASSUME b = <<>>, NEW r \in Row PROVE Times(b)[r] = 0
  <2>1. Ranks(b, r) = {}
    BY <1>4 DEF Ranks
  <2> QED BY <2>1, FS_EmptySet DEF Times
<1> QED BY <1>2, <1>3, <1>4

\* An UPDATE that is lost leaves its row one less.
LEMMA UpdatedAre ==
    ASSUME NEW b \in Seq(Row), NEW lost
    PROVE  /\ Updated(b, lost) \in [Row -> Nat]
           /\ \A r \in Row : Updated(b, lost)[r] <= Times(b)[r]
<1>1. ASSUME NEW r \in Row
      PROVE  /\ Cardinality(Ranks(b, r) \ lost) \in Nat
             /\ Cardinality(Ranks(b, r) \ lost) <= Cardinality(Ranks(b, r))
  <2>1. IsFiniteSet(Ranks(b, r))
    <3>1. Ranks(b, r) \subseteq 1..Len(b) /\ Len(b) \in Nat
      BY DEF Ranks
    <3>2. IsFiniteSet(1..Len(b))
      BY <3>1, FS_Interval
    <3> QED BY <3>1, <3>2, FS_Subset
  <2>2. Ranks(b, r) \ lost \subseteq Ranks(b, r)
    OBVIOUS
  <2> QED BY <2>1, <2>2, FS_Subset, FS_CardinalityType
<1>2. Updated(b, lost) = [r \in Row |-> Cardinality(Ranks(b, r) \ lost)]
  BY DEF Updated
<1>3. \A r \in Row : Times(b)[r] = Cardinality(Ranks(b, r))
  BY DEF Times
<1> QED BY <1>1, <1>2, <1>3

\* A flush makes of what was buffered at most one access each, whatever of it fails.
LEMMA FlushCounts ==
    ASSUME Shown, NEW b \in Seq(Row), NEW D, Flush(D, b)
    PROVE  /\ count' \in [Row -> Nat] /\ open' \in [Row -> Nat] /\ buffer' = <<>>
           /\ \A r \in Row : count'[r] + open'[r] <= count[r] + open[r] + Times(b)[r]
<1>1. PICK lost, failed :
        /\ count' = Counted(D \ failed, Updated(b, lost))
        /\ open'  = [r \in Row |-> IF Home[r] \in D \ failed THEN 0
                        ELSE open[r] + IF Home[r] \in D THEN Updated(b, lost)[r] ELSE 0]
        /\ buffer' = <<>>
  BY DEF Flush
<1>2. PICK n : n = Updated(b, lost)
  OBVIOUS
<1>3. PICK t : t = Times(b)
  OBVIOUS
<1>4. n \in [Row -> Nat] /\ t \in [Row -> Nat] /\ \A r \in Row : n[r] <= t[r]
  BY <1>2, <1>3, UpdatedAre, TimesAre
<1>5. /\ count' = [r \in Row |-> count[r] + IF Home[r] \in D \ failed THEN open[r] + n[r] ELSE 0]
      /\ open'  = [r \in Row |-> IF Home[r] \in D \ failed THEN 0
                      ELSE open[r] + IF Home[r] \in D THEN n[r] ELSE 0]
  BY <1>1, <1>2 DEF Counted
<1>6. ASSUME NEW r \in Row
      PROVE  /\ count'[r] \in Nat /\ open'[r] \in Nat
             /\ count'[r] + open'[r] <= count[r] + open[r] + t[r]
  <2>1. count[r] \in Nat /\ open[r] \in Nat /\ n[r] \in Nat /\ t[r] \in Nat /\ n[r] <= t[r]
    BY <1>4 DEF Shown
  <2>2. CASE Home[r] \in D \ failed
    <3>1. count'[r] = count[r] + (open[r] + n[r]) /\ open'[r] = 0
      BY <1>5, <2>2
    <3> QED BY <2>1, <3>1
  <2>3. CASE Home[r] \notin D \ failed /\ Home[r] \in D
    <3>1. count'[r] = count[r] + 0 /\ open'[r] = open[r] + n[r]
      BY <1>5, <2>3
    <3> QED BY <2>1, <3>1
  <2>4. CASE Home[r] \notin D
    <3>1. count'[r] = count[r] + 0 /\ open'[r] = open[r] + 0
      BY <1>5, <2>4
    <3> QED BY <2>1, <3>1
  <2> QED BY <2>2, <2>3, <2>4
<1>7. count' \in [Row -> Nat] /\ open' \in [Row -> Nat]
  <2>1. count' = [r \in Row |-> count'[r]] /\ open' = [r \in Row |-> open'[r]]
    BY <1>5
  <2> QED BY <1>6, <2>1
<1> QED BY <1>1, <1>3, <1>6, <1>7

\* What an answer shows was active at some time of the call.
LEMMA FinishAnswers ==
    ASSUME Stage, Finish
    PROVE  results' \in Seq(Row) /\ Len(results') <= Limit /\ ToSet(results') \subseteq asked
<1>1. PICK llm \in [1..Smaller(TopK, Cardinality(cands)) -> {-1, 0, 1000}] :
        results' = Answer(Reranked(Sorted(cands), llm))
  BY DEF Finish
<1>2. PICK s : s = Sorted(cands)
  OBVIOUS
<1>3. Apart(cands) /\ at \in Nat
  BY SearchedAre DEF Stage
<1>4. s \in Seq(cands) /\ Len(s) = Cardinality(cands) /\ cands \in SUBSET Ranked
  BY <1>2, <1>3, SortedIs DEF Apart
<1>5. llm \in [1..Smaller(TopK, Len(s)) -> {-1, 0, 1000}]
  BY <1>1, <1>4
<1>6. PICK t : t = Reranked(s, llm)
  OBVIOUS
<1>7. t \in Seq(Ranked) /\ \A i \in DOMAIN t : \E c \in cands : t[i].row = c.row
  BY <1>3, <1>4, <1>5, <1>6, RerankedIs
<1>8. results' = Answer(t)
  BY <1>1, <1>2, <1>6
<1>9. /\ Answer(t) \in Seq(Row) /\ Len(Answer(t)) <= Limit
      /\ \A r \in ToSet(Answer(t)) : \E i \in DOMAIN t : r = t[i].row
  BY <1>7, AnswerIs
<1>10. \A c \in cands : c.row \in asked
  BY DEF Stage
<1> QED BY <1>7, <1>8, <1>9, <1>10

LEMMA FanOutAnswers ==
    ASSUME NEW D, NEW filter, FanOut(D, filter)
    PROVE  results' \in Seq(Row) /\ Len(results') <= Limit /\ ToSet(results') \subseteq active
<1>1. PICK L \in [D \cup {Global} -> UNION {SomeOf(In(d)) : d \in D \cup {Global}}] :
        /\ \A d \in DOMAIN L : ToSet(L[d]) \subseteq In(d) \cap active
        /\ \E s \in SetToSeqs(UNION {ToSet(L[d]) : d \in DOMAIN L}) :
              results' = SubSeq(s, 1, Smaller(Limit, Len(s)))
  BY DEF FanOut
<1>2. PICK F : F = UNION {ToSet(L[d]) : d \in DOMAIN L}
  OBVIOUS
<1>3. F \subseteq active /\ F \subseteq Row
  BY <1>1, <1>2 DEF In
<1>4. PICK s \in SetToSeqs(F) : results' = SubSeq(s, 1, Smaller(Limit, Len(s)))
  BY <1>1, <1>2
<1>5. Cardinality(F) \in Nat
  BY <1>3, Rows, FS_Subset, FS_CardinalityType
<1>6. s \in Seq(F) /\ Len(s) \in Nat
  BY <1>4, <1>5 DEF SetToSeqs
<1>7. PICK n : n = Smaller(Limit, Len(s))
  OBVIOUS
<1>8. n \in Nat /\ n <= Limit /\ n <= Len(s)
  BY <1>6, <1>7, Numbers DEF Smaller
<1>9. results' \in Seq(F) /\ Len(results') = n
  BY <1>4, <1>6, <1>7, <1>8
<1>10. ToSet(results') \subseteq F
  BY <1>9 DEF ToSet
<1>11. results' \in Seq(Row)
  BY <1>3, <1>9
<1> QED BY <1>3, <1>8, <1>9, <1>10, <1>11

\* The steps that neither answer nor count.
LEMMA OthersShow ==
    ASSUME Shown, UNCHANGED <<buffer, open, count, hits>>,
           results' = results \/ results' = <<>>, results # <<>> => results' = <<>> \/ asked \subseteq asked'
    PROVE  Shown'
<1>1. CASE results' = <<>>
  <2>1. results' \in Seq(Row) /\ Len(results') = 0 /\ ToSet(results') = {}
    BY <1>1 DEF ToSet
  <2> QED BY <2>1, Numbers DEF Shown
<1>2. CASE results' # <<>>
  <2>1. results' = results /\ asked \subseteq asked'
    BY <1>2
  <2> QED BY <2>1 DEF Shown
<1> QED BY <1>1, <1>2

\* An answer counts, in the buffer or by a flush of it.
LEMMA FinishCounts ==
    ASSUME Inv, Finish
    PROVE  Shown' /\ (CountedAtMostOnce => CountedAtMostOnce')
<1>1. Stage /\ Shown
  BY DEF Inv
<1>2. results' \in Seq(Row) /\ Len(results') <= Limit /\ ToSet(results') \subseteq asked /\ asked' = asked
  BY <1>1, FinishAnswers DEF Finish
<1>3. PICK b : b = buffer \o results'
  OBVIOUS
<1>4. b \in Seq(Row) /\ buffer \in Seq(Row) /\ Len(b) \in Nat
  BY <1>1, <1>2, <1>3 DEF Shown
<1>5. PICK t : t = Times(results')
  OBVIOUS
<1>6. PICK u : u = Times(buffer)
  OBVIOUS
<1>7. PICK v : v = Times(b)
  OBVIOUS
<1>8. t \in [Row -> Nat] /\ u \in [Row -> Nat] /\ v \in [Row -> Nat] /\ \A r \in Row : v[r] = u[r] + t[r]
  BY <1>2, <1>3, <1>4, <1>5, <1>6, <1>7, TimesAre
<1>9. /\ hits' = [r \in Row |-> hits[r] + t[r]]
      /\ IF Len(b) < FlushSize
           THEN buffer' = b /\ UNCHANGED <<open, count>>
           ELSE Flush(ToSet(Searched), b)
  BY <1>3, <1>5 DEF Finish
<1>10. /\ open \in [Row -> Nat] /\ count \in [Row -> Nat] /\ hits \in [Row -> Nat]
  BY <1>1 DEF Shown
<1>11. hits' \in [Row -> Nat]
  <2>1. \A r \in Row : hits[r] + t[r] \in Nat
    BY <1>8, <1>10
  <2> QED BY <1>9, <2>1
<1>12. CASE Len(b) < FlushSize
  <2>1. buffer' = b /\ open' = open /\ count' = count
    BY <1>9, <1>12
  <2>2. Shown'
    BY <1>2, <1>4, <1>10, <1>11, <1>12, <2>1 DEF Shown
  <2>3. ASSUME CountedAtMostOnce, NEW r \in Row
        PROVE  count'[r] + open'[r] + Times(buffer')[r] <= hits'[r]
    <3>1. count[r] + open[r] + u[r] <= hits[r]
      BY <1>6, <2>3 DEF CountedAtMostOnce
    <3>2. hits'[r] = hits[r] + t[r] /\ Times(buffer')[r] = v[r] /\ v[r] = u[r] + t[r]
      BY <1>7, <1>8, <1>9, <2>1
    <3>3. /\ count[r] \in Nat /\ open[r] \in Nat /\ hits[r] \in Nat
          /\ t[r] \in Nat /\ u[r] \in Nat /\ v[r] \in Nat
      BY <1>8, <1>10
    <3>4. count[r] + open[r] + v[r] <= hits[r] + t[r]
      BY <3>1, <3>2, <3>3
    <3> QED BY <2>1, <3>2, <3>4
  <2> QED BY <2>2, <2>3 DEF CountedAtMostOnce, Times
<1>13. CASE ~(Len(b) < FlushSize)
  <2>1. /\ count' \in [Row -> Nat] /\ open' \in [Row -> Nat] /\ buffer' = <<>>
        /\ \A r \in Row : count'[r] + open'[r] <= count[r] + open[r] + v[r]
    BY <1>1, <1>4, <1>7, <1>9, <1>13, FlushCounts
  <2>2. buffer' \in Seq(Row) /\ Len(buffer') = 0
    BY <2>1
  <2>3. Shown'
    BY <1>2, <1>11, <2>1, <2>2, Numbers DEF Shown
  <2>4. ASSUME CountedAtMostOnce, NEW r \in Row
        PROVE  count'[r] + open'[r] + Times(buffer')[r] <= hits'[r]
    <3>1. count[r] + open[r] + u[r] <= hits[r]
      BY <1>6, <2>4 DEF CountedAtMostOnce
    <3>2. hits'[r] = hits[r] + t[r] /\ Times(buffer')[r] = 0 /\ v[r] = u[r] + t[r]
      BY <1>8, <1>9, <2>1, <2>2, TimesAre
    <3>3. count'[r] + open'[r] <= count[r] + open[r] + v[r]
      BY <2>1
    <3>4. /\ count[r] \in Nat /\ open[r] \in Nat /\ hits[r] \in Nat
          /\ t[r] \in Nat /\ u[r] \in Nat /\ v[r] \in Nat /\ count'[r] \in Nat /\ open'[r] \in Nat
      BY <1>8, <1>10, <2>1
    <3>5. count'[r] + open'[r] + 0 <= hits[r] + t[r]
      BY <3>1, <3>2, <3>3, <3>4
    <3> QED BY <3>2, <3>5
  <2> QED BY <2>3, <2>4 DEF CountedAtMostOnce, Times
<1> QED BY <1>12, <1>13

\* The flush at the end of a session.
LEMMA ShutdownCounts ==
    ASSUME Inv, Shutdown
    PROVE  Shown' /\ (CountedAtMostOnce => CountedAtMostOnce')
<1>1. Stage /\ Shown
  BY DEF Inv
<1>2. buffer \in Seq(Row) /\ open \in [Row -> Nat] /\ count \in [Row -> Nat] /\ hits \in [Row -> Nat]
  BY <1>1 DEF Shown
<1>3. results' = <<>> /\ asked' = asked /\ hits' = hits /\ buffer' = <<>>
  BY DEF Shutdown
<1>4. PICK u : u = Times(buffer)
  OBVIOUS
<1>5. PICK lost, C : /\ count' = Counted(C, Updated(buffer, lost))
                     /\ open' = [r \in Row |-> 0]
  BY DEF Shutdown
<1>6. PICK n : n = Updated(buffer, lost)
  OBVIOUS
<1>7. /\ count' \in [Row -> Nat] /\ open' \in [Row -> Nat] /\ u \in [Row -> Nat]
      /\ \A r \in Row : count'[r] + open'[r] <= count[r] + open[r] + u[r]
  <2>1. n \in [Row -> Nat] /\ u \in [Row -> Nat] /\ \A r \in Row : n[r] <= u[r]
    BY <1>2, <1>4, <1>6, UpdatedAre, TimesAre
  <2>2. count' = [r \in Row |-> count[r] + IF Home[r] \in C THEN open[r] + n[r] ELSE 0]
    BY <1>5, <1>6 DEF Counted
  <2>3. ASSUME NEW r \in Row
        PROVE  count'[r] \in Nat /\ open'[r] = 0 /\ count'[r] <= count[r] + open[r] + u[r]
    <3>1. /\ count[r] \in Nat /\ open[r] \in Nat /\ n[r] \in Nat /\ u[r] \in Nat /\ n[r] <= u[r]
          /\ open'[r] = 0
      BY <1>2, <1>5, <2>1
    <3>2. CASE Home[r] \in C
      BY <2>2, <3>1, <3>2
    <3>3. CASE Home[r] \notin C
      BY <2>2, <3>1, <3>3
    <3> QED BY <3>1, <3>2, <3>3
  <2>4. count' = [r \in Row |-> count'[r]] /\ open' = [r \in Row |-> open'[r]]
    BY <1>5, <2>2
  <2>5. \A r \in Row : count'[r] + open'[r] <= count[r] + open[r] + u[r]
    BY <1>2, <2>1, <2>3
  <2> QED BY <2>1, <2>3, <2>4, <2>5
<1>8. buffer' \in Seq(Row) /\ Len(buffer') = 0
  BY <1>3
<1>9. results' \in Seq(Row) /\ Len(results') = 0 /\ ToSet(results') = {}
  BY <1>3 DEF ToSet
<1>10. Shown'
  BY <1>2, <1>3, <1>7, <1>8, <1>9, Numbers DEF Shown
<1>11. ASSUME CountedAtMostOnce, NEW r \in Row
       PROVE  count'[r] + open'[r] + Times(buffer')[r] <= hits'[r]
  <2>1. count[r] + open[r] + u[r] <= hits[r]
    BY <1>4, <1>11 DEF CountedAtMostOnce
  <2>2. Times(buffer')[r] = 0 /\ count'[r] + open'[r] <= count[r] + open[r] + u[r]
    BY <1>3, <1>7, <1>8, TimesAre
  <2>3. /\ count[r] \in Nat /\ open[r] \in Nat /\ hits[r] \in Nat /\ u[r] \in Nat
        /\ count'[r] \in Nat /\ open'[r] \in Nat
    BY <1>2, <1>7
  <2>4. count'[r] + open'[r] + 0 <= hits[r]
    BY <2>1, <2>2, <2>3
  <2> QED BY <1>3, <2>2, <2>4
<1> QED BY <1>10, <1>11 DEF CountedAtMostOnce, Times

\* What other calls commit was open; what a dead process had is lost.
LEMMA OtherCounts ==
    ASSUME Inv, (\E d \in Db, commits \in BOOLEAN : OtherCall(d, commits)) \/ Die
    PROVE  Shown' /\ (CountedAtMostOnce => CountedAtMostOnce')
<1>1. Stage /\ Shown
  BY DEF Inv
<1>2. buffer \in Seq(Row) /\ open \in [Row -> Nat] /\ count \in [Row -> Nat] /\ hits \in [Row -> Nat]
  BY <1>1 DEF Shown
<1>3. PICK u : u = Times(buffer)
  OBVIOUS
<1>4. u \in [Row -> Nat]
  BY <1>2, <1>3, TimesAre
<1>5. ASSUME NEW d \in Db, NEW commits \in BOOLEAN, OtherCall(d, commits)
      PROVE  Shown' /\ (CountedAtMostOnce => CountedAtMostOnce')
  <2>1. /\ open' = [r \in Row |-> IF Home[r] = d THEN 0 ELSE open[r]]
        /\ count' = [r \in Row |-> count[r] + IF Home[r] = d /\ commits THEN open[r] ELSE 0]
        /\ results' = results /\ buffer' = buffer /\ hits' = hits /\ asked' = asked
    BY <1>5 DEF OtherCall
  <2>2. ASSUME NEW r \in Row
        PROVE  count'[r] \in Nat /\ open'[r] \in Nat /\ count'[r] + open'[r] <= count[r] + open[r]
    <3>1. count[r] \in Nat /\ open[r] \in Nat
      BY <1>2
    <3>2. CASE Home[r] = d /\ commits
      BY <2>1, <3>1, <3>2
    <3>3. CASE ~(Home[r] = d /\ commits)
      BY <2>1, <3>1, <3>3
    <3> QED BY <3>2, <3>3
  <2>3. open' \in [Row -> Nat] /\ count' \in [Row -> Nat]
    <3>1. count' = [r \in Row |-> count'[r]] /\ open' = [r \in Row |-> open'[r]]
      BY <2>1
    <3> QED BY <2>2, <3>1
  <2>4. Shown'
    BY <1>1, <2>1, <2>3 DEF Shown
  <2>5. ASSUME CountedAtMostOnce, NEW r \in Row
        PROVE  count'[r] + open'[r] + Times(buffer')[r] <= hits'[r]
    <3>1. count[r] + open[r] + u[r] <= hits[r]
      BY <1>3, <2>5 DEF CountedAtMostOnce
    <3>2. /\ count[r] \in Nat /\ open[r] \in Nat /\ hits[r] \in Nat /\ u[r] \in Nat
          /\ count'[r] \in Nat /\ open'[r] \in Nat
      BY <1>2, <1>4, <2>3
    <3>3. count'[r] + open'[r] + u[r] <= hits[r]
      BY <2>2, <3>1, <3>2
    <3> QED BY <1>3, <2>1, <3>3
  <2> QED BY <2>4, <2>5 DEF CountedAtMostOnce, Times
<1>6. CASE Die
  <2>1. /\ buffer' = <<>> /\ open' = [r \in Row |-> 0] /\ results' = <<>>
        /\ count' = count /\ hits' = hits
    BY <1>6 DEF Die
  <2>2. buffer' \in Seq(Row) /\ Len(buffer') = 0
    BY <2>1
  <2>3. results' \in Seq(Row) /\ Len(results') = 0 /\ ToSet(results') = {}
    BY <2>1 DEF ToSet
  <2>4. Shown'
    BY <1>2, <2>1, <2>2, <2>3, Numbers DEF Shown
  <2>5. ASSUME CountedAtMostOnce, NEW r \in Row
        PROVE  count'[r] + open'[r] + Times(buffer')[r] <= hits'[r]
    <3>1. count[r] + open[r] + u[r] <= hits[r]
      BY <1>3, <2>5 DEF CountedAtMostOnce
    <3>2. count[r] \in Nat /\ open[r] \in Nat /\ hits[r] \in Nat /\ u[r] \in Nat
      BY <1>2, <1>4
    <3>3. Times(buffer')[r] = 0 /\ count'[r] = count[r] /\ open'[r] = 0 /\ hits'[r] = hits[r]
      BY <2>1, <2>2, TimesAre
    <3> QED BY <3>1, <3>2, <3>3
  <2> QED BY <2>4, <2>5 DEF CountedAtMostOnce, Times
<1> QED BY <1>5, <1>6

LEMMA NextShown ==
    ASSUME Inv, [Next]_vars
    PROVE  Shown' /\ (CountedAtMostOnce => CountedAtMostOnce')
<1>1. Stage /\ Shown
  BY DEF Inv
<1>2. ASSUME UNCHANGED <<buffer, open, count, hits>> PROVE CountedAtMostOnce => CountedAtMostOnce'
  BY <1>2 DEF CountedAtMostOnce, Times
<1>3. ASSUME UNCHANGED <<buffer, open, count, hits>>,
             results' = <<>> \/ (results' = results /\ asked \subseteq asked')
      PROVE  Shown' /\ (CountedAtMostOnce => CountedAtMostOnce')
  BY <1>1, <1>2, <1>3, OthersShow
<1>4. ASSUME NEW c \in Request, Begin(c) PROVE Shown' /\ (CountedAtMostOnce => CountedAtMostOnce')
  <2>1. UNCHANGED <<buffer, open, count, hits>> /\ results' = <<>>
    BY <1>4 DEF Begin, access
  <2> QED BY <1>3, <2>1
<1>5. CASE EmbedRaises \/ Backfill \/ Fuse
  BY <1>3, <1>5 DEF EmbedRaises, Backfill, Fuse, access
<1>6. ASSUME NEW failed \in BOOLEAN, Bm25(failed) \/ Vector(failed) \/ Graph(failed)
      PROVE  Shown' /\ (CountedAtMostOnce => CountedAtMostOnce')
  BY <1>3, <1>6 DEF Bm25, Vector, Graph, access
<1>7. CASE Finish \/ Shutdown
  BY <1>7, FinishCounts, ShutdownCounts
<1>8. ASSUME NEW d \in Db, SetProject(d) PROVE Shown' /\ (CountedAtMostOnce => CountedAtMostOnce')
  BY <1>3, <1>8 DEF SetProject, access
<1>9. CASE (\E d \in Db, commits \in BOOLEAN : OtherCall(d, commits)) \/ Die
  BY <1>9, OtherCounts
<1>10. ASSUME NEW r \in Row, Toggle(r) PROVE Shown' /\ (CountedAtMostOnce => CountedAtMostOnce')
  BY <1>3, <1>10 DEF Toggle, access
<1>11. ASSUME NEW D, NEW filter, FanOut(D, filter)
       PROVE  Shown' /\ (CountedAtMostOnce => CountedAtMostOnce')
  <2>1. UNCHANGED <<buffer, open, count, hits>> /\ asked' = active
    BY <1>11 DEF FanOut, access
  <2>2. results' \in Seq(Row) /\ Len(results') <= Limit /\ ToSet(results') \subseteq active
    BY <1>11, FanOutAnswers
  <2> QED BY <1>1, <1>2, <2>1, <2>2 DEF Shown
<1>12. CASE UNCHANGED vars
  BY <1>3, <1>12 DEF vars, access
<1> QED
  BY <1>4, <1>5, <1>6, <1>7, <1>8, <1>9, <1>10, <1>11, <1>12 DEF Next

-----------------------------------------------------------------------------
(* Theorems *)

LEMMA Invariance == Spec => []Inv
<1>1. Inv /\ [Next]_vars => Inv'
  BY NextStage, NextShown DEF Inv
<1> QED BY InitInv, <1>1, PTL DEF Spec

\* An answer shows no more rows than asked for, and only such as were active at some
\* time of the call: whatever other processes hide between its statements, and
\* whichever leg, back-fill, rerank or fan-out the row came by.
THEOREM TypeCorrect == Spec => []TypeOK
<1>1. Inv => TypeOK
  BY DEF Inv, Stage, Shown, TypeOK
<1> QED BY Invariance, <1>1, PTL

\* An answer counts an access of a row at most once, whichever flush, commit, shutdown
\* or other call carries it, and whichever UPDATEs and commits fail, each on its own.
THEOREM CountedOnce == Spec => []CountedAtMostOnce
<1>1. Init => CountedAtMostOnce
  <2> SUFFICES ASSUME Init, NEW r \in Row PROVE count[r] + open[r] + Times(buffer)[r] <= hits[r]
    BY DEF CountedAtMostOnce
  <2>1. buffer \in Seq(Row) /\ buffer = <<>>
    BY DEF Init
  <2>2. Times(buffer)[r] = 0
    BY <2>1, TimesAre
  <2> QED BY <2>2 DEF Init
<1>2. Inv /\ CountedAtMostOnce /\ [Next]_vars => CountedAtMostOnce'
  BY NextShown
<1> QED BY Invariance, <1>1, <1>2, PTL DEF Spec

\* A row that is ahead of another in every list that has the other, and boosted as much,
\* scores at least as high: the fusion, its normalisation to this database and the
\* boosts keep the order that the lists agree on.
THEOREM AheadIsHigher == Spec => []AheadEverywhereIsHigher
<1>1. Inv => AheadEverywhereIsHigher
  <2> SUFFICES ASSUME Inv, NEW a \in Named(lists), NEW b \in Named(lists), Bonus[a] >= Bonus[b],
                      \A c \in DOMAIN lists : Ahead(lists[c], a, b)
               PROVE  Score(lists, a, Here) >= Score(lists, b, Here)
    BY DEF AheadEverywhereIsHigher
  <2>1. lists \in Lists
    BY DEF Inv, Stage
  <2>2. Fused(lists, b) <= Fused(lists, a)
    BY <2>1, FusedIsHigher
  <2>3. a \in Row /\ b \in Row
    BY <2>1, NamedAre
  <2>4. Bonus[b] <= Bonus[a]
    BY <2>3, Numbers
  <2>5. Score(lists, b, Here) <= Score(lists, a, Here)
    BY <2>1, <2>2, <2>4, ScoreIs
  <2>6. Score(lists, a, Here) \in Int /\ Score(lists, b, Here) \in Int
    BY <2>1, ScoreIs
  <2> QED BY <2>5, <2>6
<1> QED BY Invariance, <1>1, PTL
=============================================================================
