---------------------- MODULE CatscopeTransactionProofs ---------------------
(***************************************************************************)
(* Proofs about CatscopeTransaction, for any ids, programs and bytes, any  *)
(* number of instructions of any length, and any width of the chunk ends.  *)
(***************************************************************************)
EXTENDS CatscopeTransaction, FiniteSetTheorems, TLAPS

-----------------------------------------------------------------------------
(* Induction and recursion over the positions of a list.                   *)

(* What holds of 0 and is handed on holds up to n.                         *)
LEMMA Induction ==
  ASSUME NEW n \in Nat, NEW P, 0 \in P, \A k \in 0 .. n - 1 : k \in P => k + 1 \in P
  PROVE  \A k \in 0 .. n : k \in P
<1> DEFINE D == {k \in 0 .. n : k \notin P}
<1> SUFFICES ASSUME D # {} PROVE FALSE
  OBVIOUS
<1>1. D \in SUBSET Nat
  OBVIOUS
<1>2. PICK x \in D : \A y \in D : ~ (<<y, x>> \in OpToRel(<, Nat))
  BY <1>1, NatLessThanWellFounded, WFMin
<1>3. \A y \in D : ~ (y < x)
  BY <1>1, <1>2 DEF OpToRel
<1>4. x # 0 /\ x - 1 \in 0 .. n - 1 /\ (x - 1) + 1 = x
  <2>1. x \in 0 .. n /\ x \notin P
    OBVIOUS
  <2>2. x # 0
    BY <2>1
  <2> QED BY <2>1, <2>2
<1>5. x - 1 \notin D
  BY <1>3, <1>4
<1>6. x - 1 \in P
  BY <1>4, <1>5
<1> QED BY <1>4, <1>6

(* g carries a state along a list, from s0 and one element after the other *)
(* with the steps of F.                                                    *)
Carries(S, F, s0, n, ids, g) ==
  /\ g \in [0 .. n -> S] /\ g[0] = s0
  /\ \A k \in 1 .. n : g[k] = F[g[k - 1]][ids[k]]

(* A state can be carried along every list.                                *)
LEMMA Recursion ==
  ASSUME NEW S, NEW E, NEW F \in [S -> [E -> S]], NEW s0 \in S,
         NEW n \in Nat, NEW ids \in [1 .. n -> E]
  PROVE  \E g : Carries(S, F, s0, n, ids, g)
<1> DEFINE Good(m, g) == /\ g \in [0 .. m -> S] /\ g[0] = s0
                         /\ \A k \in 1 .. m : g[k] = F[g[k - 1]][ids[k]]
           P == {m \in 0 .. n : \E g : Good(m, g)}
<1>2. 0 \in P
  <2>1. Good(0, [k \in 0 .. 0 |-> s0])
    OBVIOUS
  <2>2. 0 \in 0 .. n
    OBVIOUS
  <2> HIDE DEF Good
  <2> QED BY <2>1, <2>2
<1>3. ASSUME NEW m \in 0 .. n - 1, m \in P PROVE m + 1 \in P
  <2>1. PICK g : Good(m, g)
    BY <1>3
  <2>2. m \in Nat /\ m + 1 \in 1 .. n /\ m + 1 \in 0 .. n /\ (m + 1) - 1 = m /\ m \in 0 .. m
    OBVIOUS
  <2> DEFINE last == F[g[m]][ids[m + 1]]
  <2>3. last \in S
    BY <2>1, <2>2
  <2> DEFINE h == [k \in 0 .. m + 1 |-> IF k <= m THEN g[k] ELSE last]
  <2>4. h \in [0 .. m + 1 -> S] /\ h[0] = s0
    BY <2>1, <2>2, <2>3
  <2>5. \A k \in 0 .. m : h[k] = g[k]
    BY <2>2
  <2>6. h[m + 1] = last
    BY <2>2
  <2> HIDE DEF h
  <2>7. ASSUME NEW k \in 1 .. m + 1 PROVE h[k] = F[h[k - 1]][ids[k]]
    <3>1. CASE k = m + 1
      <4>1. h[k - 1] = g[m] /\ h[k] = last
        BY <2>2, <2>5, <2>6, <3>1
      <4> QED BY <3>1, <4>1
    <3>2. CASE k # m + 1
      <4>1. k \in 1 .. m /\ k \in 0 .. m /\ k - 1 \in 0 .. m
        BY <2>2, <3>2
      <4> QED BY <2>1, <2>5, <4>1
    <3> QED BY <3>1, <3>2
  <2>8. Good(m + 1, h)
    BY <2>4, <2>7
  <2> HIDE DEF Good
  <2> QED BY <2>2, <2>8
<1>4. n \in P
  <2> HIDE DEF P
  <2>1. \A k \in 0 .. n : k \in P
    BY <1>2, <1>3, Induction
  <2> QED BY <2>1
<1> QED BY <1>4 DEF Carries

-----------------------------------------------------------------------------
(* Parts of lists.                                                         *)

(* A list behind another one.                                              *)
LEMMA ConcatFacts ==
  ASSUME NEW S, NEW x \in Seq(S), NEW y \in Seq(S)
  PROVE  /\ x \o y \in Seq(S) /\ Len(x \o y) = Len(x) + Len(y)
         /\ \A k \in 1 .. Len(x) : (x \o y)[k] = x[k]
         /\ \A k \in 1 .. Len(y) : (x \o y)[Len(x) + k] = y[k]
OBVIOUS

(* A part of a list, possibly an empty one.                                *)
LEMMA PartFacts ==
  ASSUME NEW S, NEW s \in Seq(S), NEW i \in Nat, NEW j \in Nat, i <= j, j <= Len(s)
  PROVE  /\ SubSeq(s, i + 1, j) \in Seq(S) /\ Len(SubSeq(s, i + 1, j)) = j - i
         /\ \A k \in 1 .. j - i : SubSeq(s, i + 1, j)[k] = s[i + k]
<1> DEFINE r == [k \in 1 .. j - i |-> s[i + k]]
<1>1. Len(s) \in Nat /\ j - i \in Nat
  OBVIOUS
<1>2. \A k \in 1 .. j - i : i + k \in 1 .. Len(s) /\ s[i + k] \in S
  BY <1>1
<1>3. SubSeq(s, i + 1, j) = r
  BY <1>1
<1>4. r \in Seq(S) /\ Len(r) = j - i
  BY <1>1, <1>2
<1> QED BY <1>3, <1>4

(* Two lists of the same elements are the same.                            *)
LEMMA SameList ==
  ASSUME NEW S, NEW x \in Seq(S), NEW y \in Seq(S), NEW n \in Nat, Len(x) = n, Len(y) = n,
         \A k \in 1 .. n : x[k] = y[k]
  PROVE  x = y
OBVIOUS

(* A list over a set is one over a wider set.                              *)
LEMMA WiderList ==
  ASSUME NEW S, NEW T, S \subseteq T, NEW s \in Seq(S)
  PROVE  s \in Seq(T)
OBVIOUS

-----------------------------------------------------------------------------
(* Sums.                                                                   *)

(* The partial sums of a list.                                             *)
Sums(s, g) ==
  /\ g \in [0 .. Len(s) -> Nat] /\ g[0] = 0
  /\ \A k \in 1 .. Len(s) : g[k] = g[k - 1] + s[k]

(* The sum is the last of the partial sums.                                *)
LEMMA TotalIsSum ==
  ASSUME NEW s \in Seq(Nat)
  PROVE  \E g : Sums(s, g) /\ Total(s) = g[Len(s)]
<1> DEFINE F == [a \in Nat |-> [b \in Nat |-> a + b]]
           sum[k \in 0 .. Len(s)] == IF k = 0 THEN 0 ELSE sum[k - 1] + s[k]
<1>1. F \in [Nat -> [Nat -> Nat]] /\ Len(s) \in Nat /\ \A k \in 1 .. Len(s) : s[k] \in Nat
  OBVIOUS
<1>0. \A a, b \in Nat : F[a][b] = a + b
  OBVIOUS
<1>9. s \in [1 .. Len(s) -> Nat]
  OBVIOUS
<1> HIDE DEF F
<1>2. PICK g : Carries(Nat, F, 0, Len(s), s, g)
  BY <1>1, <1>9, Recursion
<1>3. /\ g \in [0 .. Len(s) -> Nat] /\ g[0] = 0
      /\ \A k \in 1 .. Len(s) : g[k] = F[g[k - 1]][s[k]]
  BY <1>2 DEF Carries
<1>4. g = [k \in 0 .. Len(s) |-> IF k = 0 THEN 0 ELSE g[k - 1] + s[k]]
  <2>1. \A k \in 0 .. Len(s) : k # 0 => k \in 1 .. Len(s) /\ k - 1 \in 0 .. Len(s)
    BY <1>1
  <2>2. \A k \in 0 .. Len(s) : g[k] = IF k = 0 THEN 0 ELSE g[k - 1] + s[k]
    BY <1>0, <1>1, <1>3, <2>1
  <2> QED BY <1>3, <2>2
<1>5. sum = [k \in 0 .. Len(s) |-> IF k = 0 THEN 0 ELSE sum[k - 1] + s[k]]
  <2> DEFINE Solves(f) == f = [k \in 0 .. Len(s) |-> IF k = 0 THEN 0 ELSE f[k - 1] + s[k]]
  <2>1. Solves(g)
    BY <1>4
  <2>2. sum = CHOOSE f : Solves(f)
    OBVIOUS
  <2> HIDE DEF Solves, sum
  <2>3. Solves(sum)
    BY <2>1, <2>2
  <2> QED BY <2>3 DEF Solves
<1>6. Total(s) = sum[Len(s)]
  BY DEF Total
<1> HIDE DEF sum
<1>7. \A k \in 0 .. Len(s) : sum[k] \in Nat
  <2> DEFINE P == {k \in 0 .. Len(s) : sum[k] \in Nat}
  <2>1. 0 \in P
    BY <1>1, <1>5
  <2>2. ASSUME NEW k \in 0 .. Len(s) - 1, k \in P PROVE k + 1 \in P
    <3>1. k + 1 \in 0 .. Len(s) /\ k + 1 \in 1 .. Len(s) /\ (k + 1) - 1 = k /\ k + 1 # 0
      BY <1>1
    <3>2. sum[k + 1] = sum[k] + s[k + 1]
      BY <1>5, <3>1
    <3>3. sum[k] \in Nat /\ s[k + 1] \in Nat
      BY <1>1, <2>2, <3>1
    <3>4. sum[k + 1] \in Nat
      BY <3>2, <3>3
    <3> QED BY <3>1, <3>4
  <2> HIDE DEF P
  <2>3. \A k \in 0 .. Len(s) : k \in P
    BY <1>1, <2>1, <2>2, Induction
  <2> QED BY <2>3 DEF P
<1>8. Sums(s, sum)
  <2>1. sum \in [0 .. Len(s) -> Nat]
    BY <1>5, <1>7
  <2>2. 0 \in 0 .. Len(s) /\ \A k \in 1 .. Len(s) : k \in 0 .. Len(s) /\ k # 0
    BY <1>1
  <2>3. sum[0] = 0 /\ \A k \in 1 .. Len(s) : sum[k] = sum[k - 1] + s[k]
    BY <1>5, <2>2
  <2> QED BY <2>1, <2>3 DEF Sums
<1> QED BY <1>6, <1>8

(* The empty list.                                                         *)
LEMMA TotalEmpty ==
  ASSUME NEW s \in Seq(Nat), Len(s) = 0
  PROVE  Total(s) = 0
BY TotalIsSum DEF Sums

(* A longer list adds its last number.                                     *)
LEMMA TotalLast ==
  ASSUME NEW s \in Seq(Nat), NEW t \in Seq(Nat), NEW n \in Nat, Len(s) = n, Len(t) = n + 1,
         \A k \in 1 .. n : t[k] = s[k]
  PROVE  Total(s) \in Nat /\ Total(t) = Total(s) + t[n + 1]
<1>1. PICK g : Sums(s, g) /\ Total(s) = g[n]
  BY TotalIsSum
<1>2. PICK h : Sums(t, h) /\ Total(t) = h[n + 1]
  BY TotalIsSum
<1>3. /\ g \in [0 .. n -> Nat] /\ g[0] = 0 /\ \A k \in 1 .. n : g[k] = g[k - 1] + s[k]
      /\ h \in [0 .. n + 1 -> Nat] /\ h[0] = 0
      /\ \A k \in 1 .. n + 1 : h[k] = h[k - 1] + t[k]
  BY <1>1, <1>2 DEF Sums
<1> DEFINE P == {k \in 0 .. n : h[k] = g[k]}
<1>4. 0 \in P
  BY <1>3
<1>5. ASSUME NEW k \in 0 .. n - 1, k \in P PROVE k + 1 \in P
  <2>1. k + 1 \in 1 .. n /\ k + 1 \in 1 .. n + 1 /\ k + 1 \in 0 .. n /\ (k + 1) - 1 = k
    OBVIOUS
  <2>2. h[k + 1] = h[k] + t[k + 1] /\ g[k + 1] = g[k] + s[k + 1] /\ h[k] = g[k]
    BY <1>3, <1>5, <2>1
  <2> QED BY <2>1, <2>2
<1>6. n \in P
  <2> HIDE DEF P
  <2>1. \A k \in 0 .. n : k \in P
    BY <1>4, <1>5, Induction
  <2> QED BY <2>1
<1>7. n + 1 \in 1 .. n + 1 /\ (n + 1) - 1 = n /\ n \in 0 .. n
  OBVIOUS
<1>8. h[n] = g[n] /\ h[n + 1] = h[n] + t[n + 1]
  BY <1>3, <1>6, <1>7
<1> QED BY <1>1, <1>2, <1>3, <1>7, <1>8

(* No number of a list is greater than the sum.                            *)
LEMMA TotalBound ==
  ASSUME NEW s \in Seq(Nat), NEW n \in Nat, Len(s) = n, NEW j \in 1 .. n
  PROVE  s[j] <= Total(s)
<1>1. PICK g : Sums(s, g) /\ Total(s) = g[n]
  BY TotalIsSum
<1>2. /\ \A k \in 0 .. n : g[k] \in Nat
      /\ \A k \in 1 .. n : g[k] = g[k - 1] + s[k]
      /\ \A k \in 1 .. n : s[k] \in Nat
  <2>1. \A k \in 1 .. n : s[k] \in Nat
    OBVIOUS
  <2> QED BY <1>1, <2>1 DEF Sums
<1> DEFINE P == {k \in 0 .. n : j <= k => s[j] <= g[k]}
<1>3. 0 \in P
  OBVIOUS
<1>4. ASSUME NEW k \in 0 .. n - 1, k \in P PROVE k + 1 \in P
  <2>1. k + 1 \in 1 .. n /\ k + 1 \in 0 .. n /\ (k + 1) - 1 = k /\ k \in 0 .. n
    OBVIOUS
  <2>2. g[k + 1] = g[k] + s[k + 1] /\ g[k] \in Nat /\ s[k + 1] \in Nat
    BY <1>2, <2>1
  <2>3. CASE j = k + 1
    BY <2>1, <2>2, <2>3
  <2>4. CASE j <= k
    <3>1. s[j] <= g[k] /\ s[j] \in Nat
      BY <1>2, <1>4, <2>4
    <3> QED BY <2>1, <2>2, <3>1
  <2>5. CASE ~(j <= k) /\ j # k + 1
    BY <2>1, <2>5
  <2> QED BY <2>3, <2>4, <2>5
<1>5. n \in P
  <2> HIDE DEF P
  <2>1. \A k \in 0 .. n : k \in P
    BY <1>3, <1>4, Induction
  <2> QED BY <2>1
<1> QED BY <1>1, <1>5

(* A list with one number raised by one has a sum raised by one.           *)
LEMMA TotalRaised ==
  ASSUME NEW s \in Seq(Nat), NEW t \in Seq(Nat), NEW n \in Nat, Len(s) = n, Len(t) = n,
         NEW j \in 1 .. n, t[j] = s[j] + 1, \A k \in 1 .. n : k # j => t[k] = s[k]
  PROVE  Total(t) = Total(s) + 1
<1>1. PICK g : Sums(s, g) /\ Total(s) = g[n]
  BY TotalIsSum
<1>2. PICK h : Sums(t, h) /\ Total(t) = h[n]
  BY TotalIsSum
<1>3. /\ g \in [0 .. n -> Nat] /\ g[0] = 0 /\ \A k \in 1 .. n : g[k] = g[k - 1] + s[k]
      /\ h \in [0 .. n -> Nat] /\ h[0] = 0 /\ \A k \in 1 .. n : h[k] = h[k - 1] + t[k]
  BY <1>1, <1>2 DEF Sums
<1> DEFINE Extra(k) == IF j <= k THEN 1 ELSE 0
           P == {k \in 0 .. n : h[k] = g[k] + Extra(k)}
<1>4. 0 \in P
  BY <1>3
<1>5. ASSUME NEW k \in 0 .. n - 1, k \in P PROVE k + 1 \in P
  <2>1. k + 1 \in 1 .. n /\ k + 1 \in 0 .. n /\ (k + 1) - 1 = k /\ k \in 0 .. n
    OBVIOUS
  <2>2. /\ h[k + 1] = h[k] + t[k + 1] /\ g[k + 1] = g[k] + s[k + 1]
        /\ g[k] \in Nat /\ s[k + 1] \in Nat
    <3>1. \A i \in 1 .. n : s[i] \in Nat
      OBVIOUS
    <3>2. g[k] \in Nat
      BY <1>3, <2>1
    <3>3. h[k + 1] = h[k] + t[k + 1] /\ g[k + 1] = g[k] + s[k + 1]
      BY <1>3, <2>1
    <3> QED BY <2>1, <3>1, <3>2, <3>3
  <2>6. h[k] = g[k] + Extra(k)
    BY <1>5
  <2>3. t[k + 1] = s[k + 1] + (IF k + 1 = j THEN 1 ELSE 0)
    BY <2>1, <2>2
  <2>4. Extra(k + 1) = Extra(k) + (IF k + 1 = j THEN 1 ELSE 0) /\ Extra(k) \in Nat
    OBVIOUS
  <2>5. h[k + 1] = g[k + 1] + Extra(k + 1)
    <3> DEFINE more == IF k + 1 = j THEN 1 ELSE 0
    <3>1. more \in Nat
      OBVIOUS
    <3> HIDE DEF Extra, more
    <3> QED BY <2>2, <2>3, <2>4, <2>6, <3>1 DEF more
  <2> QED BY <2>1, <2>5
<1>6. n \in P
  <2> HIDE DEF P
  <2>1. \A k \in 0 .. n : k \in P
    BY <1>4, <1>5, Induction
  <2> QED BY <2>1
<1>7. h[n] = g[n] + 1
  BY <1>6
<1> QED BY <1>1, <1>2, <1>7

-----------------------------------------------------------------------------
(* The sorted list of accounts.                                            *)

Sorted(s) == \A i, j \in DOMAIN s : i < j => s[i] < s[j]
SortedLists == {s \in Seq(AccountId) : Sorted(s)}

(* The ids below a new one are the first ones of a sorted list.            *)
LEMMA PlaceFacts ==
  ASSUME NEW s \in SortedLists, NEW id \in AccountId
  PROVE  \E m \in 0 .. Len(s) :
           /\ Place(s, id) = m + 1
           /\ \A j \in DOMAIN s : s[j] < id <=> j <= m
<1> USE TransactionAssumption
<1> DEFINE D == {j \in DOMAIN s : s[j] < id}
           n == Len(s)
<1>1. /\ n \in Nat /\ DOMAIN s = 1 .. n /\ \A j \in 1 .. n : s[j] \in Nat
      /\ id \in Nat /\ \A i, j \in 1 .. n : i < j => s[i] < s[j]
  BY DEF SortedLists, Sorted
<1>2. \A i, j \in 1 .. n : i < j /\ s[j] < id => s[i] < id
  <2> HIDE DEF n
  <2> QED BY <1>1
<1>3. PICK m \in 0 .. n : D = 1 .. m
  <2> HIDE DEF n
  <2> DEFINE P == {k \in 0 .. n : \E m \in 0 .. k : \A j \in 1 .. k : s[j] < id <=> j <= m}
  <2>1. 0 \in P
    BY <1>1
  <2>2. ASSUME NEW k \in 0 .. n - 1, k \in P PROVE k + 1 \in P
    <3>1. PICK m \in 0 .. k : \A j \in 1 .. k : s[j] < id <=> j <= m
      BY <2>2
    <3>2. k \in Nat /\ k + 1 \in 1 .. n /\ k + 1 \in 0 .. n
      BY <1>1
    <3>3. CASE s[k + 1] < id
      <4>1. \A j \in 1 .. k + 1 : s[j] < id
        BY <1>1, <1>2, <3>2, <3>3
      <4>2. \A j \in 1 .. k + 1 : s[j] < id <=> j <= k + 1
        BY <4>1, <3>2
      <4>3. k + 1 \in 0 .. k + 1
        BY <3>2
      <4> QED BY <3>2, <4>2, <4>3
    <3>4. CASE ~(s[k + 1] < id)
      <4>1. \A j \in 1 .. k + 1 : s[j] < id <=> j <= m
        BY <3>1, <3>2, <3>4
      <4>2. m \in 0 .. k + 1
        BY <3>2
      <4> QED BY <3>2, <4>1, <4>2
    <3> QED BY <3>3, <3>4
  <2>3. n \in P
    <3> HIDE DEF P
    <3>1. \A k \in 0 .. n : k \in P
      BY <1>1, <2>1, <2>2, Induction
    <3> QED BY <1>1, <3>1
  <2>4. PICK m \in 0 .. n : \A j \in 1 .. n : s[j] < id <=> j <= m
    BY <2>3
  <2>5. D = 1 .. m
    BY <1>1, <2>4
  <2> QED BY <2>5
<1>4. Cardinality(1 .. m) = m
  BY <1>1, FS_Interval
<1>5. Place(s, id) = m + 1
  BY <1>3, <1>4 DEF Place
<1>6. \A j \in DOMAIN s : s[j] < id <=> j <= m
  BY <1>1, <1>3
<1> QED BY <1>5, <1>6

(* Inserting at the place that binary_search finds keeps the list sorted.  *)
LEMMA InsertFacts ==
  ASSUME NEW s \in SortedLists, NEW id \in AccountId
  PROVE  Insert(s, id) \in SortedLists
<1> USE TransactionAssumption
<1> DEFINE n == Len(s)
           r == InsertAt(s, Place(s, id), id)
<1>1. CASE Contains(s, id)
  BY <1>1 DEF Insert
<1>2. CASE ~Contains(s, id)
  <2>1. /\ s \in Seq(AccountId) /\ n \in Nat /\ DOMAIN s = 1 .. n
        /\ \A j \in 1 .. n : s[j] \in AccountId
        /\ \A j \in 1 .. n : s[j] # id
    BY <1>2 DEF SortedLists, Contains
  <2>2. \A i, j \in 1 .. n : i < j => s[i] < s[j]
    BY <2>1 DEF SortedLists, Sorted
  <2>3. PICK m \in 0 .. n : Place(s, id) = m + 1 /\ \A j \in 1 .. n : s[j] < id <=> j <= m
    BY <2>1, PlaceFacts
  <2>4. r = (SubSeq(s, 1, m) \o <<id>>) \o SubSeq(s, m + 1, n)
    <3>1. (m + 1) - 1 = m
      OBVIOUS
    <3> QED BY <2>3, <3>1 DEF InsertAt
  <2> HIDE DEF n, r
  <2> DEFINE a == SubSeq(s, 1, m)
             b == SubSeq(s, m + 1, n)
  <2>5. a \in Seq(AccountId) /\ Len(a) = m /\ \A k \in 1 .. m : a[k] = s[k]
    BY <2>1 DEF n
  <2>6. b \in Seq(AccountId) /\ Len(b) = n - m /\ \A k \in 1 .. n - m : b[k] = s[m + k]
    <3>1. m \in Nat /\ n \in Nat /\ m <= n /\ n <= Len(s)
      BY <2>1 DEF n
    <3> QED BY <2>1, <3>1, PartFacts
  <2> HIDE DEF a, b
  <2>7. /\ a \o <<id>> \in Seq(AccountId) /\ Len(a \o <<id>>) = m + 1
        /\ \A k \in 1 .. m : (a \o <<id>>)[k] = s[k]
        /\ (a \o <<id>>)[m + 1] = id
    BY <2>1, <2>5
  <2>8. PICK c \in Seq(AccountId) : c = a \o <<id>>
    BY <2>7
  <2>9. r = c \o b
    BY <2>4, <2>8 DEF a, b
  <2>10. r \in Seq(AccountId) /\ Len(r) = n + 1 /\ DOMAIN r = 1 .. n + 1
    <3>1. Len(c) = m + 1
      BY <2>7, <2>8
    <3>2. r \in Seq(AccountId) /\ Len(r) = Len(c) + Len(b)
      BY <2>6, <2>9, ConcatFacts
    <3> QED BY <2>1, <2>6, <3>1, <3>2
  <2>11. \A k \in 1 .. n + 1 :
           r[k] = IF k <= m THEN s[k] ELSE IF k = m + 1 THEN id ELSE s[k - 1]
    <3> SUFFICES ASSUME NEW k \in 1 .. n + 1
                 PROVE  r[k] = IF k <= m THEN s[k] ELSE IF k = m + 1 THEN id ELSE s[k - 1]
      OBVIOUS
    <3>1. CASE k <= m + 1
      <4>1. r[k] = c[k]
        BY <2>1, <2>6, <2>7, <2>8, <2>9, <3>1
      <4> QED BY <2>1, <2>7, <2>8, <3>1, <4>1
    <3>2. CASE k > m + 1
      <4>1. r[k] = b[k - (m + 1)] /\ k - (m + 1) \in 1 .. n - m /\ m + (k - (m + 1)) = k - 1
        <5>1. Len(c) = m + 1
          BY <2>7, <2>8
        <5>2. k - (m + 1) \in 1 .. n - m /\ m + (k - (m + 1)) = k - 1 /\ (m + 1) + (k - (m + 1)) = k
          BY <2>1, <3>2
        <5>3. r[(m + 1) + (k - (m + 1))] = b[k - (m + 1)]
          BY <2>6, <2>9, <5>1, <5>2, ConcatFacts
        <5> QED BY <5>2, <5>3
      <4>2. b[k - (m + 1)] = s[k - 1]
        BY <2>6, <4>1
      <4> QED BY <2>1, <3>2, <4>1, <4>2
    <3> QED BY <2>1, <3>1, <3>2
  <2>12. \A j \in 1 .. n : s[j] \in Nat /\ (m < j => id < s[j]) /\ (j <= m => s[j] < id)
    <3>1. \A j \in 1 .. n : s[j] \in Nat /\ id \in Nat
      BY <2>1
    <3> QED BY <2>1, <2>3, <3>1
  <2>13. ASSUME NEW i \in 1 .. n + 1, NEW j \in 1 .. n + 1, i < j PROVE r[i] < r[j]
    <3>1. CASE j <= m
      BY <2>1, <2>2, <2>11, <2>13, <3>1
    <3>2. CASE j = m + 1
      BY <2>1, <2>11, <2>12, <2>13, <3>2
    <3>3. CASE j > m + 1
      <4>1. j - 1 \in 1 .. n /\ m < j - 1 /\ r[j] = s[j - 1]
        BY <2>1, <2>11, <3>3
      <4>2. CASE i <= m
        <5>1. i \in 1 .. n /\ i < j - 1 /\ r[i] = s[i]
          BY <2>1, <2>11, <4>1, <4>2
        <5> QED BY <2>2, <4>1, <5>1
      <4>3. CASE i = m + 1
        BY <2>1, <2>11, <2>12, <4>1, <4>3
      <4>4. CASE i > m + 1
        <5>1. i - 1 \in 1 .. n /\ i - 1 < j - 1 /\ r[i] = s[i - 1]
          BY <2>1, <2>11, <2>13, <4>4
        <5> QED BY <2>2, <4>1, <5>1
      <4> QED BY <2>1, <4>2, <4>3, <4>4
    <3> QED BY <2>1, <3>1, <3>2, <3>3
  <2>14. r \in SortedLists
    BY <2>10, <2>13 DEF SortedLists, Sorted
  <2> QED BY <1>2, <2>14 DEF Insert, r
<1> QED BY <1>1, <1>2

(* The Drop of a handle merges its ids into a list that stays sorted.      *)
LEMMA MergeFacts ==
  ASSUME NEW s \in SortedLists, NEW ids \in Seq(AccountId)
  PROVE  Merge(s, ids) \in SortedLists
<1> DEFINE F == [x \in SortedLists |-> [e \in AccountId |-> Insert(x, e)]]
           n == Len(ids)
           Solves(f) == f = [k \in 0 .. n |-> IF k = 0 THEN s ELSE Insert(f[k - 1], ids[k])]
           merged[k \in 0 .. n] == IF k = 0 THEN s ELSE Insert(merged[k - 1], ids[k])
<1>1. Merge(s, ids) = merged[n]
  BY DEF Merge
<1>2. merged = CHOOSE f : Solves(f)
  OBVIOUS
<1> HIDE DEF merged
<1>3. /\ F \in [SortedLists -> [AccountId -> SortedLists]]
      /\ \A x \in SortedLists : \A e \in AccountId : F[x][e] = Insert(x, e)
  BY InsertFacts
<1>4. n \in Nat /\ ids \in [1 .. n -> AccountId]
  OBVIOUS
<1> HIDE DEF F, n
<1>5. PICK g : Carries(SortedLists, F, s, n, ids, g)
  BY <1>3, <1>4, Recursion
<1>6. /\ g \in [0 .. n -> SortedLists] /\ g[0] = s
      /\ \A k \in 1 .. n : g[k] = F[g[k - 1]][ids[k]]
  BY <1>5 DEF Carries
<1>7. Solves(g)
  <2>1. \A k \in 0 .. n : k # 0 => k \in 1 .. n /\ k - 1 \in 0 .. n
    BY <1>4
  <2>2. \A k \in 0 .. n : g[k] = IF k = 0 THEN s ELSE Insert(g[k - 1], ids[k])
    BY <1>3, <1>4, <1>6, <2>1
  <2> QED BY <1>6, <2>2
<1>8. Solves(merged)
  <2> HIDE DEF Solves
  <2> QED BY <1>2, <1>7
<1> DEFINE P == {k \in 0 .. n : merged[k] \in SortedLists}
<1>9. 0 \in P
  BY <1>4, <1>8
<1>10. ASSUME NEW k \in 0 .. n - 1, k \in P PROVE k + 1 \in P
  <2>1. k + 1 \in 0 .. n /\ k + 1 \in 1 .. n /\ (k + 1) - 1 = k /\ k + 1 # 0
    BY <1>4
  <2>2. merged[k + 1] = Insert(merged[k], ids[k + 1])
    BY <1>8, <2>1
  <2>3. merged[k] \in SortedLists /\ ids[k + 1] \in AccountId
    BY <1>4, <1>10, <2>1
  <2>4. merged[k + 1] \in SortedLists
    BY <2>2, <2>3, InsertFacts
  <2> QED BY <2>1, <2>4
<1>11. n \in P
  <2> HIDE DEF P
  <2>1. \A k \in 0 .. n : k \in P
    BY <1>4, <1>9, <1>10, Induction
  <2> QED BY <1>4, <2>1
<1> QED BY <1>1, <1>11

-----------------------------------------------------------------------------
(* The inductive invariant.                                                *)

Lists == {"outer", "inner"}
Given == [list : Lists, i : Nat, program : Program \cup {0},
          account : Seq(AccountId), data : Seq(Byte)]

TxSet ==
  [outer : Seq(Instruction), inner : Seq(Instruction), l1_inner : Seq(0 .. U8 - 1),
   account_chunk_last : Seq(0 .. U16 - 1), account_chunk : Seq(AccountId),
   data_chunk_last : Seq(0 .. U16 - 1), data_chunk : Seq(Byte), account : Seq(AccountId)]

Accounts(g) == [c \in DOMAIN g |-> g[c].account]
Datas(g) == [c \in DOMAIN g |-> g[c].data]

Typed == TypeOK /\ given \in Seq(Given)

(* The tables and lists grow together, also while a handle is open.        *)
InStep ==
  /\ Len(tx.account_chunk_last) = Len(given)
  /\ Len(tx.data_chunk_last) = Len(given)
  /\ Len(given) = Len(tx.outer) + Len(tx.inner)
  /\ Len(tx.l1_inner) = Len(tx.outer)
  /\ Len(tx.inner) < U8 => Total(tx.l1_inner) = Len(tx.inner)

(* No one sets the chunk number of an instruction, and a chunk ends in the *)
(* array: so Drop reads ids of the array.                                  *)
FirstChunk ==
  /\ \A list \in Lists : \A k \in 1 .. Len(tx[list]) : tx[list][k].account_chunk_i = 0
  /\ \A k \in 1 .. Len(given) : tx.account_chunk_last[k] <= Len(tx.account_chunk)

(* The open handle is that of the newest instruction.                      *)
WriterIsNewest ==
  writer # NoWriter =>
    /\ ~panicked /\ Len(given) > 0
    /\ writer.account_chunk_i + 1 = Len(given)
    /\ writer.data_chunk_i + 1 = Len(given)
    /\ given[Len(given)].list = writer.list
    /\ given[Len(given)].i = writer.i

(* Each instruction lies at a place of its own, with its program.          *)
Placed ==
  /\ \A c \in 1 .. Len(given) :
       /\ given[c].i + 1 <= Len(tx[given[c].list])
       /\ tx[given[c].list][given[c].i + 1].program = given[c].program
  /\ \A c, d \in 1 .. Len(given) :
       given[c].list = given[d].list /\ given[c].i = given[d].i => c = d

(* The first n chunks of an array that never wrapped lie end to end, hold  *)
(* the parts they were given, and fill the array.                          *)
End(last, n) == IF n = 0 THEN 0 ELSE last[n]
Filled(last, chunk, parts, n) ==
  Len(chunk) < U16 =>
    /\ \A c \in 0 .. n - 1 : /\ End(last, c) <= last[c + 1] /\ last[c + 1] <= Len(chunk)
                             /\ Chunk(last, chunk, c) = parts[c + 1]
    /\ End(last, n) = Len(chunk)

(* The chunks that were set: all but those the open handle still has to.   *)
AccountsSet == IF writer = NoWriter \/ writer.account_set THEN Len(given) ELSE Len(given) - 1
DatasSet == IF writer = NoWriter \/ writer.data_set THEN Len(given) ELSE Len(given) - 1
ChunksFilled ==
  ~panicked =>
    /\ Filled(tx.account_chunk_last, tx.account_chunk, Accounts(given), AccountsSet)
    /\ Filled(tx.data_chunk_last, tx.data_chunk, Datas(given), DatasSet)

IInv == Typed /\ InStep /\ FirstChunk /\ WriterIsNewest /\ Placed /\ ChunksFilled
          /\ AccountSorted

-----------------------------------------------------------------------------
(* Chunks.                                                                 *)

(* The widths of the counters.                                             *)
LEMMA Widths == U16 \in Nat /\ U16 > 0 /\ U8 \in Nat /\ U8 > 0
BY TransactionAssumption

(* A number cut to a width.                                                *)
LEMMA RestFacts ==
  ASSUME NEW u \in Nat, u > 0, NEW a \in Nat
  PROVE  a % u \in 0 .. u - 1 /\ a % u <= a /\ (a < u => a % u = a)
OBVIOUS

(* The list that a caller gives is a list.                                 *)
LEMMA SeqOfFacts ==
  ASSUME NEW S, NEW n \in Nat, NEW s \in SeqOf(S, n)
  PROVE  s \in Seq(S)
BY DEF SeqOf

(* Filled is about the first n ends and parts only.                        *)
LEMMA FilledSame ==
  ASSUME NEW n \in Nat, NEW last1, NEW last2, NEW chunk, NEW parts1, NEW parts2,
         \A k \in 1 .. n : last1[k] = last2[k] /\ parts1[k] = parts2[k],
         Filled(last1, chunk, parts1, n)
  PROVE  Filled(last2, chunk, parts2, n)
<1> SUFFICES ASSUME Len(chunk) < U16
             PROVE  /\ \A c \in 0 .. n - 1 :
                         /\ End(last2, c) <= last2[c + 1] /\ last2[c + 1] <= Len(chunk)
                         /\ Chunk(last2, chunk, c) = parts2[c + 1]
                    /\ End(last2, n) = Len(chunk)
  BY DEF Filled
<1>1. /\ \A c \in 0 .. n - 1 : /\ End(last1, c) <= last1[c + 1] /\ last1[c + 1] <= Len(chunk)
                               /\ Chunk(last1, chunk, c) = parts1[c + 1]
      /\ End(last1, n) = Len(chunk)
  BY DEF Filled
<1>2. ASSUME NEW c \in 0 .. n PROVE End(last1, c) = End(last2, c)
  BY <1>2 DEF End
<1>3. ASSUME NEW c \in 0 .. n - 1
      PROVE  /\ End(last2, c) <= last2[c + 1] /\ last2[c + 1] <= Len(chunk)
             /\ Chunk(last2, chunk, c) = parts2[c + 1]
  <2>1. c \in 0 .. n /\ c + 1 \in 1 .. n
    OBVIOUS
  <2>2. End(last1, c) = End(last2, c) /\ last1[c + 1] = last2[c + 1]
    BY <1>2, <2>1
  <2>3. Chunk(last1, chunk, c) = Chunk(last2, chunk, c)
    BY <2>2 DEF Chunk, End
  <2> QED BY <1>1, <2>1, <2>2, <2>3
<1> QED BY <1>1, <1>2, <1>3

(* The next part is put behind the others and its end is noted.            *)
LEMMA FilledNext ==
  ASSUME NEW S, NEW n \in Nat, NEW chunk \in Seq(S), NEW part \in Seq(S),
         NEW last1, NEW last2, NEW parts1, NEW parts2,
         \A k \in 1 .. n : last1[k] \in Nat,
         \A k \in 1 .. n : last1[k] = last2[k] /\ parts1[k] = parts2[k],
         last2[n + 1] = ChunkEnd(chunk, part), parts2[n + 1] = part,
         Filled(last1, chunk, parts1, n)
  PROVE  Filled(last2, chunk \o part, parts2, n + 1)
<1> DEFINE m == Len(chunk)
           e == Len(part)
           big == chunk \o part
<1>1. m \in Nat /\ e \in Nat /\ big \in Seq(S) /\ Len(big) = m + e
  OBVIOUS
<1>2. \A k \in 1 .. m : big[k] = chunk[k]
  OBVIOUS
<1>3. \A k \in 1 .. e : big[m + k] = part[k]
  OBVIOUS
<1> HIDE DEF big
<1> SUFFICES ASSUME m + e < U16
             PROVE  /\ \A c \in 0 .. n :
                         /\ End(last2, c) <= last2[c + 1] /\ last2[c + 1] <= m + e
                         /\ Chunk(last2, big, c) = parts2[c + 1]
                    /\ End(last2, n + 1) = m + e
  BY <1>1 DEF Filled, big
<1>4. Filled(last2, chunk, parts2, n)
  BY FilledSame
<1>5. /\ \A c \in 0 .. n - 1 : /\ End(last2, c) <= last2[c + 1] /\ last2[c + 1] <= m
                               /\ Chunk(last2, chunk, c) = parts2[c + 1]
      /\ End(last2, n) = m
  <2>1. m < U16
    BY <1>1, Widths
  <2> QED BY <1>4, <2>1 DEF Filled
<1>6. last2[n + 1] = m + e
  <2>1. (m + e) % U16 = m + e
    <3> HIDE DEF m, e
    <3>1. m + e \in Nat
      BY <1>1
    <3> QED BY <3>1, Widths, RestFacts
  <2> QED BY <2>1 DEF ChunkEnd
<1>7. End(last2, n + 1) = m + e
  BY <1>6 DEF End
<1>8. ASSUME NEW c \in 0 .. n - 1
      PROVE  /\ End(last2, c) <= last2[c + 1] /\ last2[c + 1] <= m + e
             /\ Chunk(last2, big, c) = parts2[c + 1]
  <2> DEFINE i == End(last2, c)
             j == last2[c + 1]
  <2>1. i \in Nat /\ j \in Nat /\ i <= j /\ j <= m
    <3>1. c + 1 \in 1 .. n /\ (c # 0 => c \in 1 .. n)
      OBVIOUS
    <3>2. i \in Nat /\ j \in Nat
      BY <3>1 DEF End
    <3> QED BY <1>5, <3>2
  <2>2. Chunk(last2, big, c) = SubSeq(big, i + 1, j) /\ Chunk(last2, chunk, c) = SubSeq(chunk, i + 1, j)
    BY DEF Chunk, End
  <2> HIDE DEF i, j
  <2>3. /\ SubSeq(chunk, i + 1, j) \in Seq(S) /\ Len(SubSeq(chunk, i + 1, j)) = j - i
        /\ \A k \in 1 .. j - i : SubSeq(chunk, i + 1, j)[k] = chunk[i + k]
    BY <1>1, <2>1, PartFacts
  <2>4. /\ SubSeq(big, i + 1, j) \in Seq(S) /\ Len(SubSeq(big, i + 1, j)) = j - i
        /\ \A k \in 1 .. j - i : SubSeq(big, i + 1, j)[k] = big[i + k]
    <3>1. j <= Len(big)
      BY <1>1, <2>1
    <3> QED BY <1>1, <2>1, <3>1, PartFacts
  <2>5. \A k \in 1 .. j - i : i + k \in 1 .. m
    BY <1>1, <2>1
  <2>6. SubSeq(big, i + 1, j) = SubSeq(chunk, i + 1, j)
    <3>1. j - i \in Nat
      BY <2>1
    <3>2. \A k \in 1 .. j - i : SubSeq(big, i + 1, j)[k] = SubSeq(chunk, i + 1, j)[k]
      BY <1>2, <2>3, <2>4, <2>5
    <3> DEFINE x == SubSeq(big, i + 1, j)
               y == SubSeq(chunk, i + 1, j)
    <3>3. x \in Seq(S) /\ y \in Seq(S) /\ Len(x) = j - i /\ Len(y) = j - i
      BY <2>3, <2>4
    <3> HIDE DEF m, e, x, y
    <3>4. \A k \in 1 .. j - i : x[k] = y[k]
      BY <3>2 DEF x, y
    <3>5. x = y
      BY <3>1, <3>3, <3>4, SameList
    <3> QED BY <3>5 DEF x, y
  <2>7. Chunk(last2, big, c) = parts2[c + 1]
    BY <1>5, <2>2, <2>6
  <2>8. j <= m + e
    BY <1>1, <2>1
  <2> QED BY <2>1, <2>7, <2>8 DEF i, j
<1>9. /\ End(last2, n) <= last2[n + 1] /\ last2[n + 1] <= m + e
      /\ Chunk(last2, big, n) = parts2[n + 1]
  <2>1. m <= m + e
    BY <1>1
  <2>2. Chunk(last2, big, n) = SubSeq(big, m + 1, m + e)
    BY <1>5, <1>6 DEF Chunk, End
  <2>3. /\ SubSeq(big, m + 1, m + e) \in Seq(S)
        /\ Len(SubSeq(big, m + 1, m + e)) = (m + e) - m
        /\ \A k \in 1 .. (m + e) - m : SubSeq(big, m + 1, m + e)[k] = big[m + k]
    <3>1. m + e \in Nat /\ m + e <= Len(big)
      BY <1>1
    <3> HIDE DEF m, e
    <3> QED BY <1>1, <2>1, <3>1, PartFacts
  <2>4. (m + e) - m = e
    BY <1>1
  <2>5. SubSeq(big, m + 1, m + e) = part
    <3>1. Len(part) = e
      OBVIOUS
    <3> HIDE DEF m, e
    <3> QED BY <1>1, <1>3, <2>3, <2>4, <3>1, SameList
  <2> QED BY <1>1, <1>5, <1>6, <2>1, <2>2, <2>5
<1> QED
  <2> HIDE DEF m, e
  <2>1. \A c \in 0 .. n : c \in 0 .. n - 1 \/ c = n
    OBVIOUS
  <2> QED BY <1>7, <1>8, <1>9, <2>1

-----------------------------------------------------------------------------
(* Every step keeps the invariant.                                         *)

(* The parts of a transaction have their types.                            *)
LEMMA TxFacts ==
  ASSUME NEW t \in TxSet
  PROVE  /\ \A list \in Lists : t[list] \in Seq(Instruction)
         /\ t.outer \in Seq(Instruction) /\ t.inner \in Seq(Instruction)
         /\ t.l1_inner \in Seq(0 .. U8 - 1)
         /\ t.account_chunk_last \in Seq(0 .. U16 - 1) /\ t.account_chunk \in Seq(AccountId)
         /\ t.data_chunk_last \in Seq(0 .. U16 - 1) /\ t.data_chunk \in Seq(Byte)
         /\ t.account \in Seq(AccountId)
BY DEF TxSet, Lists

(* A number of a chunk table is a number.                                  *)
LEMMA EndFacts ==
  ASSUME NEW last \in Seq(0 .. U16 - 1), NEW k \in 1 .. Len(last)
  PROVE  last[k] \in Nat /\ last[k] < U16
BY Widths

(* An empty transaction without a handle.                                  *)
LEMMA InitFacts == Init => IInv
<1> SUFFICES ASSUME Init PROVE IInv
  OBVIOUS
<1>1. Typed
  <2>1. tx \in TxSet
    BY DEF Init, TxSet
  <2>2. writer \in Writer \cup {NoWriter}
    BY DEF Init
  <2>3. given \in Seq(Given)
    BY DEF Init
  <2>4. panicked \in BOOLEAN
    BY DEF Init
  <2> QED BY <2>1, <2>2, <2>3, <2>4 DEF Typed, TypeOK, TxSet
<1>2. InStep
  <2>1. Total(<<>>) = 0
    <3>1. <<>> \in Seq(Nat) /\ Len(<<>>) = 0
      OBVIOUS
    <3> QED BY <3>1, TotalEmpty
  <2> QED BY <2>1 DEF Init, InStep
<1>3. FirstChunk
  BY DEF Init, FirstChunk, Lists
<1>4. WriterIsNewest /\ Placed /\ AccountSorted
  BY DEF Init, WriterIsNewest, Placed, AccountSorted
<1>5. ChunksFilled
  <2>1. Filled(<<>>, <<>>, Accounts(<<>>), 0) /\ Filled(<<>>, <<>>, Datas(<<>>), 0)
    BY DEF Filled, End
  <2>2. AccountsSet = 0 /\ DatasSet = 0
    BY DEF Init, AccountsSet, DatasSet
  <2> QED BY <2>1, <2>2 DEF Init, ChunksFilled
<1> QED BY <1>1, <1>2, <1>3, <1>4, <1>5 DEF IInv

(* What opening a handle does to the lists and tables of a transaction.    *)
Opened(list) ==
  /\ tx' \in TxSet
  /\ \A l \in Lists : tx'[l] = IF l = list THEN Append(tx[l], DefaultInstruction) ELSE tx[l]
  /\ tx'.account_chunk_last = Append(tx.account_chunk_last, 0)
  /\ tx'.data_chunk_last = Append(tx.data_chunk_last, 0)
  /\ tx'.account_chunk = tx.account_chunk
  /\ tx'.data_chunk = tx.data_chunk
  /\ tx'.account = tx.account

(* Opening a handle, outer or inner.                                       *)
LEMMA OpenKeeps ==
  ASSUME IInv, NEW list \in Lists, Open(list), Opened(list)
  PROVE  /\ Typed' /\ FirstChunk' /\ WriterIsNewest' /\ Placed' /\ ChunksFilled'
         /\ AccountSorted'
         /\ Len(given') = Len(given) + 1
         /\ Len(tx'.account_chunk_last) = Len(given) + 1
         /\ Len(tx'.data_chunk_last) = Len(given) + 1
<1> DEFINE n == Len(given)
           new == [list |-> list, i |-> Len(tx[list]), program |-> 0,
                   account |-> <<>>, data |-> <<>>]
<1>1. /\ tx \in TxSet /\ given \in Seq(Given) /\ n \in Nat
      /\ Len(tx.account_chunk_last) = n /\ Len(tx.data_chunk_last) = n
  BY DEF IInv, Typed, TypeOK, TxSet, InStep
<1>2. /\ \A l \in Lists : tx[l] \in Seq(Instruction) /\ Len(tx[l]) \in Nat
      /\ tx.account_chunk_last \in Seq(0 .. U16 - 1)
      /\ tx.data_chunk_last \in Seq(0 .. U16 - 1)
      /\ tx.account_chunk \in Seq(AccountId)
  <2>1. \A l \in Lists : tx[l] \in Seq(Instruction)
    BY <1>1, TxFacts
  <2>2. \A l \in Lists : Len(tx[l]) \in Nat
    BY <2>1
  <2>3. /\ tx.account_chunk_last \in Seq(0 .. U16 - 1)
        /\ tx.data_chunk_last \in Seq(0 .. U16 - 1)
        /\ tx.account_chunk \in Seq(AccountId)
    BY <1>1, TxFacts
  <2> QED BY <2>1, <2>2, <2>3
<1>3. /\ given' = Append(given, new) /\ writer = NoWriter /\ ~panicked
      /\ panicked' = panicked
      /\ writer' = [list |-> list, i |-> Len(tx[list]), account_chunk_i |-> n,
                    data_chunk_i |-> n, account_set |-> FALSE, data_set |-> FALSE]
  BY <1>1 DEF Open, Idle
<1>4. new \in Given
  BY <1>2 DEF Given
<1>5. /\ given' \in Seq(Given) /\ Len(given') = n + 1
      /\ \A k \in 1 .. n : given'[k] = given[k]
      /\ given'[n + 1] = new
  <2> HIDE DEF new
  <2> QED BY <1>1, <1>3, <1>4
<1>6. /\ new.list = list /\ new.i = Len(tx[list]) /\ new.program = 0
  OBVIOUS
<1>7. /\ writer'.list = list /\ writer'.i = Len(tx[list]) /\ writer'.account_chunk_i = n
      /\ writer'.data_chunk_i = n /\ writer'.account_set = FALSE /\ writer'.data_set = FALSE
  BY <1>3
<1>8. writer' \in Writer
  BY <1>1, <1>2, <1>3 DEF Writer, Lists
<1>9. writer' # NoWriter
  BY <1>7 DEF NoWriter, Lists
<1>10. /\ Len(tx'.account_chunk_last) = n + 1 /\ Len(tx'.data_chunk_last) = n + 1
       /\ \A k \in 1 .. n : /\ tx'.account_chunk_last[k] = tx.account_chunk_last[k]
                            /\ tx'.data_chunk_last[k] = tx.data_chunk_last[k]
       /\ tx'.account_chunk_last[n + 1] = 0
  <2> HIDE DEF n
  <2> QED BY <1>1, <1>2 DEF Opened
<1>11. \A l \in Lists :
         IF l = list THEN /\ Len(tx'[l]) = Len(tx[l]) + 1
                          /\ \A k \in 1 .. Len(tx[l]) : tx'[l][k] = tx[l][k]
                          /\ tx'[l][Len(tx[l]) + 1] = DefaultInstruction
                     ELSE tx'[l] = tx[l]
  <2> SUFFICES ASSUME NEW l \in Lists, l = list
               PROVE  /\ Len(tx'[l]) = Len(tx[l]) + 1
                      /\ \A k \in 1 .. Len(tx[l]) : tx'[l][k] = tx[l][k]
                      /\ tx'[l][Len(tx[l]) + 1] = DefaultInstruction
    BY DEF Opened
  <2>1. tx'[l] = Append(tx[l], DefaultInstruction) /\ tx[l] \in Seq(Instruction)
    BY <1>2 DEF Opened
  <2>2. DefaultInstruction \in Instruction
    BY DEF DefaultInstruction, Instruction
  <2> DEFINE s == tx[l]
  <2> HIDE DEF s
  <2>3. tx'[l] = Append(s, DefaultInstruction) /\ s \in Seq(Instruction)
    BY <2>1 DEF s
  <2>4. /\ Len(tx'[l]) = Len(s) + 1 /\ \A k \in 1 .. Len(s) : tx'[l][k] = s[k]
        /\ tx'[l][Len(s) + 1] = DefaultInstruction
    BY <2>2, <2>3
  <2> QED BY <2>4 DEF s
<1> HIDE DEF n, new
<1>12. Typed'
  <2>1. tx' \in TxSet
    BY DEF Opened
  <2>2. panicked' \in BOOLEAN
    BY <1>3 DEF IInv, Typed, TypeOK
  <2>3. (writer \in Writer \cup {NoWriter})'
    <3>1. writer' \in Writer \cup {NoWriter}
      BY <1>8
    <3> QED BY <3>1 DEF Writer, NoWriter
  <2> QED BY <1>5, <2>1, <2>2, <2>3 DEF Typed, TypeOK, TxSet
<1>13. FirstChunk'
  <2>1. ASSUME NEW l \in Lists, NEW k \in 1 .. Len(tx'[l]) PROVE tx'[l][k].account_chunk_i = 0
    <3>0. \A j \in 1 .. Len(tx[l]) : tx[l][j].account_chunk_i = 0
      BY DEF IInv, FirstChunk
    <3>1. CASE l = list
      <4>1. k \in 1 .. Len(tx[l]) \/ k = Len(tx[l]) + 1
        BY <1>2, <1>11, <2>1, <3>1
      <4> QED BY <1>11, <3>0, <3>1, <4>1 DEF DefaultInstruction
    <3>2. CASE l # list
      <4>1. tx'[l] = tx[l]
        BY <1>11, <3>2
      <4> QED BY <2>1, <3>0, <4>1
    <3> QED BY <3>1, <3>2
  <2>2. ASSUME NEW k \in 1 .. Len(given') PROVE tx'.account_chunk_last[k] <= Len(tx'.account_chunk)
    <3>1. tx'.account_chunk = tx.account_chunk /\ Len(tx.account_chunk) \in Nat
      BY <1>2 DEF Opened
    <3>2. k \in 1 .. n \/ k = n + 1
      BY <1>1, <1>5, <2>2
    <3>3. \A j \in 1 .. n : tx.account_chunk_last[j] <= Len(tx.account_chunk)
      BY DEF IInv, FirstChunk, n
    <3> QED BY <1>10, <3>1, <3>2, <3>3
  <2> QED BY <2>1, <2>2 DEF FirstChunk
<1>14. WriterIsNewest'
  <2>1. given'[Len(given')] = new /\ Len(given') > 0
    BY <1>1, <1>5
  <2>2. ~panicked'
    BY <1>3
  <2> QED BY <1>5, <1>6, <1>7, <2>1, <2>2 DEF WriterIsNewest
<1>15. Placed'
  <2>0. /\ \A c \in 1 .. n : /\ given[c].i + 1 <= Len(tx[given[c].list])
                             /\ tx[given[c].list][given[c].i + 1].program = given[c].program
        /\ \A c, d \in 1 .. n :
             given[c].list = given[d].list /\ given[c].i = given[d].i => c = d
    BY DEF IInv, Placed, n
  <2>1. \A c \in 1 .. n : given[c].list \in Lists /\ given[c].i \in Nat
    <3>1. \A c \in 1 .. n : given[c] \in Given
      BY <1>1 DEF n
    <3> QED BY <3>1 DEF Given
  <2>2. ASSUME NEW c \in 1 .. n + 1
        PROVE  /\ given'[c].i + 1 <= Len(tx'[given'[c].list])
               /\ tx'[given'[c].list][given'[c].i + 1].program = given'[c].program
    <3>1. CASE c \in 1 .. n
      <4> DEFINE l == given[c].list
                 i == given[c].i + 1
      <4>1. given'[c] = given[c]
        BY <1>5, <3>1
      <4>2. l \in Lists /\ i \in Nat /\ i >= 1 /\ i <= Len(tx[l]) /\ Len(tx[l]) \in Nat
        BY <1>2, <2>0, <2>1, <3>1
      <4>3. tx[l][i].program = given[c].program
        BY <2>0, <3>1
      <4> HIDE DEF l, i
      <4>4. i <= Len(tx'[l]) /\ tx'[l][i] = tx[l][i]
        BY <1>11, <4>2
      <4> QED BY <4>1, <4>3, <4>4 DEF l, i
    <3>2. CASE c = n + 1
      <4>1. given'[c] = new
        BY <1>5, <3>2
      <4>2. /\ Len(tx'[list]) = Len(tx[list]) + 1
            /\ tx'[list][Len(tx[list]) + 1] = DefaultInstruction
        BY <1>11
      <4>3. given'[c].list = list /\ given'[c].i = Len(tx[list]) /\ given'[c].program = 0
        BY <1>6, <4>1
      <4>4. Len(tx[list]) + 1 <= Len(tx'[list])
        BY <1>2, <4>2
      <4>5. tx'[list][Len(tx[list]) + 1].program = 0
        BY <4>2 DEF DefaultInstruction
      <4> QED BY <4>3, <4>4, <4>5
    <3> QED BY <1>1, <2>2, <3>1, <3>2
  <2>3. ASSUME NEW c \in 1 .. n + 1, NEW d \in 1 .. n + 1,
               given'[c].list = given'[d].list, given'[c].i = given'[d].i
        PROVE  c = d
    <3>1. \A x \in 1 .. n : ~(given[x].list = new.list /\ given[x].i = new.i)
      <4> SUFFICES ASSUME NEW x \in 1 .. n, given[x].list = list, given[x].i = Len(tx[list])
                   PROVE  FALSE
        BY <1>6
      <4>1. Len(tx[list]) + 1 <= Len(tx[list]) /\ Len(tx[list]) \in Nat
        BY <1>2, <2>0
      <4> QED BY <4>1
    <3>2. (c \in 1 .. n \/ c = n + 1) /\ (d \in 1 .. n \/ d = n + 1)
      BY <1>1, <2>3
    <3>3. CASE c \in 1 .. n /\ d \in 1 .. n
      BY <1>5, <2>0, <2>3, <3>3
    <3>4. CASE c \in 1 .. n /\ d = n + 1
      BY <1>5, <2>3, <3>1, <3>4
    <3>5. CASE c = n + 1 /\ d \in 1 .. n
      BY <1>5, <2>3, <3>1, <3>5
    <3> QED BY <3>2, <3>3, <3>4, <3>5
  <2> QED BY <1>5, <2>2, <2>3 DEF Placed
<1>16. ChunksFilled'
  <2>1. /\ Filled(tx.account_chunk_last, tx.account_chunk, Accounts(given), n)
        /\ Filled(tx.data_chunk_last, tx.data_chunk, Datas(given), n)
    BY <1>3 DEF IInv, ChunksFilled, AccountsSet, DatasSet, n
  <2>2. AccountsSet' = n /\ DatasSet' = n
    <3>1. AccountsSet' = Len(given') - 1 /\ DatasSet' = Len(given') - 1
      BY <1>7, <1>9 DEF AccountsSet, DatasSet, NoWriter
    <3> QED BY <1>1, <1>5, <3>1
  <2>3. \A k \in 1 .. n : /\ Accounts(given)[k] = Accounts(given')[k]
                         /\ Datas(given)[k] = Datas(given')[k]
    <3>1. \A k \in 1 .. n : k \in DOMAIN given /\ k \in DOMAIN given'
      BY <1>1, <1>5 DEF n
    <3> QED BY <1>5, <3>1 DEF Accounts, Datas
  <2>4. Filled(tx'.account_chunk_last, tx.account_chunk, Accounts(given'), n)
    <3>1. \A k \in 1 .. n : /\ tx.account_chunk_last[k] = tx'.account_chunk_last[k]
                           /\ Accounts(given)[k] = Accounts(given')[k]
      BY <1>10, <2>3
    <3> QED BY <1>1, <2>1, <3>1, FilledSame
  <2>5. Filled(tx'.data_chunk_last, tx.data_chunk, Datas(given'), n)
    <3>1. \A k \in 1 .. n : /\ tx.data_chunk_last[k] = tx'.data_chunk_last[k]
                           /\ Datas(given)[k] = Datas(given')[k]
      BY <1>10, <2>3
    <3> QED BY <1>1, <2>1, <3>1, FilledSame
  <2>6. tx'.account_chunk = tx.account_chunk /\ tx'.data_chunk = tx.data_chunk
    BY DEF Opened
  <2> QED BY <2>2, <2>4, <2>5, <2>6 DEF ChunksFilled, Filled, Accounts, Datas
<1>17. AccountSorted'
  BY DEF IInv, AccountSorted, Opened
<1> QED BY <1>5, <1>10, <1>12, <1>13, <1>14, <1>15, <1>16, <1>17 DEF n

(* append_outer: l1_inner grows by a count of zero.                        *)
LEMMA AppendOuterKeeps ==
  ASSUME IInv, AppendOuter
  PROVE  IInv'
<1>1. tx \in TxSet /\ given \in Seq(Given) /\ Len(given) \in Nat /\ InStep
  BY DEF IInv, Typed, TypeOK, TxSet
<1>2. /\ tx.outer \in Seq(Instruction) /\ tx.inner \in Seq(Instruction)
      /\ tx.l1_inner \in Seq(0 .. U8 - 1) /\ tx.l1_inner \in Seq(Nat)
      /\ tx.account_chunk_last \in Seq(0 .. U16 - 1)
      /\ tx.data_chunk_last \in Seq(0 .. U16 - 1)
  <2>1. 0 .. U8 - 1 \subseteq Nat
    BY Widths
  <2>2. tx.l1_inner \in Seq(0 .. U8 - 1)
    BY <1>1, TxFacts
  <2>3. tx.l1_inner \in Seq(Nat)
    BY <2>1, <2>2, WiderList
  <2> QED BY <1>1, <2>2, <2>3, TxFacts
<1>3. /\ tx'.outer = Append(tx.outer, DefaultInstruction) /\ tx'.inner = tx.inner
      /\ tx'.l1_inner = Append(tx.l1_inner, 0)
      /\ tx'.account_chunk_last = Append(tx.account_chunk_last, 0)
      /\ tx'.data_chunk_last = Append(tx.data_chunk_last, 0)
      /\ tx'.account_chunk = tx.account_chunk /\ tx'.data_chunk = tx.data_chunk
      /\ tx'.account = tx.account
  BY <1>1 DEF AppendOuter, Grow, TxSet
<1>4. Opened("outer")
  <2>1. DefaultInstruction \in Instruction /\ 0 \in 0 .. U8 - 1 /\ 0 \in 0 .. U16 - 1
    BY Widths DEF DefaultInstruction, Instruction
  <2>2. /\ Append(tx.outer, DefaultInstruction) \in Seq(Instruction)
        /\ Append(tx.l1_inner, 0) \in Seq(0 .. U8 - 1)
        /\ Append(tx.account_chunk_last, 0) \in Seq(0 .. U16 - 1)
        /\ Append(tx.data_chunk_last, 0) \in Seq(0 .. U16 - 1)
    BY <1>2, <2>1
  <2>3. tx' \in TxSet
    BY <1>1, <2>2 DEF AppendOuter, Grow, TxSet
  <2> QED BY <1>3, <2>3 DEF Opened, Lists
<1>5. Open("outer") /\ "outer" \in Lists
  BY DEF AppendOuter, Lists
<1>6. /\ Typed' /\ FirstChunk' /\ WriterIsNewest' /\ Placed' /\ ChunksFilled' /\ AccountSorted'
      /\ Len(given') = Len(given) + 1
      /\ Len(tx'.account_chunk_last) = Len(given) + 1
      /\ Len(tx'.data_chunk_last) = Len(given) + 1
  BY <1>4, <1>5, OpenKeeps
<1>7. InStep'
  <2>1. Len(tx'.outer) = Len(tx.outer) + 1 /\ Len(tx.outer) \in Nat /\ Len(tx.inner) \in Nat
    BY <1>2, <1>3
  <2> DEFINE s == tx.l1_inner
             t == tx'.l1_inner
             m == Len(tx.outer)
  <2>2. s \in Seq(Nat) /\ t = Append(s, 0) /\ m \in Nat /\ Len(s) = m
    BY <1>1, <1>2, <1>3, <2>1 DEF InStep
  <2> HIDE DEF s, t, m
  <2>3. t \in Seq(Nat) /\ Len(t) = m + 1 /\ t[m + 1] = 0 /\ \A k \in 1 .. m : t[k] = s[k]
    BY <2>2
  <2>4. Total(s) \in Nat /\ Total(t) = Total(s) + t[m + 1]
    BY <2>2, <2>3, TotalLast
  <2>5. Total(t) = Total(s)
    BY <2>3, <2>4
  <2>6. /\ Len(given) = Len(tx.outer) + Len(tx.inner)
        /\ Len(tx.inner) < U8 => Total(s) = Len(tx.inner)
    BY <1>1 DEF InStep, s
  <2>7. Len(given') = Len(tx'.outer) + Len(tx'.inner)
    <3>1. Len(given') = Len(given) + 1 /\ Len(tx'.inner) = Len(tx.inner)
      BY <1>6, <1>3
    <3> DEFINE a == Len(tx.outer)
               b == Len(tx.inner)
    <3>2. a \in Nat /\ b \in Nat /\ Len(given') = (a + b) + 1
      BY <2>1, <2>6, <3>1
    <3>3. Len(tx'.outer) = a + 1 /\ Len(tx'.inner) = b
      BY <2>1, <3>1
    <3> HIDE DEF a, b
    <3> QED BY <3>2, <3>3
  <2>8. /\ Len(tx'.l1_inner) = Len(tx'.outer)
        /\ Len(tx'.inner) < U8 => Total(tx'.l1_inner) = Len(tx'.inner)
    BY <1>3, <2>1, <2>3, <2>5, <2>6 DEF t, m
  <2> QED BY <1>6, <2>7, <2>8 DEF InStep
<1> QED BY <1>6, <1>7 DEF IInv

(* append_inner: the count of one outer instruction goes up, or wraps.     *)
LEMMA AppendInnerKeeps ==
  ASSUME IInv, NEW o \in Nat, AppendInner(o)
  PROVE  IInv'
<1>1. tx \in TxSet /\ given \in Seq(Given) /\ Len(given) \in Nat /\ InStep
  BY DEF IInv, Typed, TypeOK, TxSet
<1>2. /\ tx.outer \in Seq(Instruction) /\ tx.inner \in Seq(Instruction)
      /\ tx.l1_inner \in Seq(0 .. U8 - 1) /\ tx.l1_inner \in Seq(Nat)
      /\ tx.account_chunk_last \in Seq(0 .. U16 - 1)
      /\ tx.data_chunk_last \in Seq(0 .. U16 - 1)
  <2>1. 0 .. U8 - 1 \subseteq Nat
    BY Widths
  <2>2. tx.l1_inner \in Seq(0 .. U8 - 1)
    BY <1>1, TxFacts
  <2>3. tx.l1_inner \in Seq(Nat)
    BY <2>1, <2>2, WiderList
  <2> QED BY <1>1, <2>2, <2>3, TxFacts
<1>3. /\ tx'.inner = Append(tx.inner, DefaultInstruction) /\ tx'.outer = tx.outer
      /\ tx'.l1_inner = [tx.l1_inner EXCEPT ![o + 1] = (@ + 1) % U8]
      /\ tx'.account_chunk_last = Append(tx.account_chunk_last, 0)
      /\ tx'.data_chunk_last = Append(tx.data_chunk_last, 0)
      /\ tx'.account_chunk = tx.account_chunk /\ tx'.data_chunk = tx.data_chunk
      /\ tx'.account = tx.account
  BY <1>1 DEF AppendInner, Grow, TxSet
<1> DEFINE s == tx.l1_inner
           t == tx'.l1_inner
           m == Len(tx.outer)
           raised == (s[o + 1] + 1) % U8
<1>4. /\ s \in Seq(0 .. U8 - 1) /\ s \in Seq(Nat) /\ t = [s EXCEPT ![o + 1] = raised]
      /\ m \in Nat /\ Len(s) = m /\ o < m
  BY <1>1, <1>2, <1>3 DEF InStep, AppendInner
<1>5. /\ t \in Seq(0 .. U8 - 1) /\ t \in Seq(Nat) /\ Len(t) = m /\ o + 1 \in 1 .. m
      /\ t[o + 1] = raised /\ s[o + 1] \in Nat
      /\ \A k \in 1 .. m : k # o + 1 => t[k] = s[k]
  <2> HIDE DEF s, t, m
  <2>1. o + 1 \in 1 .. m /\ \A k \in 1 .. m : s[k] \in Nat
    BY <1>4
  <2>2. raised \in 0 .. U8 - 1
    <3>1. s[o + 1] + 1 \in Nat
      BY <2>1
    <3> QED BY <3>1, Widths, RestFacts
  <2> HIDE DEF raised
  <2>3. /\ t \in Seq(0 .. U8 - 1) /\ Len(t) = m /\ t[o + 1] = raised
        /\ \A k \in 1 .. m : k # o + 1 => t[k] = s[k]
    BY <1>4, <2>1, <2>2
  <2>4. 0 .. U8 - 1 \subseteq Nat
    BY Widths
  <2>5. t \in Seq(Nat)
    BY <2>3, <2>4, WiderList
  <2> QED BY <2>1, <2>3, <2>5
<1>6. Opened("inner")
  <2>1. DefaultInstruction \in Instruction /\ 0 \in 0 .. U16 - 1
    BY Widths DEF DefaultInstruction, Instruction
  <2>2. /\ Append(tx.inner, DefaultInstruction) \in Seq(Instruction)
        /\ Append(tx.account_chunk_last, 0) \in Seq(0 .. U16 - 1)
        /\ Append(tx.data_chunk_last, 0) \in Seq(0 .. U16 - 1)
    BY <1>2, <2>1
  <2>3. [tx.l1_inner EXCEPT ![o + 1] = (@ + 1) % U8] \in Seq(0 .. U8 - 1)
    BY <1>4, <1>5
  <2>4. tx' \in TxSet
    BY <1>1, <2>2, <2>3 DEF AppendInner, Grow, TxSet
  <2> QED BY <1>3, <2>4 DEF Opened, Lists
<1>7. Open("inner") /\ "inner" \in Lists
  BY DEF AppendInner, Lists
<1>8. /\ Typed' /\ FirstChunk' /\ WriterIsNewest' /\ Placed' /\ ChunksFilled' /\ AccountSorted'
      /\ Len(given') = Len(given) + 1
      /\ Len(tx'.account_chunk_last) = Len(given) + 1
      /\ Len(tx'.data_chunk_last) = Len(given) + 1
  BY <1>6, <1>7, OpenKeeps
<1>9. InStep'
  <2>1. Len(tx'.inner) = Len(tx.inner) + 1 /\ Len(tx.outer) \in Nat /\ Len(tx.inner) \in Nat
    BY <1>2, <1>3
  <2> HIDE DEF s, t, m
  <2>3. /\ Len(given) = Len(tx.outer) + Len(tx.inner)
        /\ Len(tx.inner) < U8 => Total(s) = Len(tx.inner)
    BY <1>1 DEF InStep, s
  <2>2. ASSUME Len(tx.inner) + 1 < U8 PROVE Total(t) = Len(tx.inner) + 1
    <3>1. Total(s) = Len(tx.inner)
      BY <2>1, <2>2, <2>3, Widths
    <3>2. s[o + 1] <= Total(s)
      BY <1>4, <1>5, TotalBound
    <3>3. s[o + 1] + 1 \in Nat /\ s[o + 1] + 1 < U8
      <4>1. s[o + 1] \in Nat /\ Len(tx.inner) \in Nat /\ s[o + 1] <= Len(tx.inner)
        BY <1>5, <2>1, <3>1, <3>2
      <4> QED BY <2>2, <4>1, Widths
    <3>4. raised = s[o + 1] + 1
      BY <3>3, Widths, RestFacts
    <3>5. t[o + 1] = s[o + 1] + 1
      BY <1>5, <3>4
    <3> HIDE DEF raised
    <3>6. Total(t) = Total(s) + 1
      <4> DEFINE j == o + 1
      <4>1. j \in 1 .. m /\ t[j] = s[j] + 1 /\ \A k \in 1 .. m : k # j => t[k] = s[k]
        BY <1>5, <3>5
      <4>2. s \in Seq(Nat) /\ t \in Seq(Nat) /\ m \in Nat /\ Len(s) = m /\ Len(t) = m
        BY <1>4, <1>5
      <4> HIDE DEF j
      <4> QED BY <4>1, <4>2, TotalRaised
    <3> QED BY <3>1, <3>6
  <2>4. Len(given') = Len(tx'.outer) + Len(tx'.inner)
    <3>1. Len(given') = Len(given) + 1 /\ Len(tx'.outer) = Len(tx.outer)
      BY <1>8, <1>3
    <3> DEFINE a == Len(tx.outer)
               b == Len(tx.inner)
    <3>2. a \in Nat /\ b \in Nat /\ Len(given') = (a + b) + 1
      BY <2>1, <2>3, <3>1
    <3>3. Len(tx'.inner) = b + 1 /\ Len(tx'.outer) = a
      BY <2>1, <3>1
    <3> HIDE DEF a, b
    <3> QED BY <3>2, <3>3
  <2>5. /\ Len(tx'.l1_inner) = Len(tx'.outer)
        /\ Len(tx'.inner) < U8 => Total(tx'.l1_inner) = Len(tx'.inner)
    BY <1>3, <1>5, <2>1, <2>2, <2>3 DEF t, m
  <2> QED BY <1>8, <2>4, <2>5 DEF InStep
<1> QED BY <1>8, <1>9 DEF IInv

(* A handle that is open writes to the newest instruction.                 *)
LEMMA HandleFacts ==
  ASSUME IInv, writer # NoWriter
  PROVE  /\ tx \in TxSet /\ given \in Seq(Given) /\ writer \in Writer /\ ~panicked
         /\ Len(given) \in Nat /\ Len(given) > 0 /\ Len(given) \in 1 .. Len(given)
         /\ writer.list \in Lists /\ writer.i \in Nat
         /\ writer.i + 1 \in 1 .. Len(tx[writer.list])
         /\ given[Len(given)].list = writer.list /\ given[Len(given)].i = writer.i
         /\ writer.account_chunk_i + 1 = Len(given) /\ writer.data_chunk_i + 1 = Len(given)
         /\ Len(tx.account_chunk_last) = Len(given) /\ Len(tx.data_chunk_last) = Len(given)
<1>1. /\ tx \in TxSet /\ given \in Seq(Given) /\ writer \in Writer
      /\ Len(tx.account_chunk_last) = Len(given) /\ Len(tx.data_chunk_last) = Len(given)
  BY DEF IInv, Typed, TypeOK, TxSet, InStep
<1>2. /\ ~panicked /\ Len(given) > 0
      /\ writer.account_chunk_i + 1 = Len(given) /\ writer.data_chunk_i + 1 = Len(given)
      /\ given[Len(given)].list = writer.list /\ given[Len(given)].i = writer.i
  BY DEF IInv, WriterIsNewest
<1>3. Len(given) \in Nat /\ Len(given) \in 1 .. Len(given)
  BY <1>1, <1>2
<1>4. writer.list \in Lists /\ writer.i \in Nat
  BY <1>1 DEF Writer, Lists
<1>5. Len(tx[writer.list]) \in Nat
  <2>1. tx[writer.list] \in Seq(Instruction)
    BY <1>1, <1>4, TxFacts
  <2> QED BY <2>1
<1>6. writer.i + 1 <= Len(tx[writer.list])
  BY <1>2, <1>3 DEF IInv, Placed
<1> QED BY <1>1, <1>2, <1>3, <1>4, <1>5, <1>6

(* What the caller gave last is noted with the newest instruction.         *)
Fields == {"list", "i", "program", "account", "data"}
LEMMA RememberFacts ==
  ASSUME given \in Seq(Given), Len(given) > 0, NEW field \in {"program", "account", "data"},
         NEW x, Remember(field, x),
         field = "program" => x \in Program, field = "account" => x \in Seq(AccountId),
         field = "data" => x \in Seq(Byte)
  PROVE  /\ given' \in Seq(Given) /\ Len(given') = Len(given)
         /\ \A k \in 1 .. Len(given) : \A f \in Fields :
              given'[k][f] = IF k = Len(given) /\ f = field THEN x ELSE given[k][f]
<1> DEFINE n == Len(given)
           r == [given[n] EXCEPT ![field] = x]
<1>1. n \in Nat /\ n \in 1 .. n /\ n \in DOMAIN given /\ \A k \in 1 .. n : given[k] \in Given
  OBVIOUS
<1>2. given' = [given EXCEPT ![n] = r]
  BY DEF Remember
<1>3. r \in Given
  <2>1. given[n] \in Given
    BY <1>1
  <2>2. CASE field = "program"
    <3>1. x \in Program
      BY <2>2
    <3>2. r = [given[n] EXCEPT !.program = x]
      BY <2>2
    <3> QED BY <2>1, <3>1, <3>2 DEF Given
  <2>3. CASE field = "account"
    <3>1. x \in Seq(AccountId)
      BY <2>3
    <3>2. r = [given[n] EXCEPT !.account = x]
      BY <2>3
    <3> QED BY <2>1, <3>1, <3>2 DEF Given
  <2>4. CASE field = "data"
    <3>1. x \in Seq(Byte)
      BY <2>4
    <3>2. r = [given[n] EXCEPT !.data = x]
      BY <2>4
    <3> QED BY <2>1, <3>1, <3>2 DEF Given
  <2> QED BY <2>2, <2>3, <2>4
<1>4. \A f \in Fields : r[f] = IF f = field THEN x ELSE given[n][f]
  <2>1. given[n] \in Given
    BY <1>1
  <2>2. DOMAIN given[n] = Fields
    BY <2>1 DEF Given, Fields
  <2> HIDE DEF n
  <2> QED BY <2>2
<1> HIDE DEF r
<1>5. given' \in Seq(Given) /\ Len(given') = n
  BY <1>1, <1>2, <1>3
<1>6. \A k \in 1 .. n : given'[k] = IF k = n THEN r ELSE given[k]
  BY <1>1, <1>2
<1> HIDE DEF n
<1>7. ASSUME NEW k \in 1 .. n, NEW f \in Fields
      PROVE  given'[k][f] = IF k = n /\ f = field THEN x ELSE given[k][f]
  <2>1. CASE k = n
    <3>1. given'[k] = r
      BY <1>6, <2>1
    <3> QED BY <1>4, <2>1, <3>1
  <2>2. CASE k # n
    <3>1. given'[k] = given[k]
      BY <1>6, <2>2
    <3> QED BY <2>2, <3>1
  <2> QED BY <2>1, <2>2
<1> QED BY <1>5, <1>7 DEF n

(* The program goes to the newest instruction and to no other.             *)
LEMMA SetProgramKeeps ==
  ASSUME IInv, NEW p \in Program, SetProgram(p)
  PROVE  IInv'
<1> DEFINE n == Len(given)
           w == writer.list
           i == writer.i + 1
<1>1. /\ tx \in TxSet /\ given \in Seq(Given) /\ writer \in Writer /\ n \in Nat /\ n > 0
      /\ n \in 1 .. n /\ w \in Lists /\ i \in 1 .. Len(tx[w])
      /\ given[n].list = w /\ given[n].i = writer.i /\ writer # NoWriter
  <2>1. writer # NoWriter
    BY DEF SetProgram
  <2> QED BY <2>1, HandleFacts
<1>2. /\ writer' = writer /\ panicked' = panicked /\ Remember("program", p)
      /\ tx' = [tx EXCEPT ![w][i].program = p]
  BY DEF SetProgram
<1>3. /\ given' \in Seq(Given) /\ Len(given') = n
      /\ \A k \in 1 .. n : \A f \in Fields :
           given'[k][f] = IF k = n /\ f = "program" THEN p ELSE given[k][f]
  BY <1>1, <1>2, RememberFacts
<1>4. \A k \in 1 .. n : /\ given'[k].list = given[k].list /\ given'[k].i = given[k].i
                       /\ given'[k].account = given[k].account /\ given'[k].data = given[k].data
                       /\ given'[k].program = IF k = n THEN p ELSE given[k].program
  <2>1. \A k \in 1 .. n : given'[k].list = given[k].list /\ given'[k].i = given[k].i
    BY <1>3 DEF Fields
  <2>2. \A k \in 1 .. n : given'[k].account = given[k].account /\ given'[k].data = given[k].data
    BY <1>3 DEF Fields
  <2>3. \A k \in 1 .. n : given'[k].program = IF k = n THEN p ELSE given[k].program
    BY <1>3 DEF Fields
  <2> QED BY <2>1, <2>2, <2>3
<1>5. \A l \in Lists : tx[l] \in Seq(Instruction)
  BY <1>1, TxFacts
<1> DEFINE ix == [tx[w][i] EXCEPT !.program = p]
           new == [tx[w] EXCEPT ![i] = ix]
<1>6. /\ ix \in Instruction /\ ix.program = p /\ ix.account_chunk_i = tx[w][i].account_chunk_i
  <2>1. tx[w][i] \in Instruction
    BY <1>1, <1>5
  <2> QED BY <2>1 DEF Instruction
<1>7. tx' = [tx EXCEPT ![w] = new]
  BY <1>2
<1> HIDE DEF ix
<1>8. /\ new \in Seq(Instruction) /\ Len(new) = Len(tx[w]) /\ new[i] = ix
      /\ \A k \in 1 .. Len(tx[w]) : k # i => new[k] = tx[w][k]
  <2>1. tx[w] \in Seq(Instruction)
    BY <1>1, <1>5
  <2> DEFINE s == tx[w]
  <2>2. s \in Seq(Instruction) /\ i \in 1 .. Len(s) /\ new = [s EXCEPT ![i] = ix]
    BY <1>1, <2>1
  <2> HIDE DEF s, new, i
  <2>3. /\ new \in Seq(Instruction) /\ Len(new) = Len(s) /\ new[i] = ix
        /\ \A k \in 1 .. Len(s) : k # i => new[k] = s[k]
    BY <1>6, <2>2
  <2> QED BY <2>3 DEF s
<1> HIDE DEF new, n, w, i
<1>9. /\ tx' \in TxSet
      /\ \A l \in Lists : tx'[l] = IF l = w THEN new ELSE tx[l]
      /\ tx'.l1_inner = tx.l1_inner
      /\ tx'.account_chunk_last = tx.account_chunk_last /\ tx'.account_chunk = tx.account_chunk
      /\ tx'.data_chunk_last = tx.data_chunk_last /\ tx'.data_chunk = tx.data_chunk
      /\ tx'.account = tx.account
  <2>1. CASE w = "outer"
    <3>1. tx' = [tx EXCEPT !.outer = new]
      BY <1>7, <2>1
    <3> QED BY <1>1, <1>8, <2>1, <3>1 DEF TxSet, Lists
  <2>2. CASE w = "inner"
    <3>1. tx' = [tx EXCEPT !.inner = new]
      BY <1>7, <2>2
    <3> QED BY <1>1, <1>8, <2>2, <3>1 DEF TxSet, Lists
  <2> QED BY <1>1, <2>1, <2>2 DEF Lists
<1>10. \A l \in Lists : /\ Len(tx'[l]) = Len(tx[l])
                       /\ \A k \in 1 .. Len(tx[l]) :
                            tx'[l][k] = IF l = w /\ k = i THEN ix ELSE tx[l][k]
  <2> SUFFICES ASSUME NEW l \in Lists
               PROVE  /\ Len(tx'[l]) = Len(tx[l])
                      /\ \A k \in 1 .. Len(tx[l]) :
                           tx'[l][k] = IF l = w /\ k = i THEN ix ELSE tx[l][k]
    OBVIOUS
  <2>1. CASE l = w
    <3>1. tx'[l] = new
      BY <1>9, <2>1
    <3> QED BY <1>8, <2>1, <3>1
  <2>2. CASE l # w
    <3>1. tx'[l] = tx[l]
      BY <1>9, <2>2
    <3> QED BY <2>2, <3>1
  <2> QED BY <2>1, <2>2
<1>11. Typed'
  <2>1. panicked' \in BOOLEAN
    BY <1>2 DEF IInv, Typed, TypeOK
  <2>2. (writer \in Writer \cup {NoWriter})'
    <3>1. writer' \in Writer \cup {NoWriter}
      BY <1>1, <1>2
    <3> QED BY <3>1 DEF Writer, NoWriter
  <2> QED BY <1>3, <1>9, <2>1, <2>2 DEF Typed, TypeOK, TxSet
<1>12. InStep'
  <2>1. Len(tx'.outer) = Len(tx.outer) /\ Len(tx'.inner) = Len(tx.inner)
    BY <1>10 DEF Lists
  <2>2. InStep
    BY DEF IInv
  <2> QED BY <1>3, <1>9, <2>1, <2>2 DEF InStep, n
<1>13. FirstChunk'
  <2>1. ASSUME NEW l \in Lists, NEW k \in 1 .. Len(tx'[l]) PROVE tx'[l][k].account_chunk_i = 0
    <3>1. k \in 1 .. Len(tx[l])
      BY <1>10, <2>1
    <3>2. \A x \in Lists : \A j \in 1 .. Len(tx[x]) : tx[x][j].account_chunk_i = 0
      BY DEF IInv, FirstChunk
    <3>3. ix.account_chunk_i = 0
      BY <1>1, <1>6, <3>2
    <3>4. tx[l][k].account_chunk_i = 0
      BY <3>1, <3>2
    <3>5. tx'[l][k] = ix \/ tx'[l][k] = tx[l][k]
      BY <1>10, <3>1
    <3> QED BY <3>3, <3>4, <3>5
  <2>2. \A k \in 1 .. Len(given') : tx'.account_chunk_last[k] <= Len(tx'.account_chunk)
    BY <1>3, <1>9 DEF IInv, FirstChunk, n
  <2> QED BY <2>1, <2>2 DEF FirstChunk
<1>14. WriterIsNewest'
  <2>1. WriterIsNewest /\ ~panicked'
    BY <1>1, <1>2 DEF IInv, WriterIsNewest
  <2>2. given'[n].list = given[n].list /\ given'[n].i = given[n].i
    BY <1>1, <1>4
  <2> QED BY <1>1, <1>2, <1>3, <2>1, <2>2 DEF WriterIsNewest, n
<1>15. Placed'
  <2>0. /\ \A c \in 1 .. n : /\ given[c].i + 1 <= Len(tx[given[c].list])
                             /\ tx[given[c].list][given[c].i + 1].program = given[c].program
        /\ \A c, d \in 1 .. n :
             given[c].list = given[d].list /\ given[c].i = given[d].i => c = d
    BY DEF IInv, Placed, n
  <2>1. ASSUME NEW c \in 1 .. n
        PROVE  /\ given'[c].i + 1 <= Len(tx'[given'[c].list])
               /\ tx'[given'[c].list][given'[c].i + 1].program = given'[c].program
    <3> DEFINE l == given[c].list
               j == given[c].i + 1
    <3>1. l \in Lists /\ given[c].i \in Nat /\ Len(tx[l]) \in Nat
      <4>1. given[c] \in Given
        BY <1>1, <2>1 DEF n
      <4>2. given[c].list \in Lists /\ given[c].i \in Nat
        BY <4>1 DEF Given
      <4>3. tx[l] \in Seq(Instruction)
        BY <1>5, <4>2
      <4> QED BY <4>2, <4>3
    <3>2. j \in 1 .. Len(tx[l]) /\ tx[l][j].program = given[c].program
      BY <2>0, <3>1
    <3>3. given'[c].list = l /\ given'[c].i + 1 = j
      BY <1>4
    <3>4. l = w /\ j = i <=> c = n
      <4>1. j = i <=> given[c].i = writer.i
        BY <1>1, <3>1 DEF i, Writer
      <4>2. given[n].list = w /\ given[n].i = writer.i
        BY <1>1
      <4> QED BY <1>1, <2>0, <4>1, <4>2
    <3> HIDE DEF l, j
    <3>5. tx'[l][j].program = given'[c].program
      <4>1. CASE c = n
        <5>1. tx'[l][j] = ix
          BY <1>10, <3>1, <3>2, <3>4, <4>1
        <5>2. given'[c].program = p
          BY <1>4, <4>1
        <5> QED BY <1>6, <5>1, <5>2
      <4>2. CASE c # n
        <5>1. tx'[l][j] = tx[l][j]
          BY <1>10, <3>1, <3>2, <3>4, <4>2
        <5>2. given'[c].program = given[c].program
          BY <1>4, <4>2
        <5> QED BY <3>2, <5>1, <5>2
      <4> QED BY <4>1, <4>2
    <3>6. j <= Len(tx'[l])
      BY <1>10, <3>1, <3>2
    <3> QED BY <3>3, <3>5, <3>6
  <2>2. \A c, d \in 1 .. n :
          given'[c].list = given'[d].list /\ given'[c].i = given'[d].i => c = d
    BY <1>4, <2>0
  <2> QED BY <1>3, <2>1, <2>2 DEF Placed
<1>16. ChunksFilled'
  <2>1. AccountsSet' = AccountsSet /\ DatasSet' = DatasSet
    BY <1>2, <1>3 DEF AccountsSet, DatasSet, n
  <2>2. Accounts(given') = Accounts(given) /\ Datas(given') = Datas(given)
    <3>1. DOMAIN given = 1 .. n /\ DOMAIN given' = 1 .. n
      BY <1>1, <1>3 DEF n
    <3> QED BY <1>4, <3>1 DEF Accounts, Datas
  <2>3. ~panicked
    BY <1>1, HandleFacts
  <2>4. /\ Filled(tx.account_chunk_last, tx.account_chunk, Accounts(given), AccountsSet)
        /\ Filled(tx.data_chunk_last, tx.data_chunk, Datas(given), DatasSet)
    BY <2>3 DEF IInv, ChunksFilled
  <2>5. /\ Filled(tx'.account_chunk_last, tx'.account_chunk, Accounts(given'), AccountsSet')
        /\ Filled(tx'.data_chunk_last, tx'.data_chunk, Datas(given'), DatasSet')
    BY <1>9, <2>1, <2>2, <2>4
  <2> QED BY <2>5 DEF ChunksFilled, Filled, Accounts, Datas
<1>17. AccountSorted'
  BY <1>9 DEF IInv, AccountSorted
<1> QED BY <1>11, <1>12, <1>13, <1>14, <1>15, <1>16, <1>17 DEF IInv

(* Instructions that stay where they are keep their places.                *)
LEMMA PlacedKept ==
  ASSUME IInv, Len(given') = Len(given), \A l \in Lists : tx'[l] = tx[l],
         \A k \in 1 .. Len(given) : /\ given'[k].list = given[k].list
                                   /\ given'[k].i = given[k].i
                                   /\ given'[k].program = given[k].program
  PROVE  Placed'
<1>1. /\ \A c \in 1 .. Len(given) :
           /\ given[c].i + 1 <= Len(tx[given[c].list])
           /\ tx[given[c].list][given[c].i + 1].program = given[c].program
      /\ \A c, d \in 1 .. Len(given) :
           given[c].list = given[d].list /\ given[c].i = given[d].i => c = d
  BY DEF IInv, Placed
<1>2. ASSUME NEW c \in 1 .. Len(given)
      PROVE  /\ given'[c].i + 1 <= Len(tx'[given'[c].list])
             /\ tx'[given'[c].list][given'[c].i + 1].program = given'[c].program
  <2>1. given[c].list \in Lists
    <3>1. given[c] \in Given
      BY DEF IInv, Typed
    <3> QED BY <3>1 DEF Given
  <2>2. /\ given'[c].list = given[c].list /\ given'[c].i = given[c].i
        /\ given'[c].program = given[c].program /\ tx'[given[c].list] = tx[given[c].list]
    BY <2>1
  <2> QED BY <1>1, <2>2
<1>3. \A c, d \in 1 .. Len(given) :
        given'[c].list = given'[d].list /\ given'[c].i = given'[d].i => c = d
  BY <1>1
<1> QED BY <1>2, <1>3 DEF Placed

(* account(): the ids become the next chunk, unless the end wraps.         *)
LEMMA SetAccountKeeps ==
  ASSUME IInv, NEW ids \in Seq(AccountId), SetAccount(ids)
  PROVE  IInv'
<1> DEFINE n == Len(given)
           last == tx.account_chunk_last
           chunk == tx.account_chunk
           end == ChunkEnd(chunk, ids)
           last2 == [last EXCEPT ![n] = end]
<1>1. /\ tx \in TxSet /\ given \in Seq(Given) /\ writer \in Writer /\ n \in Nat /\ n > 0
      /\ n \in 1 .. n /\ writer.list \in Lists /\ writer.account_chunk_i + 1 = n
      /\ writer # NoWriter /\ ~panicked /\ Len(last) = n
  <2>1. writer # NoWriter
    BY DEF SetAccount
  <2> QED BY <2>1, HandleFacts
<1>2. /\ writer' = [writer EXCEPT !.account_set = TRUE] /\ panicked' = panicked
      /\ ~writer.account_set /\ Remember("account", ids)
      /\ tx' = [tx EXCEPT !.account_chunk = @ \o ids,
                          !.account_chunk_last[writer.account_chunk_i + 1] = end]
  BY DEF SetAccount
<1>3. /\ given' \in Seq(Given) /\ Len(given') = n
      /\ \A k \in 1 .. n : \A f \in Fields :
           given'[k][f] = IF k = n /\ f = "account" THEN ids ELSE given[k][f]
  BY <1>1, <1>2, RememberFacts
<1>4. \A k \in 1 .. n : /\ given'[k].list = given[k].list /\ given'[k].i = given[k].i
                       /\ given'[k].program = given[k].program
                       /\ given'[k].data = given[k].data
                       /\ given'[k].account = IF k = n THEN ids ELSE given[k].account
  <2>1. \A k \in 1 .. n : given'[k].list = given[k].list /\ given'[k].i = given[k].i
    BY <1>3 DEF Fields
  <2>2. \A k \in 1 .. n : /\ given'[k].program = given[k].program
                         /\ given'[k].data = given[k].data
    BY <1>3 DEF Fields
  <2>3. \A k \in 1 .. n : given'[k].account = IF k = n THEN ids ELSE given[k].account
    BY <1>3 DEF Fields
  <2> QED BY <2>1, <2>2, <2>3
<1>5. last \in Seq(0 .. U16 - 1) /\ chunk \in Seq(AccountId)
  BY <1>1, TxFacts
<1>6. /\ last2 \in Seq(0 .. U16 - 1) /\ Len(last2) = n /\ last2[n] = end
      /\ \A k \in 1 .. n : k # n => last2[k] = last[k]
  <2>1. end \in 0 .. U16 - 1
    <3>1. Len(chunk) + Len(ids) \in Nat
      BY <1>5
    <3> QED BY <3>1, Widths, RestFacts DEF ChunkEnd
  <2> HIDE DEF end, last, n
  <2> QED BY <1>1, <1>5, <2>1
<1>7. /\ tx' \in TxSet /\ tx'.outer = tx.outer /\ tx'.inner = tx.inner
      /\ tx'.l1_inner = tx.l1_inner
      /\ tx'.account_chunk_last = last2 /\ tx'.account_chunk = chunk \o ids
      /\ tx'.data_chunk_last = tx.data_chunk_last /\ tx'.data_chunk = tx.data_chunk
      /\ tx'.account = tx.account
  <2>1. chunk \o ids \in Seq(AccountId)
    BY <1>5
  <2>2. tx' = [tx EXCEPT !.account_chunk = chunk \o ids, !.account_chunk_last = last2]
    BY <1>1, <1>2 DEF TxSet
  <2> HIDE DEF last2
  <2> QED BY <1>1, <1>6, <2>1, <2>2 DEF TxSet
<1>8. \A l \in Lists : tx'[l] = tx[l]
  BY <1>7 DEF Lists
<1> HIDE DEF n, last, chunk, end, last2
<1>9. /\ writer' \in Writer /\ writer' # NoWriter /\ writer'.list = writer.list
      /\ writer'.i = writer.i /\ writer'.account_chunk_i = writer.account_chunk_i
      /\ writer'.data_chunk_i = writer.data_chunk_i
      /\ writer'.account_set = TRUE /\ writer'.data_set = writer.data_set
  <2>1. /\ writer' \in Writer /\ writer'.list = writer.list
        /\ writer'.i = writer.i /\ writer'.account_chunk_i = writer.account_chunk_i
        /\ writer'.data_chunk_i = writer.data_chunk_i
    BY <1>1, <1>2 DEF Writer
  <2>2. writer'.account_set = TRUE /\ writer'.data_set = writer.data_set
    BY <1>1, <1>2 DEF Writer
  <2>3. writer' # NoWriter
    BY <1>1, <2>1 DEF NoWriter, Lists
  <2> QED BY <2>1, <2>2, <2>3
<1>11. Typed'
  <2>1. panicked' \in BOOLEAN
    BY <1>2 DEF IInv, Typed, TypeOK
  <2>2. (writer \in Writer \cup {NoWriter})'
    <3>1. writer' \in Writer \cup {NoWriter}
      BY <1>9
    <3> QED BY <3>1 DEF Writer, NoWriter
  <2> QED BY <1>3, <1>7, <2>1, <2>2 DEF Typed, TypeOK, TxSet
<1>12. InStep'
  BY <1>1, <1>3, <1>6, <1>7 DEF IInv, InStep, n
<1>13. FirstChunk'
  <2>1. \A l \in Lists : \A k \in 1 .. Len(tx'[l]) : tx'[l][k].account_chunk_i = 0
    BY <1>8 DEF IInv, FirstChunk
  <2>2. ASSUME NEW k \in 1 .. Len(given') PROVE tx'.account_chunk_last[k] <= Len(tx'.account_chunk)
    <3>1. k \in 1 .. n
      BY <1>3, <2>2
    <3>2. last[k] <= Len(chunk)
      BY <3>1 DEF IInv, FirstChunk, n, last, chunk
    <3>3. last[k] \in Nat
      BY <1>1, <1>5, <3>1, EndFacts
    <3>4. Len(chunk) + Len(ids) \in Nat /\ Len(chunk) \in Nat /\ Len(ids) \in Nat
          /\ Len(chunk \o ids) = Len(chunk) + Len(ids)
      BY <1>5
    <3>5. last2[k] <= Len(chunk) + Len(ids)
      <4>1. CASE k = n
        <5>1. last2[k] = (Len(chunk) + Len(ids)) % U16
          BY <1>6, <4>1 DEF ChunkEnd, end
        <5> QED BY <3>4, <5>1, Widths, RestFacts
      <4>2. CASE k # n
        BY <1>6, <3>1, <3>2, <3>3, <3>4, <4>2
      <4> QED BY <4>1, <4>2
    <3> QED BY <1>7, <3>4, <3>5
  <2> QED BY <2>1, <2>2 DEF FirstChunk
<1>14. WriterIsNewest'
  <2>1. WriterIsNewest /\ ~panicked'
    BY <1>1, <1>2 DEF IInv
  <2>2. given'[n].list = given[n].list /\ given'[n].i = given[n].i
    BY <1>1, <1>4
  <2> QED BY <1>1, <1>3, <1>9, <2>1, <2>2 DEF WriterIsNewest, n
<1>15. Placed'
  BY <1>1, <1>3, <1>4, <1>8, PlacedKept DEF n
<1>16. ChunksFilled'
  <2>1. /\ AccountsSet = n - 1 /\ AccountsSet' = n /\ DatasSet' = DatasSet
    <3>1. AccountsSet = n - 1
      BY <1>1, <1>2 DEF AccountsSet, n
    <3>2. AccountsSet' = n
      BY <1>3, <1>9 DEF AccountsSet
    <3>3. DatasSet' = DatasSet
      BY <1>1, <1>3, <1>9 DEF DatasSet, n, NoWriter
    <3> QED BY <3>1, <3>2, <3>3
  <2>2. DOMAIN given = 1 .. n /\ DOMAIN given' = 1 .. n
    BY <1>1, <1>3 DEF n
  <2>3. Datas(given') = Datas(given)
    BY <1>4, <2>2 DEF Datas
  <2>4. \A k \in 1 .. n : Accounts(given')[k] = IF k = n THEN ids ELSE Accounts(given)[k]
    BY <1>4, <2>2 DEF Accounts
  <2>5. /\ Filled(last, chunk, Accounts(given), n - 1)
        /\ Filled(tx.data_chunk_last, tx.data_chunk, Datas(given), DatasSet)
    BY <1>1, <2>1 DEF IInv, ChunksFilled, last, chunk
  <2>6. Filled(last2, chunk \o ids, Accounts(given'), n)
    <3> DEFINE m == n - 1
    <3>1. m \in Nat /\ m + 1 = n /\ \A k \in 1 .. m : k \in 1 .. n /\ k # n
      BY <1>1
    <3>2. \A k \in 1 .. m : last[k] \in Nat
      <4>1. \A k \in 1 .. n : last[k] \in Nat
        BY <1>1, <1>5, EndFacts
      <4> QED BY <3>1, <4>1
    <3>3. \A k \in 1 .. m : last[k] = last2[k] /\ Accounts(given)[k] = Accounts(given')[k]
      BY <1>6, <2>4, <3>1
    <3>4. last2[m + 1] = ChunkEnd(chunk, ids) /\ Accounts(given')[m + 1] = ids
      BY <1>1, <1>6, <2>4, <3>1 DEF end
    <3>5. Filled(last, chunk, Accounts(given), m)
      BY <2>5
    <3> HIDE DEF m
    <3>6. Filled(last2, chunk \o ids, Accounts(given'), m + 1)
      BY <1>5, <3>1, <3>2, <3>3, <3>4, <3>5, FilledNext
    <3> QED BY <3>1, <3>6
  <2>7. /\ Filled(tx'.account_chunk_last, tx'.account_chunk, Accounts(given'), AccountsSet')
        /\ Filled(tx'.data_chunk_last, tx'.data_chunk, Datas(given'), DatasSet')
    BY <1>7, <2>1, <2>3, <2>5, <2>6
  <2> QED BY <2>7 DEF ChunksFilled, Filled, Accounts, Datas
<1>17. AccountSorted'
  BY <1>7 DEF IInv, AccountSorted
<1> QED BY <1>11, <1>12, <1>13, <1>14, <1>15, <1>16, <1>17 DEF IInv

(* data(): the same for the bytes.                                         *)
LEMMA SetDataKeeps ==
  ASSUME IInv, NEW bytes \in Seq(Byte), SetData(bytes)
  PROVE  IInv'
<1> DEFINE n == Len(given)
           last == tx.data_chunk_last
           chunk == tx.data_chunk
           end == ChunkEnd(chunk, bytes)
           last2 == [last EXCEPT ![n] = end]
<1>1. /\ tx \in TxSet /\ given \in Seq(Given) /\ writer \in Writer /\ n \in Nat /\ n > 0
      /\ n \in 1 .. n /\ writer.list \in Lists /\ writer.data_chunk_i + 1 = n
      /\ writer # NoWriter /\ ~panicked /\ Len(last) = n
  <2>1. writer # NoWriter
    BY DEF SetData
  <2> QED BY <2>1, HandleFacts
<1>2. /\ writer' = [writer EXCEPT !.data_set = TRUE] /\ panicked' = panicked
      /\ ~writer.data_set /\ Remember("data", bytes)
      /\ tx' = [tx EXCEPT !.data_chunk = @ \o bytes,
                          !.data_chunk_last[writer.data_chunk_i + 1] = end]
  BY DEF SetData
<1>3. /\ given' \in Seq(Given) /\ Len(given') = n
      /\ \A k \in 1 .. n : \A f \in Fields :
           given'[k][f] = IF k = n /\ f = "data" THEN bytes ELSE given[k][f]
  BY <1>1, <1>2, RememberFacts
<1>4. \A k \in 1 .. n : /\ given'[k].list = given[k].list /\ given'[k].i = given[k].i
                       /\ given'[k].program = given[k].program
                       /\ given'[k].account = given[k].account
                       /\ given'[k].data = IF k = n THEN bytes ELSE given[k].data
  <2>1. \A k \in 1 .. n : given'[k].list = given[k].list /\ given'[k].i = given[k].i
    BY <1>3 DEF Fields
  <2>2. \A k \in 1 .. n : /\ given'[k].program = given[k].program
                         /\ given'[k].account = given[k].account
    BY <1>3 DEF Fields
  <2>3. \A k \in 1 .. n : given'[k].data = IF k = n THEN bytes ELSE given[k].data
    BY <1>3 DEF Fields
  <2> QED BY <2>1, <2>2, <2>3
<1>5. last \in Seq(0 .. U16 - 1) /\ chunk \in Seq(Byte)
  BY <1>1, TxFacts
<1>6. /\ last2 \in Seq(0 .. U16 - 1) /\ Len(last2) = n /\ last2[n] = end
      /\ \A k \in 1 .. n : k # n => last2[k] = last[k]
  <2>1. end \in 0 .. U16 - 1
    <3>1. Len(chunk) + Len(bytes) \in Nat
      BY <1>5
    <3> QED BY <3>1, Widths, RestFacts DEF ChunkEnd
  <2> HIDE DEF end, last, n
  <2> QED BY <1>1, <1>5, <2>1
<1>7. /\ tx' \in TxSet /\ tx'.outer = tx.outer /\ tx'.inner = tx.inner
      /\ tx'.l1_inner = tx.l1_inner
      /\ tx'.data_chunk_last = last2 /\ tx'.data_chunk = chunk \o bytes
      /\ tx'.account_chunk_last = tx.account_chunk_last /\ tx'.account_chunk = tx.account_chunk
      /\ tx'.account = tx.account
  <2>1. chunk \o bytes \in Seq(Byte)
    BY <1>5
  <2>2. tx' = [tx EXCEPT !.data_chunk = chunk \o bytes, !.data_chunk_last = last2]
    BY <1>1, <1>2 DEF TxSet
  <2> HIDE DEF last2
  <2> QED BY <1>1, <1>6, <2>1, <2>2 DEF TxSet
<1>8. \A l \in Lists : tx'[l] = tx[l]
  BY <1>7 DEF Lists
<1> HIDE DEF n, last, chunk, end, last2
<1>9. /\ writer' \in Writer /\ writer' # NoWriter /\ writer'.list = writer.list
      /\ writer'.i = writer.i /\ writer'.account_chunk_i = writer.account_chunk_i
      /\ writer'.data_chunk_i = writer.data_chunk_i
      /\ writer'.data_set = TRUE /\ writer'.account_set = writer.account_set
  <2>1. /\ writer' \in Writer /\ writer'.list = writer.list
        /\ writer'.i = writer.i /\ writer'.account_chunk_i = writer.account_chunk_i
        /\ writer'.data_chunk_i = writer.data_chunk_i
    BY <1>1, <1>2 DEF Writer
  <2>2. writer'.data_set = TRUE /\ writer'.account_set = writer.account_set
    BY <1>1, <1>2 DEF Writer
  <2>3. writer' # NoWriter
    BY <1>1, <2>1 DEF NoWriter, Lists
  <2> QED BY <2>1, <2>2, <2>3
<1>11. Typed'
  <2>1. panicked' \in BOOLEAN
    BY <1>2 DEF IInv, Typed, TypeOK
  <2>2. (writer \in Writer \cup {NoWriter})'
    <3>1. writer' \in Writer \cup {NoWriter}
      BY <1>9
    <3> QED BY <3>1 DEF Writer, NoWriter
  <2> QED BY <1>3, <1>7, <2>1, <2>2 DEF Typed, TypeOK, TxSet
<1>12. InStep'
  BY <1>1, <1>3, <1>6, <1>7 DEF IInv, InStep, n
<1>13. FirstChunk'
  <2>1. \A l \in Lists : \A k \in 1 .. Len(tx'[l]) : tx'[l][k].account_chunk_i = 0
    BY <1>8 DEF IInv, FirstChunk
  <2>2. ASSUME NEW k \in 1 .. Len(given') PROVE tx'.account_chunk_last[k] <= Len(tx'.account_chunk)
    <3>1. k \in 1 .. n
      BY <1>3, <2>2
    <3> QED BY <1>7, <3>1 DEF IInv, FirstChunk, n
  <2> QED BY <2>1, <2>2 DEF FirstChunk
<1>14. WriterIsNewest'
  <2>1. WriterIsNewest /\ ~panicked'
    BY <1>1, <1>2 DEF IInv
  <2>2. given'[n].list = given[n].list /\ given'[n].i = given[n].i
    BY <1>1, <1>4
  <2> QED BY <1>1, <1>3, <1>9, <2>1, <2>2 DEF WriterIsNewest, n
<1>15. Placed'
  BY <1>1, <1>3, <1>4, <1>8, PlacedKept DEF n
<1>16. ChunksFilled'
  <2>1. /\ DatasSet = n - 1 /\ DatasSet' = n /\ AccountsSet' = AccountsSet
    <3>1. DatasSet = n - 1
      BY <1>1, <1>2 DEF DatasSet, n
    <3>2. DatasSet' = n
      BY <1>3, <1>9 DEF DatasSet
    <3>3. AccountsSet' = AccountsSet
      BY <1>1, <1>3, <1>9 DEF AccountsSet, n, NoWriter
    <3> QED BY <3>1, <3>2, <3>3
  <2>2. DOMAIN given = 1 .. n /\ DOMAIN given' = 1 .. n
    BY <1>1, <1>3 DEF n
  <2>3. Accounts(given') = Accounts(given)
    BY <1>4, <2>2 DEF Accounts
  <2>4. \A k \in 1 .. n : Datas(given')[k] = IF k = n THEN bytes ELSE Datas(given)[k]
    BY <1>4, <2>2 DEF Datas
  <2>5. /\ Filled(last, chunk, Datas(given), n - 1)
        /\ Filled(tx.account_chunk_last, tx.account_chunk, Accounts(given), AccountsSet)
    BY <1>1, <2>1 DEF IInv, ChunksFilled, last, chunk
  <2>6. Filled(last2, chunk \o bytes, Datas(given'), n)
    <3> DEFINE m == n - 1
    <3>1. m \in Nat /\ m + 1 = n /\ \A k \in 1 .. m : k \in 1 .. n /\ k # n
      BY <1>1
    <3>2. \A k \in 1 .. m : last[k] \in Nat
      <4>1. \A k \in 1 .. n : last[k] \in Nat
        BY <1>1, <1>5, EndFacts
      <4> QED BY <3>1, <4>1
    <3>3. \A k \in 1 .. m : last[k] = last2[k] /\ Datas(given)[k] = Datas(given')[k]
      BY <1>6, <2>4, <3>1
    <3>4. last2[m + 1] = ChunkEnd(chunk, bytes) /\ Datas(given')[m + 1] = bytes
      BY <1>1, <1>6, <2>4, <3>1 DEF end
    <3>5. Filled(last, chunk, Datas(given), m)
      BY <2>5
    <3> HIDE DEF m
    <3>6. Filled(last2, chunk \o bytes, Datas(given'), m + 1)
      BY <1>5, <3>1, <3>2, <3>3, <3>4, <3>5, FilledNext
    <3> QED BY <3>1, <3>6
  <2>7. /\ Filled(tx'.data_chunk_last, tx'.data_chunk, Datas(given'), DatasSet')
        /\ Filled(tx'.account_chunk_last, tx'.account_chunk, Accounts(given'), AccountsSet')
    BY <1>7, <2>1, <2>3, <2>5, <2>6
  <2> QED BY <2>7 DEF ChunksFilled, Filled, Accounts, Datas
<1>17. AccountSorted'
  BY <1>7 DEF IInv, AccountSorted
<1> QED BY <1>11, <1>12, <1>13, <1>14, <1>15, <1>16, <1>17 DEF IInv

(* Drop: the ids of the first chunk are merged into the sorted list.       *)
LEMMA DropWriterKeeps ==
  ASSUME IInv, DropWriter
  PROVE  IInv'
<1> DEFINE n == Len(given)
           w == writer.list
           ix == tx[w][writer.i + 1]
           ids == Chunk(tx.account_chunk_last, tx.account_chunk, ix.account_chunk_i)
           merged == Merge(tx.account, ids)
<1>1. /\ tx \in TxSet /\ given \in Seq(Given) /\ n \in Nat /\ n > 0 /\ n \in 1 .. n
      /\ w \in Lists /\ writer.i + 1 \in 1 .. Len(tx[w])
      /\ writer # NoWriter /\ ~panicked /\ Len(tx.account_chunk_last) = n
  <2>1. writer # NoWriter
    BY DEF DropWriter
  <2> QED BY <2>1, HandleFacts
<1>2. /\ tx' = [tx EXCEPT !.account = merged] /\ writer' = NoWriter
      /\ given' = given /\ panicked' = panicked
      /\ writer.account_set /\ writer.data_set
  BY DEF DropWriter
<1>3. /\ tx.account_chunk_last \in Seq(0 .. U16 - 1) /\ tx.account_chunk \in Seq(AccountId)
      /\ tx.account \in SortedLists
  <2>1. tx.account \in Seq(AccountId) /\ AccountSorted
    BY <1>1, TxFacts DEF IInv
  <2> QED BY <1>1, <2>1, TxFacts DEF SortedLists, Sorted, AccountSorted
<1>4. ids \in Seq(AccountId)
  <2>1. ix.account_chunk_i = 0
    BY <1>1 DEF IInv, FirstChunk
  <2> DEFINE e == tx.account_chunk_last[1]
  <2>2. 1 \in 1 .. n
    BY <1>1
  <2>3. e \in Nat /\ e <= Len(tx.account_chunk)
    <3>1. e \in Nat
      BY <1>1, <1>3, <2>2, EndFacts
    <3> QED BY <2>2, <3>1 DEF IInv, FirstChunk
  <2>4. ids = SubSeq(tx.account_chunk, 0 + 1, e)
    BY <2>1 DEF Chunk
  <2> HIDE DEF e
  <2>5. SubSeq(tx.account_chunk, 0 + 1, e) \in Seq(AccountId)
    <3>1. 0 \in Nat /\ 0 <= e
      BY <2>3
    <3> QED BY <1>3, <2>3, <3>1, PartFacts
  <2> QED BY <2>4, <2>5
<1> HIDE DEF ids
<1>5. merged \in SortedLists
  BY <1>3, <1>4, MergeFacts
<1> HIDE DEF merged, n
<1>6. merged \in Seq(AccountId) /\ \A i, j \in DOMAIN merged : i < j => merged[i] < merged[j]
  BY <1>5 DEF SortedLists, Sorted
<1>7. /\ tx' \in TxSet /\ tx'.outer = tx.outer /\ tx'.inner = tx.inner
      /\ tx'.l1_inner = tx.l1_inner /\ tx'.account = merged
      /\ tx'.account_chunk_last = tx.account_chunk_last /\ tx'.account_chunk = tx.account_chunk
      /\ tx'.data_chunk_last = tx.data_chunk_last /\ tx'.data_chunk = tx.data_chunk
  BY <1>1, <1>2, <1>6 DEF TxSet
<1>8. \A l \in Lists : tx'[l] = tx[l]
  BY <1>7 DEF Lists
<1>9. Typed'
  <2>1. panicked' \in BOOLEAN
    BY <1>2 DEF IInv, Typed, TypeOK
  <2>2. (writer \in Writer \cup {NoWriter})'
    BY <1>2 DEF NoWriter
  <2>3. given' \in Seq(Given)
    BY <1>1, <1>2
  <2> QED BY <1>7, <2>1, <2>2, <2>3 DEF Typed, TypeOK, TxSet
<1>10. InStep'
  BY <1>2, <1>7 DEF IInv, InStep
<1>11. FirstChunk'
  BY <1>2, <1>7, <1>8 DEF IInv, FirstChunk
<1>12. WriterIsNewest'
  BY <1>2 DEF WriterIsNewest, NoWriter
<1>13. Placed'
  BY <1>2, <1>8, PlacedKept
<1>14. ChunksFilled'
  <2>1. AccountsSet = Len(given) /\ DatasSet = Len(given)
    BY <1>2 DEF AccountsSet, DatasSet
  <2>2. AccountsSet' = Len(given) /\ DatasSet' = Len(given)
    BY <1>2 DEF AccountsSet, DatasSet, NoWriter
  <2>3. /\ Filled(tx.account_chunk_last, tx.account_chunk, Accounts(given), Len(given))
        /\ Filled(tx.data_chunk_last, tx.data_chunk, Datas(given), Len(given))
    BY <1>1, <2>1 DEF IInv, ChunksFilled
  <2>4. /\ Filled(tx'.account_chunk_last, tx'.account_chunk, Accounts(given'), AccountsSet')
        /\ Filled(tx'.data_chunk_last, tx'.data_chunk, Datas(given'), DatasSet')
    BY <1>2, <1>7, <2>2, <2>3
  <2> QED BY <2>4 DEF ChunksFilled, Filled, Accounts, Datas
<1>15. AccountSorted'
  BY <1>6, <1>7 DEF AccountSorted
<1> QED BY <1>9, <1>10, <1>11, <1>12, <1>13, <1>14, <1>15 DEF IInv

(* A failed assertion leaves the transaction as it is.                     *)
LEMMA PanicKeeps ==
  ASSUME IInv, Panic
  PROVE  IInv'
<1>1. tx' = tx /\ given' = given /\ writer' = NoWriter /\ panicked' = TRUE
  BY DEF Panic
<1>2. Typed'
  <2>1. (panicked \in BOOLEAN)'
    BY <1>1
  <2>2. (writer \in Writer \cup {NoWriter})'
    BY <1>1 DEF NoWriter
  <2> QED BY <1>1, <2>1, <2>2 DEF IInv, Typed, TypeOK
<1>3. InStep' /\ FirstChunk' /\ AccountSorted'
  BY <1>1 DEF IInv, InStep, FirstChunk, AccountSorted
<1>4. Placed'
  BY <1>1 DEF IInv, Placed
<1>5. WriterIsNewest'
  BY <1>1 DEF WriterIsNewest, NoWriter
<1>6. ChunksFilled'
  BY <1>1 DEF ChunksFilled
<1> QED BY <1>2, <1>3, <1>4, <1>5, <1>6 DEF IInv

(* Every step of the builder.                                              *)
LEMMA StepKeeps == IInv /\ [Next]_vars => IInv'
<1> SUFFICES ASSUME IInv, [Next]_vars PROVE IInv'
  OBVIOUS
<1>1. CASE AppendOuter
  BY <1>1, AppendOuterKeeps
<1>2. ASSUME NEW o \in 0 .. MaxIx - 1, AppendInner(o) PROVE IInv'
  <2>1. o \in Nat
    BY TransactionAssumption
  <2> QED BY <1>2, <2>1, AppendInnerKeeps
<1>3. ASSUME NEW o \in 0 .. MaxIx - 1, AppendInnerPanics(o) PROVE IInv'
  BY <1>3, PanicKeeps DEF AppendInnerPanics
<1>4. ASSUME NEW p \in Program, SetProgram(p) PROVE IInv'
  BY <1>4, SetProgramKeeps
<1>5. ASSUME NEW ids \in SeqOf(AccountId, MaxAccount), SetAccount(ids) PROVE IInv'
  <2>1. ids \in Seq(AccountId)
    BY SeqOfFacts, TransactionAssumption
  <2> QED BY <1>5, <2>1, SetAccountKeeps
<1>6. ASSUME NEW bytes \in SeqOf(Byte, MaxData), SetData(bytes) PROVE IInv'
  <2>1. bytes \in Seq(Byte)
    BY SeqOfFacts, TransactionAssumption
  <2> QED BY <1>6, <2>1, SetDataKeeps
<1>7. CASE DropWriter
  BY <1>7, DropWriterKeeps
<1>8. CASE DropPanics \/ SecondCallPanics
  BY <1>8, PanicKeeps DEF DropPanics, SecondCallPanics
<1>9. CASE Finished \/ UNCHANGED vars
  <2>1. tx' = tx /\ given' = given /\ writer' = writer /\ panicked' = panicked
    BY <1>9 DEF Finished, vars
  <2>2. Typed' /\ InStep' /\ FirstChunk' /\ AccountSorted' /\ Placed' /\ WriterIsNewest'
    BY <2>1 DEF IInv, Typed, TypeOK, InStep, FirstChunk, AccountSorted, Placed, WriterIsNewest
  <2>3. ChunksFilled'
    BY <2>1 DEF IInv, ChunksFilled, Filled, Accounts, Datas, AccountsSet, DatasSet
  <2> QED BY <2>2, <2>3 DEF IInv
<1> QED BY <1>1, <1>2, <1>3, <1>4, <1>5, <1>6, <1>7, <1>8, <1>9 DEF Next

(***************************************************************************)
(* The inductive invariant holds in every state that the builder reaches.  *)
(***************************************************************************)
THEOREM InvariantHolds == Spec => []IInv
BY InitFacts, StepKeeps, PTL DEF Spec

-----------------------------------------------------------------------------
(* What follows.                                                           *)

(***************************************************************************)
(* A transaction, its handle and the panic flag keep their types: above    *)
(* all, no end in the chunk tables is wider than the u16 it is stored in.  *)
(***************************************************************************)
THEOREM TypeCorrect == Spec => []TypeOK
<1>1. IInv => TypeOK
  BY DEF IInv, Typed
<1> QED BY <1>1, InvariantHolds, PTL

(***************************************************************************)
(* append_outer and append_inner keep the tables in step with the lists,   *)
(* and the counts of l1_inner add up to an inner list shorter than 2^8,    *)
(* whatever outer instruction an inner one is appended to.                 *)
(***************************************************************************)
THEOREM TablesInStep == Spec => []SectionsInStep
<1>1. IInv => SectionsInStep
  BY DEF IInv, InStep, SectionsInStep
<1> QED BY <1>1, InvariantHolds, PTL

(***************************************************************************)
(* The merge in Drop keeps the account list strictly sorted.               *)
(***************************************************************************)
THEOREM StaysSorted == Spec => []AccountSorted
<1>1. IInv => AccountSorted
  BY DEF IInv
<1> QED BY <1>1, InvariantHolds, PTL

(***************************************************************************)
(* Between two instructions, the c-th chunk of an array that has not       *)
(* outgrown the u16 holds what the c-th instruction was given, and every   *)
(* instruction has the program that was set for it.                        *)
(***************************************************************************)
THEOREM ChunksHoldWhatWasGiven == Spec => []ChunkTables
<1>1. IInv => ChunkTables
  <2> SUFFICES ASSUME IInv, Idle, NEW c \in 0 .. Len(given) - 1
               PROVE  /\ tx[given[c + 1].list][given[c + 1].i + 1].program = given[c + 1].program
                      /\ Len(tx.account_chunk) < U16 =>
                           Chunk(tx.account_chunk_last, tx.account_chunk, c) = given[c + 1].account
                      /\ Len(tx.data_chunk) < U16 =>
                           Chunk(tx.data_chunk_last, tx.data_chunk, c) = given[c + 1].data
    BY DEF ChunkTables
  <2>1. given \in Seq(Given) /\ Len(given) \in Nat
    BY DEF IInv, Typed
  <2>2. c + 1 \in 1 .. Len(given) /\ c + 1 \in DOMAIN given
    BY <2>1
  <2>3. tx[given[c + 1].list][given[c + 1].i + 1].program = given[c + 1].program
    BY <2>2 DEF IInv, Placed
  <2>4. AccountsSet = Len(given) /\ DatasSet = Len(given)
    BY DEF Idle, AccountsSet, DatasSet
  <2>5. /\ Filled(tx.account_chunk_last, tx.account_chunk, Accounts(given), Len(given))
        /\ Filled(tx.data_chunk_last, tx.data_chunk, Datas(given), Len(given))
    BY <2>4 DEF IInv, ChunksFilled, Idle
  <2>6. Accounts(given)[c + 1] = given[c + 1].account /\ Datas(given)[c + 1] = given[c + 1].data
    BY <2>2 DEF Accounts, Datas
  <2>7. /\ Len(tx.account_chunk) < U16 =>
             Chunk(tx.account_chunk_last, tx.account_chunk, c) = Accounts(given)[c + 1]
        /\ Len(tx.data_chunk) < U16 =>
             Chunk(tx.data_chunk_last, tx.data_chunk, c) = Datas(given)[c + 1]
    BY <2>5 DEF Filled
  <2> QED BY <2>3, <2>6, <2>7
<1> QED BY <1>1, InvariantHolds, PTL

-----------------------------------------------------------------------------
(* The wire format.                                                        *)

(* The sums of the first numbers of a list, one after the other.           *)
LEMMA PrefixTotal ==
  ASSUME NEW f, NEW m \in Nat, \A j \in 1 .. m : f[j] \in Nat
  PROVE  /\ Total([j \in 1 .. 0 |-> f[j]]) = 0
         /\ \A k \in 1 .. m : /\ Total([j \in 1 .. k - 1 |-> f[j]]) \in Nat
                              /\ Total([j \in 1 .. k |-> f[j]])
                                   = Total([j \in 1 .. k - 1 |-> f[j]]) + f[k]
<1>1. Total([j \in 1 .. 0 |-> f[j]]) = 0
  <2> DEFINE z == [j \in 1 .. 0 |-> f[j]]
  <2>1. z \in Seq(Nat) /\ Len(z) = 0
    OBVIOUS
  <2> HIDE DEF z
  <2>2. Total(z) = 0
    BY <2>1, TotalEmpty
  <2> QED BY <2>2 DEF z
<1>2. ASSUME NEW k \in 1 .. m
      PROVE  /\ Total([j \in 1 .. k - 1 |-> f[j]]) \in Nat
             /\ Total([j \in 1 .. k |-> f[j]]) = Total([j \in 1 .. k - 1 |-> f[j]]) + f[k]
  <2> DEFINE n == k - 1
             x == [j \in 1 .. k - 1 |-> f[j]]
             y == [j \in 1 .. k |-> f[j]]
  <2>1. n \in Nat /\ n + 1 = k /\ k \in Nat
    OBVIOUS
  <2>2. x \in Seq(Nat) /\ Len(x) = n /\ y \in Seq(Nat) /\ Len(y) = n + 1
    <3>1. \A j \in 1 .. k : f[j] \in Nat
      OBVIOUS
    <3>2. y \in Seq(Nat) /\ Len(y) = k
      BY <2>1, <3>1
    <3>3. x \in Seq(Nat) /\ Len(x) = k - 1
      BY <2>1, <3>1
    <3> QED BY <2>1, <3>2, <3>3
  <2>3. (\A j \in 1 .. n : y[j] = x[j]) /\ y[n + 1] = f[k]
    BY <2>1
  <2> HIDE DEF x, y, n
  <2>4. Total(x) \in Nat /\ Total(y) = Total(x) + y[n + 1]
    BY <2>1, <2>2, <2>3, TotalLast
  <2> QED BY <2>3, <2>4 DEF x, y
<1> QED BY <1>1, <1>2

(* The list y lies in the list x behind off elements.                      *)
LiesAt(x, off, y) ==
  /\ off \in Nat /\ off + Len(y) <= Len(x)
  /\ \A k \in 1 .. Len(y) : x[off + k] = y[k]

(* What is put behind a list lies behind all of its elements,              *)
LEMMA LiesLast ==
  ASSUME NEW S, NEW x \in Seq(S), NEW y \in Seq(S), NEW off \in Nat, off = Len(x)
  PROVE  LiesAt(x \o y, off, y)
<1>1. Len(x \o y) = Len(x) + Len(y) /\ \A k \in 1 .. Len(y) : (x \o y)[Len(x) + k] = y[k]
  BY ConcatFacts
<1>2. Len(x) \in Nat /\ Len(y) \in Nat
  OBVIOUS
<1> QED BY <1>1, <1>2 DEF LiesAt

(* stays where it lies when more is put behind it,                         *)
LEMMA LiesStill ==
  ASSUME NEW S, NEW x \in Seq(S), NEW z \in Seq(S), NEW y \in Seq(S), NEW off, LiesAt(x, off, y)
  PROVE  LiesAt(x \o z, off, y)
<1>1. Len(x \o z) = Len(x) + Len(z) /\ \A k \in 1 .. Len(x) : (x \o z)[k] = x[k]
  BY ConcatFacts
<1>2. Len(x) \in Nat /\ Len(z) \in Nat /\ Len(y) \in Nat
  OBVIOUS
<1>3. /\ off \in Nat /\ off + Len(y) <= Len(x)
      /\ \A k \in 1 .. Len(y) : x[off + k] = y[k]
  BY DEF LiesAt
<1>4. \A k \in 1 .. Len(y) : off + k \in 1 .. Len(x)
  BY <1>2, <1>3
<1>5. \A k \in 1 .. Len(y) : (x \o z)[off + k] = y[k]
  BY <1>1, <1>3, <1>4
<1>6. off + Len(y) <= Len(x \o z)
  BY <1>1, <1>2, <1>3
<1> QED BY <1>3, <1>5, <1>6 DEF LiesAt

(* The list y is what is taken of the list x, from behind off elements to  *)
(* element to.                                                             *)
TakenIs(x, off, to, y) == SubSeq(x, off + 1, to) = y

(* and is what is taken from there.                                        *)
LEMMA LiesTaken ==
  ASSUME NEW S, NEW x \in Seq(S), NEW y \in Seq(S), NEW off, LiesAt(x, off, y),
         NEW to, to = off + Len(y)
  PROVE  TakenIs(x, off, to, y)
<1>1. Len(x) \in Nat /\ Len(y) \in Nat
  OBVIOUS
<1>2. /\ off \in Nat /\ off + Len(y) <= Len(x)
      /\ \A k \in 1 .. Len(y) : x[off + k] = y[k]
  BY DEF LiesAt
<1>3. to \in Nat /\ off <= to /\ to <= Len(x) /\ to - off = Len(y)
  BY <1>1, <1>2
<1> DEFINE z == SubSeq(x, off + 1, to)
<1>4. z \in Seq(S) /\ Len(z) = to - off /\ \A k \in 1 .. to - off : z[k] = x[off + k]
  BY <1>2, <1>3, PartFacts
<1> HIDE DEF z
<1>5. z = y
  <2>1. Len(z) = Len(y) /\ \A k \in 1 .. Len(y) : z[k] = y[k]
    BY <1>2, <1>3, <1>4
  <2> QED BY <1>1, <1>4, <2>1, SameList
<1> QED BY <1>5 DEF z, TakenIs

(* The table of sections, row by row.                                      *)
LEMMA SectionFacts ==
  ASSUME NEW h
  PROVE  /\ DOMAIN Sections(h) = 1 .. 8
         /\ Sections(h)[1][1] = "outer" /\ Sections(h)[1][2] = h.outer_len /\ Sections(h)[1][3] = 16
         /\ Sections(h)[2][1] = "inner" /\ Sections(h)[2][2] = h.inner_len /\ Sections(h)[2][3] = 16
         /\ Sections(h)[3][1] = "account" /\ Sections(h)[3][2] = h.account_len /\ Sections(h)[3][3] = 8
         /\ Sections(h)[4][1] = "account_chunk" /\ Sections(h)[4][2] = h.account_chunk_len /\ Sections(h)[4][3] = 8
         /\ Sections(h)[5][1] = "account_chunk_last" /\ Sections(h)[5][2] = h.outer_len + h.inner_len /\ Sections(h)[5][3] = 2
         /\ Sections(h)[6][1] = "data_chunk_last" /\ Sections(h)[6][2] = h.outer_len + h.inner_len /\ Sections(h)[6][3] = 2
         /\ Sections(h)[7][1] = "l1_inner" /\ Sections(h)[7][2] = h.outer_len /\ Sections(h)[7][3] = 1
         /\ Sections(h)[8][1] = "data_chunk" /\ Sections(h)[8][2] = h.data_chunk_len /\ Sections(h)[8][3] = 1
BY DEF Sections

(* The counts of a header are numbers.                                     *)
Numbers(h) ==
  /\ h.outer_len \in Nat /\ h.inner_len \in Nat /\ h.account_len \in Nat
  /\ h.account_chunk_len \in Nat /\ h.data_chunk_len \in Nat

(* A section starts where the one before it ends, in cells                 *)
LEMMA CellFacts ==
  ASSUME NEW h, Numbers(h)
  PROVE  LET ix == h.outer_len + h.inner_len IN
         /\ CellsBefore(h, 1) = 0
         /\ CellsBefore(h, 2) = CellsBefore(h, 1) + h.outer_len
         /\ CellsBefore(h, 3) = CellsBefore(h, 2) + h.inner_len
         /\ CellsBefore(h, 4) = CellsBefore(h, 3) + h.account_len
         /\ CellsBefore(h, 5) = CellsBefore(h, 4) + h.account_chunk_len
         /\ CellsBefore(h, 6) = CellsBefore(h, 5) + ix
         /\ CellsBefore(h, 7) = CellsBefore(h, 6) + ix
         /\ CellsBefore(h, 8) = CellsBefore(h, 7) + h.outer_len
         /\ CellsBefore(h, 9) = CellsBefore(h, 8) + h.data_chunk_len
         /\ \A k \in 1 .. 8 : CellsBefore(h, k) \in Nat
<1> DEFINE f == [k \in 1 .. 8 |-> Sections(h)[k][2]]
           T(k) == Total([j \in 1 .. k |-> f[j]])
<1>1. \A k \in 1 .. 8 : f[k] \in Nat
  <2>1. \A k \in 1 .. 8 : Sections(h)[k][2] \in Nat
    <3> SUFFICES ASSUME NEW k \in 1 .. 8 PROVE Sections(h)[k][2] \in Nat
      OBVIOUS
    <3>1. k = 1 \/ k = 2 \/ k = 3 \/ k = 4 \/ k = 5 \/ k = 6 \/ k = 7 \/ k = 8
      OBVIOUS
    <3>2. h.outer_len + h.inner_len \in Nat
      BY DEF Numbers
    <3>3. /\ Sections(h)[1][2] \in Nat /\ Sections(h)[2][2] \in Nat
          /\ Sections(h)[3][2] \in Nat /\ Sections(h)[4][2] \in Nat
          /\ Sections(h)[5][2] \in Nat /\ Sections(h)[6][2] \in Nat
          /\ Sections(h)[7][2] \in Nat /\ Sections(h)[8][2] \in Nat
      BY <3>2, SectionFacts DEF Numbers
    <3> QED BY <3>1, <3>3
  <2> QED BY <2>1
<1>2. /\ f[1] = h.outer_len /\ f[2] = h.inner_len /\ f[3] = h.account_len
      /\ f[4] = h.account_chunk_len /\ f[5] = h.outer_len + h.inner_len
      /\ f[6] = h.outer_len + h.inner_len /\ f[7] = h.outer_len /\ f[8] = h.data_chunk_len
  BY SectionFacts
<1>3. ASSUME NEW k \in 1 .. 9 PROVE CellsBefore(h, k) = T(k - 1)
  <2>1. \A j \in 1 .. k - 1 : j \in 1 .. 8
    OBVIOUS
  <2>2. [j \in 1 .. k - 1 |-> Sections(h)[j][2]] = [j \in 1 .. k - 1 |-> f[j]]
    BY <2>1
  <2> HIDE DEF f
  <2> QED BY <2>2 DEF CellsBefore
<1> HIDE DEF f
<1>4. T(0) = 0 /\ \A k \in 1 .. 8 : T(k - 1) \in Nat /\ T(k) = T(k - 1) + f[k]
  BY <1>1, PrefixTotal
<1> HIDE DEF T
<1>5. /\ T(1) = T(0) + f[1] /\ T(2) = T(1) + f[2] /\ T(3) = T(2) + f[3] /\ T(4) = T(3) + f[4]
      /\ T(5) = T(4) + f[5] /\ T(6) = T(5) + f[6] /\ T(7) = T(6) + f[7] /\ T(8) = T(7) + f[8]
  BY <1>4
<1>6. /\ CellsBefore(h, 1) = T(0) /\ CellsBefore(h, 2) = T(1) /\ CellsBefore(h, 3) = T(2)
      /\ CellsBefore(h, 4) = T(3) /\ CellsBefore(h, 5) = T(4) /\ CellsBefore(h, 6) = T(5)
      /\ CellsBefore(h, 7) = T(6) /\ CellsBefore(h, 8) = T(7) /\ CellsBefore(h, 9) = T(8)
  BY <1>3
<1>7. \A k \in 1 .. 8 : CellsBefore(h, k) \in Nat
  BY <1>3, <1>4
<1> QED BY <1>2, <1>4, <1>5, <1>6, <1>7

(* and in bytes.                                                           *)
LEMMA ByteFacts ==
  ASSUME NEW h, Numbers(h)
  PROVE  LET ix == h.outer_len + h.inner_len IN
         /\ BytesBefore(h, 1) = 96
         /\ BytesBefore(h, 2) = BytesBefore(h, 1) + h.outer_len * 16
         /\ BytesBefore(h, 3) = BytesBefore(h, 2) + h.inner_len * 16
         /\ BytesBefore(h, 4) = BytesBefore(h, 3) + h.account_len * 8
         /\ BytesBefore(h, 5) = BytesBefore(h, 4) + h.account_chunk_len * 8
         /\ BytesBefore(h, 6) = BytesBefore(h, 5) + ix * 2
         /\ BytesBefore(h, 7) = BytesBefore(h, 6) + ix * 2
         /\ BytesBefore(h, 8) = BytesBefore(h, 7) + h.outer_len * 1
         /\ BytesBefore(h, 9) = BytesBefore(h, 8) + h.data_chunk_len * 1
<1> DEFINE f == [k \in 1 .. 8 |-> Sections(h)[k][2] * Sections(h)[k][3]]
           T(k) == Total([j \in 1 .. k |-> f[j]])
<1>2. /\ f[1] = h.outer_len * 16 /\ f[2] = h.inner_len * 16 /\ f[3] = h.account_len * 8
      /\ f[4] = h.account_chunk_len * 8 /\ f[5] = (h.outer_len + h.inner_len) * 2
      /\ f[6] = (h.outer_len + h.inner_len) * 2 /\ f[7] = h.outer_len * 1
      /\ f[8] = h.data_chunk_len * 1
  <2>1. \A k \in 1 .. 8 : f[k] = Sections(h)[k][2] * Sections(h)[k][3]
    OBVIOUS
  <2>2. /\ 1 \in 1 .. 8 /\ 2 \in 1 .. 8 /\ 3 \in 1 .. 8 /\ 4 \in 1 .. 8
        /\ 5 \in 1 .. 8 /\ 6 \in 1 .. 8 /\ 7 \in 1 .. 8 /\ 8 \in 1 .. 8
    OBVIOUS
  <2> HIDE DEF f
  <2>3. /\ f[1] = Sections(h)[1][2] * Sections(h)[1][3]
        /\ f[2] = Sections(h)[2][2] * Sections(h)[2][3]
        /\ f[3] = Sections(h)[3][2] * Sections(h)[3][3]
        /\ f[4] = Sections(h)[4][2] * Sections(h)[4][3]
        /\ f[5] = Sections(h)[5][2] * Sections(h)[5][3]
        /\ f[6] = Sections(h)[6][2] * Sections(h)[6][3]
        /\ f[7] = Sections(h)[7][2] * Sections(h)[7][3]
        /\ f[8] = Sections(h)[8][2] * Sections(h)[8][3]
    BY <2>1, <2>2
  <2>4. f[1] = h.outer_len * 16
    <3>1. Sections(h)[1][2] = h.outer_len /\ Sections(h)[1][3] = 16
      BY SectionFacts
    <3> QED BY <2>3, <3>1, Zenon
  <2>5. f[2] = h.inner_len * 16
    <3>1. Sections(h)[2][2] = h.inner_len /\ Sections(h)[2][3] = 16
      BY SectionFacts
    <3> QED BY <2>3, <3>1, Zenon
  <2>6. f[3] = h.account_len * 8
    <3>1. Sections(h)[3][2] = h.account_len /\ Sections(h)[3][3] = 8
      BY SectionFacts
    <3> QED BY <2>3, <3>1, Zenon
  <2>7. f[4] = h.account_chunk_len * 8
    <3>1. Sections(h)[4][2] = h.account_chunk_len /\ Sections(h)[4][3] = 8
      BY SectionFacts
    <3> QED BY <2>3, <3>1, Zenon
  <2>8. f[5] = (h.outer_len + h.inner_len) * 2
    <3>1. Sections(h)[5][2] = (h.outer_len + h.inner_len) /\ Sections(h)[5][3] = 2
      BY SectionFacts
    <3> QED BY <2>3, <3>1, Zenon
  <2>9. f[6] = (h.outer_len + h.inner_len) * 2
    <3>1. Sections(h)[6][2] = (h.outer_len + h.inner_len) /\ Sections(h)[6][3] = 2
      BY SectionFacts
    <3> QED BY <2>3, <3>1, Zenon
  <2>10. f[7] = h.outer_len * 1
    <3>1. Sections(h)[7][2] = h.outer_len /\ Sections(h)[7][3] = 1
      BY SectionFacts
    <3> QED BY <2>3, <3>1, Zenon
  <2>11. f[8] = h.data_chunk_len * 1
    <3>1. Sections(h)[8][2] = h.data_chunk_len /\ Sections(h)[8][3] = 1
      BY SectionFacts
    <3> QED BY <2>3, <3>1, Zenon
  <2> QED BY <2>4, <2>5, <2>6, <2>7, <2>8, <2>9, <2>10, <2>11
<1>3. ASSUME NEW k \in 1 .. 9 PROVE BytesBefore(h, k) = 96 + T(k - 1)
  <2>1. \A j \in 1 .. k - 1 : j \in 1 .. 8
    OBVIOUS
  <2>2. [j \in 1 .. k - 1 |-> Sections(h)[j][2] * Sections(h)[j][3]]
          = [j \in 1 .. k - 1 |-> f[j]]
    BY <2>1
  <2> HIDE DEF f
  <2> QED BY <2>2 DEF BytesBefore, HeaderBytes
<1> HIDE DEF f
<1>1. \A k \in 1 .. 8 : f[k] \in Nat
  <2> SUFFICES ASSUME NEW k \in 1 .. 8 PROVE f[k] \in Nat
    OBVIOUS
  <2>1. k = 1 \/ k = 2 \/ k = 3 \/ k = 4 \/ k = 5 \/ k = 6 \/ k = 7 \/ k = 8
    OBVIOUS
  <2>2. \A a \in Nat : a * 16 \in Nat /\ a * 8 \in Nat /\ a * 2 \in Nat /\ a * 1 \in Nat
    OBVIOUS
  <2>3. h.outer_len + h.inner_len \in Nat
    BY DEF Numbers
  <2>4. /\ f[1] \in Nat /\ f[2] \in Nat /\ f[3] \in Nat /\ f[4] \in Nat
        /\ f[5] \in Nat /\ f[6] \in Nat /\ f[7] \in Nat /\ f[8] \in Nat
    BY <1>2, <2>2, <2>3 DEF Numbers
  <2> QED BY <2>1, <2>4
<1>4. T(0) = 0 /\ \A k \in 1 .. 8 : T(k - 1) \in Nat /\ T(k) = T(k - 1) + f[k]
  BY <1>1, PrefixTotal
<1> HIDE DEF T
<1>5. /\ T(1) = T(0) + f[1] /\ T(2) = T(1) + f[2] /\ T(3) = T(2) + f[3] /\ T(4) = T(3) + f[4]
      /\ T(5) = T(4) + f[5] /\ T(6) = T(5) + f[6] /\ T(7) = T(6) + f[7] /\ T(8) = T(7) + f[8]
  BY <1>4
<1>6. /\ T(0) \in Nat /\ T(1) \in Nat /\ T(2) \in Nat /\ T(3) \in Nat
      /\ T(4) \in Nat /\ T(5) \in Nat /\ T(6) \in Nat /\ T(7) \in Nat
  BY <1>4
<1>8. /\ BytesBefore(h, 1) = 96 + T(0) /\ BytesBefore(h, 2) = 96 + T(1)
      /\ BytesBefore(h, 3) = 96 + T(2) /\ BytesBefore(h, 4) = 96 + T(3)
      /\ BytesBefore(h, 5) = 96 + T(4) /\ BytesBefore(h, 6) = 96 + T(5)
      /\ BytesBefore(h, 7) = 96 + T(6) /\ BytesBefore(h, 8) = 96 + T(7)
      /\ BytesBefore(h, 9) = 96 + T(8)
  BY <1>3
<1>9. \A k \in 1 .. 8 : 96 + T(k) = (96 + T(k - 1)) + f[k]
  BY <1>1, <1>4
<1>10. /\ 96 + T(1) = (96 + T(0)) + f[1] /\ 96 + T(2) = (96 + T(1)) + f[2]
       /\ 96 + T(3) = (96 + T(2)) + f[3] /\ 96 + T(4) = (96 + T(3)) + f[4]
       /\ 96 + T(5) = (96 + T(4)) + f[5] /\ 96 + T(6) = (96 + T(5)) + f[6]
       /\ 96 + T(7) = (96 + T(6)) + f[7] /\ 96 + T(8) = (96 + T(7)) + f[8]
  BY <1>9
<1> QED BY <1>2, <1>4, <1>8, <1>10

(* What write_to and try_from take for granted of a transaction.           *)
Whole(t) ==
  /\ t \in TxSet
  /\ Len(t.account_chunk_last) = Len(t.outer) + Len(t.inner)
  /\ Len(t.data_chunk_last) = Len(t.outer) + Len(t.inner)
  /\ Len(t.l1_inner) = Len(t.outer)

Header(t) == WriteTo(t).hdr
Cells(t) == WriteTo(t).cells

(* The lengths that write_to notes in the header.                          *)
LEMMA HeaderFacts ==
  ASSUME NEW t, Whole(t)
  PROVE  /\ Header(t).outer_len = Len(t.outer) /\ Header(t).inner_len = Len(t.inner)
         /\ Header(t).account_len = Len(t.account)
         /\ Header(t).account_chunk_len = Len(t.account_chunk)
         /\ Header(t).data_chunk_len = Len(t.data_chunk)
         /\ Numbers(Header(t))
<1>1. /\ t.outer \in Seq(Instruction) /\ t.inner \in Seq(Instruction)
      /\ t.account \in Seq(AccountId) /\ t.account_chunk \in Seq(AccountId)
      /\ t.data_chunk \in Seq(Byte)
  BY TxFacts DEF Whole
<1>2. /\ Len(t.outer) \in Nat /\ Len(t.inner) \in Nat /\ Len(t.account) \in Nat
      /\ Len(t.account_chunk) \in Nat /\ Len(t.data_chunk) \in Nat
  BY <1>1
<1>3. /\ Header(t).outer_len = Len(t.outer) /\ Header(t).inner_len = Len(t.inner)
      /\ Header(t).account_len = Len(t.account)
      /\ Header(t).account_chunk_len = Len(t.account_chunk)
      /\ Header(t).data_chunk_len = Len(t.data_chunk)
  BY DEF Header, WriteTo
<1> QED BY <1>2, <1>3 DEF Numbers

(* write_to puts every section where try_from takes it.                    *)
LEMMA LayoutFacts ==
  ASSUME NEW t, Whole(t)
  PROVE  LET Taken(k) == SubSeq(Cells(t), CellsBefore(Header(t), k) + 1,
                                CellsBefore(Header(t), k + 1)) IN
         /\ Taken(1) = t.outer
         /\ Taken(2) = t.inner
         /\ Taken(3) = t.account
         /\ Taken(4) = t.account_chunk
         /\ Taken(5) = t.account_chunk_last
         /\ Taken(6) = t.data_chunk_last
         /\ Taken(7) = t.l1_inner
         /\ Taken(8) = t.data_chunk
<1> DEFINE Cell == Instruction \cup AccountId \cup Nat \cup Byte
           a1 == t.outer
           a2 == t.inner
           a3 == t.account
           a4 == t.account_chunk
           a5 == t.account_chunk_last
           a6 == t.data_chunk_last
           a7 == t.l1_inner
           a8 == t.data_chunk
           p1 == a1
           p2 == p1 \o a2
           p3 == p2 \o a3
           p4 == p3 \o a4
           p5 == p4 \o a5
           p6 == p5 \o a6
           p7 == p6 \o a7
           p8 == p7 \o a8
           c(k) == CellsBefore(Header(t), k)
<1>1. /\ a1 \in Seq(Instruction)
      /\ a2 \in Seq(Instruction)
      /\ a3 \in Seq(AccountId)
      /\ a4 \in Seq(AccountId)
      /\ a5 \in Seq(0 .. U16 - 1)
      /\ a6 \in Seq(0 .. U16 - 1)
      /\ a7 \in Seq(0 .. U8 - 1)
      /\ a8 \in Seq(Byte)
  BY TxFacts DEF Whole
<1>2. /\ a1 \in Seq(Cell) /\ a2 \in Seq(Cell)
      /\ a3 \in Seq(Cell) /\ a4 \in Seq(Cell)
      /\ a5 \in Seq(Cell) /\ a6 \in Seq(Cell)
      /\ a7 \in Seq(Cell) /\ a8 \in Seq(Cell)
  <2>1. /\ Instruction \subseteq Cell /\ AccountId \subseteq Cell /\ 0 .. U16 - 1 \subseteq Cell
        /\ 0 .. U8 - 1 \subseteq Cell /\ Nat \subseteq Cell /\ Byte \subseteq Cell
    BY Widths
  <2> HIDE DEF Cell, a1, a2, a3, a4, a5, a6, a7, a8
  <2> QED BY <1>1, <2>1, WiderList
<1>3. /\ Len(a1) = Header(t).outer_len
      /\ Len(a2) = Header(t).inner_len
      /\ Len(a3) = Header(t).account_len
      /\ Len(a4) = Header(t).account_chunk_len
      /\ Len(a5) = Header(t).outer_len + Header(t).inner_len
      /\ Len(a6) = Header(t).outer_len + Header(t).inner_len
      /\ Len(a7) = Header(t).outer_len
      /\ Len(a8) = Header(t).data_chunk_len
  BY HeaderFacts DEF Whole
<1>4. Cells(t) = p8
  BY DEF Cells, WriteTo
<1> HIDE DEF Cell, a1, a2, a3, a4, a5, a6, a7, a8
<1>5. /\ c(1) = 0
      /\ c(2) = c(1) + Len(a1) /\ c(1) \in Nat
      /\ c(3) = c(2) + Len(a2) /\ c(2) \in Nat
      /\ c(4) = c(3) + Len(a3) /\ c(3) \in Nat
      /\ c(5) = c(4) + Len(a4) /\ c(4) \in Nat
      /\ c(6) = c(5) + Len(a5) /\ c(5) \in Nat
      /\ c(7) = c(6) + Len(a6) /\ c(6) \in Nat
      /\ c(8) = c(7) + Len(a7) /\ c(7) \in Nat
      /\ c(9) = c(8) + Len(a8) /\ c(8) \in Nat
  <2>1. Numbers(Header(t))
    BY HeaderFacts
  <2> QED BY <1>3, <2>1, CellFacts
<1> HIDE DEF c
<1>6. p1 \in Seq(Cell) /\ Len(p1) = c(2) /\ LiesAt(p1, c(1), a1)
  <2>1. Len(a1) \in Nat /\ 0 + Len(a1) = Len(a1) /\ \A k \in 1 .. Len(a1) : 0 + k = k
    BY <1>2
  <2>2. LiesAt(a1, 0, a1)
    BY <2>1 DEF LiesAt
  <2> QED BY <1>2, <1>5, <2>1, <2>2
<1> HIDE DEF p1
<1>7. /\ p2 \in Seq(Cell) /\ Len(p2) = c(3)
      /\ LiesAt(p2, c(1), a1) /\ LiesAt(p2, c(2), a2)
  <2>1. p2 \in Seq(Cell) /\ Len(p2) = Len(p1) + Len(a2)
    BY <1>2, <1>6, ConcatFacts
  <2>2. LiesAt(p2, c(2), a2)
    BY <1>2, <1>5, <1>6, LiesLast
  <2>3. /\ LiesAt(p2, c(1), a1)
    BY <1>2, <1>6, LiesStill
  <2> QED BY <1>5, <1>6, <2>1, <2>2, <2>3
<1> HIDE DEF p2
<1>8. /\ p3 \in Seq(Cell) /\ Len(p3) = c(4)
      /\ LiesAt(p3, c(1), a1) /\ LiesAt(p3, c(2), a2) /\ LiesAt(p3, c(3), a3)
  <2>1. p3 \in Seq(Cell) /\ Len(p3) = Len(p2) + Len(a3)
    BY <1>2, <1>7, ConcatFacts
  <2>2. LiesAt(p3, c(3), a3)
    BY <1>2, <1>5, <1>7, LiesLast
  <2>3. /\ LiesAt(p3, c(1), a1) /\ LiesAt(p3, c(2), a2)
    BY <1>2, <1>7, LiesStill
  <2> QED BY <1>5, <1>7, <2>1, <2>2, <2>3
<1> HIDE DEF p3
<1>9. /\ p4 \in Seq(Cell) /\ Len(p4) = c(5)
      /\ LiesAt(p4, c(1), a1) /\ LiesAt(p4, c(2), a2) /\ LiesAt(p4, c(3), a3)
      /\ LiesAt(p4, c(4), a4)
  <2>1. p4 \in Seq(Cell) /\ Len(p4) = Len(p3) + Len(a4)
    BY <1>2, <1>8, ConcatFacts
  <2>2. LiesAt(p4, c(4), a4)
    BY <1>2, <1>5, <1>8, LiesLast
  <2>3. /\ LiesAt(p4, c(1), a1) /\ LiesAt(p4, c(2), a2) /\ LiesAt(p4, c(3), a3)
    BY <1>2, <1>8, LiesStill
  <2> QED BY <1>5, <1>8, <2>1, <2>2, <2>3
<1> HIDE DEF p4
<1>10. /\ p5 \in Seq(Cell) /\ Len(p5) = c(6)
       /\ LiesAt(p5, c(1), a1) /\ LiesAt(p5, c(2), a2) /\ LiesAt(p5, c(3), a3)
       /\ LiesAt(p5, c(4), a4) /\ LiesAt(p5, c(5), a5)
  <2>1. p5 \in Seq(Cell) /\ Len(p5) = Len(p4) + Len(a5)
    BY <1>2, <1>9, ConcatFacts
  <2>2. LiesAt(p5, c(5), a5)
    BY <1>2, <1>5, <1>9, LiesLast
  <2>3. /\ LiesAt(p5, c(1), a1) /\ LiesAt(p5, c(2), a2) /\ LiesAt(p5, c(3), a3)
        /\ LiesAt(p5, c(4), a4)
    BY <1>2, <1>9, LiesStill
  <2> QED BY <1>5, <1>9, <2>1, <2>2, <2>3
<1> HIDE DEF p5
<1>11. /\ p6 \in Seq(Cell) /\ Len(p6) = c(7)
       /\ LiesAt(p6, c(1), a1) /\ LiesAt(p6, c(2), a2) /\ LiesAt(p6, c(3), a3)
       /\ LiesAt(p6, c(4), a4) /\ LiesAt(p6, c(5), a5) /\ LiesAt(p6, c(6), a6)
  <2>1. p6 \in Seq(Cell) /\ Len(p6) = Len(p5) + Len(a6)
    BY <1>2, <1>10, ConcatFacts
  <2>2. LiesAt(p6, c(6), a6)
    BY <1>2, <1>5, <1>10, LiesLast
  <2>3. /\ LiesAt(p6, c(1), a1) /\ LiesAt(p6, c(2), a2) /\ LiesAt(p6, c(3), a3)
        /\ LiesAt(p6, c(4), a4) /\ LiesAt(p6, c(5), a5)
    BY <1>2, <1>10, LiesStill
  <2> QED BY <1>5, <1>10, <2>1, <2>2, <2>3
<1> HIDE DEF p6
<1>12. /\ p7 \in Seq(Cell) /\ Len(p7) = c(8)
       /\ LiesAt(p7, c(1), a1) /\ LiesAt(p7, c(2), a2) /\ LiesAt(p7, c(3), a3)
       /\ LiesAt(p7, c(4), a4) /\ LiesAt(p7, c(5), a5) /\ LiesAt(p7, c(6), a6)
       /\ LiesAt(p7, c(7), a7)
  <2>1. p7 \in Seq(Cell) /\ Len(p7) = Len(p6) + Len(a7)
    BY <1>2, <1>11, ConcatFacts
  <2>2. LiesAt(p7, c(7), a7)
    BY <1>2, <1>5, <1>11, LiesLast
  <2>3. /\ LiesAt(p7, c(1), a1) /\ LiesAt(p7, c(2), a2) /\ LiesAt(p7, c(3), a3)
        /\ LiesAt(p7, c(4), a4) /\ LiesAt(p7, c(5), a5) /\ LiesAt(p7, c(6), a6)
    BY <1>2, <1>11, LiesStill
  <2> QED BY <1>5, <1>11, <2>1, <2>2, <2>3
<1> HIDE DEF p7
<1>13. /\ p8 \in Seq(Cell) /\ Len(p8) = c(9)
       /\ LiesAt(p8, c(1), a1) /\ LiesAt(p8, c(2), a2) /\ LiesAt(p8, c(3), a3)
       /\ LiesAt(p8, c(4), a4) /\ LiesAt(p8, c(5), a5) /\ LiesAt(p8, c(6), a6)
       /\ LiesAt(p8, c(7), a7) /\ LiesAt(p8, c(8), a8)
  <2>1. p8 \in Seq(Cell) /\ Len(p8) = Len(p7) + Len(a8)
    BY <1>2, <1>12, ConcatFacts
  <2>2. LiesAt(p8, c(8), a8)
    BY <1>2, <1>5, <1>12, LiesLast
  <2>3. /\ LiesAt(p8, c(1), a1) /\ LiesAt(p8, c(2), a2) /\ LiesAt(p8, c(3), a3)
        /\ LiesAt(p8, c(4), a4) /\ LiesAt(p8, c(5), a5) /\ LiesAt(p8, c(6), a6)
        /\ LiesAt(p8, c(7), a7)
    BY <1>2, <1>12, LiesStill
  <2> QED BY <1>5, <1>12, <2>1, <2>2, <2>3
<1> HIDE DEF p8
<1> QED
  <2>1. TakenIs(p8, c(1), c(2), a1)
    BY <1>2, <1>5, <1>13, LiesTaken
  <2>2. TakenIs(p8, c(2), c(3), a2)
    BY <1>2, <1>5, <1>13, LiesTaken
  <2>3. TakenIs(p8, c(3), c(4), a3)
    BY <1>2, <1>5, <1>13, LiesTaken
  <2>4. TakenIs(p8, c(4), c(5), a4)
    BY <1>2, <1>5, <1>13, LiesTaken
  <2>5. TakenIs(p8, c(5), c(6), a5)
    BY <1>2, <1>5, <1>13, LiesTaken
  <2>6. TakenIs(p8, c(6), c(7), a6)
    BY <1>2, <1>5, <1>13, LiesTaken
  <2>7. TakenIs(p8, c(7), c(8), a7)
    BY <1>2, <1>5, <1>13, LiesTaken
  <2>8. TakenIs(p8, c(8), c(9), a8)
    BY <1>2, <1>5, <1>13, LiesTaken
  <2>9. /\ SubSeq(Cells(t), c(1) + 1, c(2)) = a1
        /\ SubSeq(Cells(t), c(2) + 1, c(3)) = a2
        /\ SubSeq(Cells(t), c(3) + 1, c(4)) = a3
        /\ SubSeq(Cells(t), c(4) + 1, c(5)) = a4
        /\ SubSeq(Cells(t), c(5) + 1, c(6)) = a5
        /\ SubSeq(Cells(t), c(6) + 1, c(7)) = a6
        /\ SubSeq(Cells(t), c(7) + 1, c(8)) = a7
        /\ SubSeq(Cells(t), c(8) + 1, c(9)) = a8
    BY <1>4, <2>1, <2>2, <2>3, <2>4, <2>5, <2>6, <2>7, <2>8 DEF TakenIs
  <2>10. /\ 1 + 1 = 2 /\ 2 + 1 = 3 /\ 3 + 1 = 4 /\ 4 + 1 = 5
         /\ 5 + 1 = 6 /\ 6 + 1 = 7 /\ 7 + 1 = 8 /\ 8 + 1 = 9
    OBVIOUS
  <2> QED BY <2>9, <2>10 DEF c, a1, a2, a3, a4, a5, a6, a7, a8

(* Every section of a header starts aligned, before the last byte.         *)
LEMMA AlignFacts ==
  ASSUME NEW h, Numbers(h)
  PROVE  /\ BytesBefore(h, 9) \in Nat /\ BytesBefore(h, 9) >= 96
         /\ \A k \in 1 .. 8 : /\ BytesBefore(h, k) \in Nat /\ BytesBefore(h, k + 1) <= BytesBefore(h, 9)
                              /\ BytesBefore(h, k) % Align(Sections(h)[k][3]) = 0
<1> DEFINE b(k) == BytesBefore(h, k)
           x == h.outer_len + h.inner_len
<1>1. /\ b(1) = 96 /\ b(2) = b(1) + h.outer_len * 16 /\ b(3) = b(2) + h.inner_len * 16
      /\ b(4) = b(3) + h.account_len * 8 /\ b(5) = b(4) + h.account_chunk_len * 8
      /\ b(6) = b(5) + x * 2 /\ b(7) = b(6) + x * 2
      /\ b(8) = b(7) + h.outer_len * 1 /\ b(9) = b(8) + h.data_chunk_len * 1
  BY ByteFacts
<1>2. x \in Nat
  BY DEF Numbers
<1> HIDE DEF b, x
<1>3. \A a, m \in Nat : /\ a + m * 16 \in Nat /\ a <= a + m * 16
                       /\ a + m * 8 \in Nat /\ a <= a + m * 8
                       /\ a + m * 2 \in Nat /\ a <= a + m * 2
                       /\ a + m * 1 \in Nat /\ a <= a + m * 1
  OBVIOUS
<1>4. \A a, m \in Nat : /\ a % 8 = 0 => (a + m * 16) % 8 = 0 /\ (a + m * 8) % 8 = 0 /\ a % 2 = 0
                       /\ a % 2 = 0 => (a + m * 2) % 2 = 0
                       /\ a % 1 = 0
  OBVIOUS
<1>5. b(1) \in Nat /\ b(1) % 8 = 0
  BY <1>1
<1>6. b(2) \in Nat /\ b(1) <= b(2) /\ b(2) % 8 = 0
  BY <1>1, <1>3, <1>4, <1>5 DEF Numbers
<1>7. b(3) \in Nat /\ b(2) <= b(3) /\ b(3) % 8 = 0
  BY <1>1, <1>3, <1>4, <1>6 DEF Numbers
<1>8. b(4) \in Nat /\ b(3) <= b(4) /\ b(4) % 8 = 0
  BY <1>1, <1>3, <1>4, <1>7 DEF Numbers
<1>9. b(5) \in Nat /\ b(4) <= b(5) /\ b(5) % 2 = 0
  <2>1. b(5) \in Nat /\ b(4) <= b(5) /\ b(5) % 8 = 0
    BY <1>1, <1>3, <1>4, <1>8 DEF Numbers
  <2> QED BY <1>4, <2>1
<1>10. b(6) \in Nat /\ b(5) <= b(6) /\ b(6) % 2 = 0
  BY <1>1, <1>2, <1>3, <1>4, <1>9
<1>11. b(7) \in Nat /\ b(6) <= b(7) /\ b(7) % 1 = 0
  BY <1>1, <1>2, <1>3, <1>4, <1>10
<1>12. b(8) \in Nat /\ b(7) <= b(8) /\ b(8) % 1 = 0
  BY <1>1, <1>3, <1>4, <1>11 DEF Numbers
<1>13. b(9) \in Nat /\ b(8) <= b(9)
  BY <1>1, <1>3, <1>12 DEF Numbers
<1>14. b(9) >= 96
  BY <1>1, <1>5, <1>6, <1>7, <1>8, <1>9, <1>10, <1>11, <1>12, <1>13
<1>15. ASSUME NEW k \in 1 .. 8
       PROVE  b(k) \in Nat /\ b(k + 1) <= b(9) /\ b(k) % Align(Sections(h)[k][3]) = 0
  <2>1. /\ Align(Sections(h)[1][3]) = 8 /\ Align(Sections(h)[2][3]) = 8
        /\ Align(Sections(h)[3][3]) = 8 /\ Align(Sections(h)[4][3]) = 8
        /\ Align(Sections(h)[5][3]) = 2 /\ Align(Sections(h)[6][3]) = 2
        /\ Align(Sections(h)[7][3]) = 1 /\ Align(Sections(h)[8][3]) = 1
    <3>1. Align(16) = 8 /\ Align(8) = 8 /\ Align(2) = 2 /\ Align(1) = 1
      BY DEF Align
    <3>2. /\ Sections(h)[1][3] = 16 /\ Sections(h)[2][3] = 16
          /\ Sections(h)[3][3] = 8 /\ Sections(h)[4][3] = 8
          /\ Sections(h)[5][3] = 2 /\ Sections(h)[6][3] = 2
          /\ Sections(h)[7][3] = 1 /\ Sections(h)[8][3] = 1
      BY SectionFacts
    <3> QED BY <3>1, <3>2
  <2>2. /\ b(2) <= b(9) /\ b(3) <= b(9) /\ b(4) <= b(9) /\ b(5) <= b(9)
        /\ b(6) <= b(9) /\ b(7) <= b(9) /\ b(8) <= b(9) /\ b(9) <= b(9)
    BY <1>5, <1>6, <1>7, <1>8, <1>9, <1>10, <1>11, <1>12, <1>13
  <2>3. k = 1 \/ k = 2 \/ k = 3 \/ k = 4 \/ k = 5 \/ k = 6 \/ k = 7 \/ k = 8
    OBVIOUS
  <2>4. CASE k = 1
    <3>1. k + 1 = 2
      BY <2>4
    <3> QED BY <1>5, <2>1, <2>2, <2>4, <3>1
  <2>5. CASE k = 2
    <3>1. k + 1 = 3
      BY <2>5
    <3> QED BY <1>6, <2>1, <2>2, <2>5, <3>1
  <2>6. CASE k = 3
    <3>1. k + 1 = 4
      BY <2>6
    <3> QED BY <1>7, <2>1, <2>2, <2>6, <3>1
  <2>7. CASE k = 4
    <3>1. k + 1 = 5
      BY <2>7
    <3> QED BY <1>8, <2>1, <2>2, <2>7, <3>1
  <2>8. CASE k = 5
    <3>1. k + 1 = 6
      BY <2>8
    <3> QED BY <1>9, <2>1, <2>2, <2>8, <3>1
  <2>9. CASE k = 6
    <3>1. k + 1 = 7
      BY <2>9
    <3> QED BY <1>10, <2>1, <2>2, <2>9, <3>1
  <2>10. CASE k = 7
    <3>1. k + 1 = 8
      BY <2>10
    <3> QED BY <1>11, <2>1, <2>2, <2>10, <3>1
  <2>11. CASE k = 8
    <3>1. k + 1 = 9
      BY <2>11
    <3> QED BY <1>12, <2>1, <2>2, <2>11, <3>1
  <2> QED BY <2>3, <2>4, <2>5, <2>6, <2>7, <2>8, <2>9, <2>10, <2>11
<1> QED BY <1>13, <1>14, <1>15 DEF b

(* A set of sections (0 is the header) has a first one.                    *)
LEMMA LeastOfNine ==
  ASSUME NEW R, R \subseteq 0 .. 8, R # {}
  PROVE  Min(R) \in R
<1> SUFFICES ASSUME \A k \in R : \E j \in R : ~(k <= j)
             PROVE  FALSE
  <2>1. (\E k \in R : \A j \in R : k <= j) => Min(R) \in R
    BY Zenon DEF Min
  <2> QED BY <2>1
<1>1. \A k \in R : \E j \in R : j < k
  OBVIOUS
<1>2. 0 \notin R
  BY <1>1
<1>3. 1 \notin R
  BY <1>1, <1>2
<1>4. 2 \notin R
  BY <1>1, <1>2, <1>3
<1>5. 3 \notin R
  BY <1>1, <1>2, <1>3, <1>4
<1>6. 4 \notin R
  BY <1>1, <1>2, <1>3, <1>4, <1>5
<1>7. 5 \notin R
  BY <1>1, <1>2, <1>3, <1>4, <1>5, <1>6
<1>8. 6 \notin R
  BY <1>1, <1>2, <1>3, <1>4, <1>5, <1>6, <1>7
<1>9. 7 \notin R
  BY <1>1, <1>2, <1>3, <1>4, <1>5, <1>6, <1>7, <1>8
<1>10. 8 \notin R
  BY <1>1, <1>2, <1>3, <1>4, <1>5, <1>6, <1>7, <1>8, <1>9
<1>11. PICK k \in R : TRUE
  OBVIOUS
<1>12. k \in 0 .. 8
  BY <1>11
<1>13. \/ k = 0 \/ k = 1 \/ k = 2 \/ k = 3 \/ k = 4
       \/ k = 5 \/ k = 6 \/ k = 7 \/ k = 8
  BY <1>12
<1> QED BY <1>2, <1>3, <1>4, <1>5, <1>6, <1>7, <1>8, <1>9, <1>10, <1>11, <1>13, Zenon

(* try_from of what write_to wrote.                                        *)
LEMMA RoundTripFacts ==
  ASSUME NEW t, Whole(t)
  PROVE  /\ TryFrom(WriteTo(t), 0, WireBytes(t)) = t
         /\ TryFrom(WriteTo(t), 0, WireBytes(t) - 1) = OutofRange
         /\ TryFrom(WriteTo(t), 4, WireBytes(t)) = UnalignedMemory
<1> DEFINE h == Header(t)
           n == WireBytes(t)
           Name(k) == Sections(h)[k][1]
           Taken(k) == SubSeq(Cells(t), CellsBefore(h, k) + 1, CellsBefore(h, k + 1))
           Short(m, k) == IF k = 0 THEN m < HeaderBytes ELSE BytesBefore(h, k + 1) > m
           Unaligned(base, k) ==
             IF k = 0 THEN base % 8 # 0
             ELSE (base + BytesBefore(h, k)) % Align(Sections(h)[k][3]) # 0
           Refused(base, m, S) == {k \in S : Short(m, k) \/ Unaligned(base, k)}
           view == [f \in {Name(k) : k \in 1 .. 8} |-> Taken(CHOOSE k \in 1 .. 8 : Name(k) = f)]
<1>1. ASSUME NEW base, NEW m
      PROVE  TryFrom(WriteTo(t), base, m)
               = IF Refused(base, m, 0 .. 8) # {}
                 THEN IF Short(m, Min(Refused(base, m, 0 .. 8)))
                      THEN OutofRange ELSE UnalignedMemory
                 ELSE view
  <2>1. DOMAIN Sections(h) = 1 .. 8 /\ (1 .. 8) \cup {0} = 0 .. 8
    BY SectionFacts
  <2>2. TryFrom(WriteTo(t), base, m)
          = IF Refused(base, m, DOMAIN Sections(h) \cup {0}) # {}
            THEN IF Short(m, Min(Refused(base, m, DOMAIN Sections(h) \cup {0})))
                 THEN OutofRange ELSE UnalignedMemory
            ELSE [f \in {Name(k) : k \in DOMAIN Sections(h)}
                    |-> Taken(CHOOSE k \in DOMAIN Sections(h) : Name(k) = f)]
    BY DEF TryFrom, Header, Cells
  <2> HIDE DEF Refused, Short, Name, Taken
  <2> QED BY <2>1, <2>2
<1>2. /\ BytesBefore(h, 9) = n /\ n \in Nat /\ n >= 96
      /\ \A k \in 1 .. 8 : /\ BytesBefore(h, k) \in Nat /\ BytesBefore(h, k + 1) <= n
                           /\ BytesBefore(h, k) % Align(Sections(h)[k][3]) = 0
  <2>1. Numbers(h)
    BY HeaderFacts
  <2>2. BytesBefore(h, 9) = n
    BY DEF WireBytes, Header
  <2> HIDE DEF h, n
  <2> QED BY <2>1, <2>2, AlignFacts
<1>3. /\ Name(1) = "outer" /\ Taken(1) = t.outer
      /\ Name(2) = "inner" /\ Taken(2) = t.inner
      /\ Name(3) = "account" /\ Taken(3) = t.account
      /\ Name(4) = "account_chunk" /\ Taken(4) = t.account_chunk
      /\ Name(5) = "account_chunk_last" /\ Taken(5) = t.account_chunk_last
      /\ Name(6) = "data_chunk_last" /\ Taken(6) = t.data_chunk_last
      /\ Name(7) = "l1_inner" /\ Taken(7) = t.l1_inner
      /\ Name(8) = "data_chunk" /\ Taken(8) = t.data_chunk
  BY SectionFacts, LayoutFacts
<1> HIDE DEF h, n, Name, Taken
<1>4. view = t
  <2>1. \A k \in 1 .. 8 : \/ k = 1 \/ k = 2 \/ k = 3 \/ k = 4
                         \/ k = 5 \/ k = 6 \/ k = 7 \/ k = 8
    OBVIOUS
  <2>2. \A j, k \in 1 .. 8 : Name(j) = Name(k) => j = k
    BY <1>3, <2>1
  <2>3. \A k \in 1 .. 8 : (CHOOSE j \in 1 .. 8 : Name(j) = Name(k)) = k
    BY <2>2
  <2>4. \A k \in 1 .. 8 : Taken(k) = t[Name(k)]
    BY <1>3, <2>1
  <2>5. {Name(k) : k \in 1 .. 8} = DOMAIN t /\ t = [f \in DOMAIN t |-> t[f]]
    <3>1. t \in TxSet
      BY DEF Whole
    <3>2. /\ t = [f \in DOMAIN t |-> t[f]]
          /\ DOMAIN t = {"outer", "inner", "l1_inner", "account_chunk_last", "account_chunk",
                         "data_chunk_last", "data_chunk", "account"}
      BY <3>1 DEF TxSet
    <3>3. {Name(k) : k \in 1 .. 8}
            = {"outer", "inner", "l1_inner", "account_chunk_last", "account_chunk",
               "data_chunk_last", "data_chunk", "account"}
      BY <1>3, <2>1
    <3> QED BY <3>2, <3>3
  <2>6. \A f \in DOMAIN t : view[f] = t[f]
    BY <2>3, <2>4, <2>5
  <2>7. DOMAIN view = DOMAIN t
    BY <2>5
  <2>8. view = [f \in DOMAIN t |-> t[f]]
    BY <2>6, <2>7
  <2> QED BY <2>5, <2>8
<1> HIDE DEF view
<1>5. ASSUME NEW k \in 0 .. 8
      PROVE  ~Unaligned(0, k) /\ ~Short(n, k)
  <2>1. CASE k = 0
    BY <1>2, <2>1 DEF HeaderBytes
  <2>2. CASE k # 0
    <3> DEFINE b == BytesBefore(h, k)
               c == BytesBefore(h, k + 1)
    <3>1. k \in 1 .. 8
      BY <2>2
    <3>2. b \in Nat /\ c <= n /\ b % Align(Sections(h)[k][3]) = 0
      BY <1>2, <3>1
    <3>3. c \in Nat
      <4>1. k + 1 = 9 \/ k + 1 \in 1 .. 8
        BY <3>1
      <4> QED BY <1>2, <4>1
    <3> HIDE DEF b, c
    <3>4. 0 + b = b /\ ~(c > n)
      BY <1>2, <3>2, <3>3
    <3> QED BY <2>2, <3>2, <3>4 DEF b, c
  <2> QED BY <2>1, <2>2
<1>6. TryFrom(WriteTo(t), 0, n) = t
  <2> HIDE DEF Short, Unaligned
  <2>1. Refused(0, n, 0 .. 8) = {}
    BY <1>5
  <2> HIDE DEF Refused
  <2> QED BY <1>1, <1>4, <2>1
<1>7. TryFrom(WriteTo(t), 0, n - 1) = OutofRange
  <2> DEFINE R == Refused(0, n - 1, 0 .. 8)
  <2>1. Short(n - 1, 8)
    <3>1. BytesBefore(h, 8 + 1) = n /\ n > n - 1
      <4>1. 8 + 1 = 9
        OBVIOUS
      <4> QED BY <1>2, <4>1
    <3> QED BY <3>1
  <2> HIDE DEF Short, Unaligned
  <2>2. R # {} /\ R \subseteq 0 .. 8 /\ \A k \in R : Short(n - 1, k)
    BY <1>5, <2>1
  <2> HIDE DEF R
  <2>3. Min(R) \in R
    BY <2>2, LeastOfNine
  <2>4. Short(n - 1, Min(R))
    BY <2>2, <2>3
  <2> QED BY <1>1, <2>2, <2>4 DEF R
<1>8. TryFrom(WriteTo(t), 4, n) = UnalignedMemory
  <2> DEFINE R == Refused(4, n, 0 .. 8)
  <2>1. Unaligned(4, 0)
    OBVIOUS
  <2> HIDE DEF Short, Unaligned
  <2>2. R # {} /\ R \subseteq 0 .. 8 /\ \A k \in R : ~Short(n, k)
    BY <1>5, <2>1
  <2> HIDE DEF R
  <2>3. Min(R) \in R
    BY <2>2, LeastOfNine
  <2>4. ~Short(n, Min(R))
    BY <2>2, <2>3
  <2> QED BY <1>1, <2>2, <2>4 DEF R
<1> QED BY <1>6, <1>7, <1>8 DEF n

(***************************************************************************)
(* try_from gives back every section that write_to wrote, of whatever      *)
(* length (below the 2^32 of the header), and the accessors of the view    *)
(* read what those of the transaction do.  A buffer that lacks its last    *)
(* byte is out of range, and one that is not aligned is refused as such.   *)
(***************************************************************************)
THEOREM WireIsFaithful == Spec => []WireRoundTrip
<1>1. IInv => WireRoundTrip
  <2> SUFFICES ASSUME IInv, Idle
               PROVE  /\ TryFrom(WriteTo(tx), 0, WireBytes(tx)) = tx
                      /\ \A list \in {"outer", "inner"} :
                           ViewInstructions(TryFrom(WriteTo(tx), 0, WireBytes(tx)), list)
                             = Instructions(tx, list)
                      /\ TryFrom(WriteTo(tx), 0, WireBytes(tx) - 1) = OutofRange
                      /\ TryFrom(WriteTo(tx), 4, WireBytes(tx)) = UnalignedMemory
    BY DEF WireRoundTrip
  <2>1. Whole(tx)
    BY DEF IInv, Typed, TypeOK, TxSet, InStep, Whole
  <2>2. /\ TryFrom(WriteTo(tx), 0, WireBytes(tx)) = tx
        /\ TryFrom(WriteTo(tx), 0, WireBytes(tx) - 1) = OutofRange
        /\ TryFrom(WriteTo(tx), 4, WireBytes(tx)) = UnalignedMemory
    BY <2>1, RoundTripFacts
  <2>3. \A list \in {"outer", "inner"} : ViewInstructions(tx, list) = Instructions(tx, list)
    BY DEF ViewInstructions, Instructions, ReadAccount, ReadData
  <2> QED BY <2>2, <2>3
<1> QED BY <1>1, InvariantHolds, PTL
=============================================================================
