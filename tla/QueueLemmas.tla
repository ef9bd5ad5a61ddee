----------------------------- MODULE QueueLemmas -----------------------------
(***************************************************************************)
(* What appending, taking the head and removing one element do to a queue: *)
(* its type, the set of its elements, their being distinct, and the list   *)
(* of those of its elements that are in a given set.                       *)
(***************************************************************************)
EXTENDS Naturals, Sequences, FiniteSets, SequencesExt,
        FiniteSetTheorems, SequenceTheorems, WellFoundedInduction, TLAPS

Distinct(s) == \A i, j \in DOMAIN s : s[i] = s[j] => i = j

(* Removing keeps the type. *)
LEMMA RemoveAtType ==
    ASSUME NEW S, NEW s \in Seq(S), NEW i \in DOMAIN s
    PROVE  RemoveAt(s, i) \in Seq(S)
  BY DEF RemoveAt

(* Appending adds the element. *)
LEMMA AppendSet ==
    ASSUME NEW S, NEW s \in Seq(S), NEW e \in S
    PROVE  ToSet(Append(s, e)) = ToSet(s) \cup {e}
  <1> DEFINE t == Append(s, e)
  <1>1. /\ DOMAIN s = 1 .. Len(s) /\ Len(s) \in Nat
        /\ DOMAIN t = 1 .. Len(s) + 1
        /\ \A i \in DOMAIN s : t[i] = s[i]
        /\ t[Len(s) + 1] = e
    OBVIOUS
  <1> HIDE DEF t
  <1>2. \A i \in DOMAIN t : i \in DOMAIN s \/ i = Len(s) + 1
    BY <1>1
  <1>3. ToSet(t) \subseteq ToSet(s) \cup {e}
    BY <1>1, <1>2 DEF ToSet
  <1>4. DOMAIN s \subseteq DOMAIN t /\ Len(s) + 1 \in DOMAIN t
    BY <1>1
  <1>5. ToSet(s) \cup {e} \subseteq ToSet(t)
    BY <1>1, <1>4 DEF ToSet
  <1>6. QED
    BY <1>3, <1>5 DEF t

(* Every element is the head or in the tail. *)
LEMMA TailSet ==
    ASSUME NEW S, NEW s \in Seq(S), s # <<>>
    PROVE  \A x \in ToSet(s) : x = Head(s) \/ x \in ToSet(Tail(s))
  <1> SUFFICES ASSUME NEW i \in DOMAIN s, s[i] # Head(s)
               PROVE  s[i] \in ToSet(Tail(s))
    BY DEF ToSet
  <1>1. i # 1 /\ i - 1 \in DOMAIN Tail(s) /\ Tail(s)[i - 1] = s[i]
    OBVIOUS
  <1>2. QED
    BY <1>1 DEF ToSet

(* Where the elements are after appending, and after taking the head. *)
LEMMA AppendShape ==
    ASSUME NEW S, NEW s \in Seq(S), NEW e \in S
    PROVE  LET t == Append(s, e)
           IN  /\ \A i \in DOMAIN t : (i \in DOMAIN s /\ t[i] = s[i]) \/ t[i] = e
               /\ \A i \in DOMAIN s : i \in DOMAIN t /\ t[i] = s[i]
  OBVIOUS

LEMMA TailShape ==
    ASSUME NEW S, NEW s \in Seq(S), s # <<>>
    PROVE  LET t == Tail(s)
           IN  /\ t \in Seq(S)
               /\ \A i \in DOMAIN t : i + 1 \in DOMAIN s /\ t[i] = s[i + 1]
               /\ \A i \in DOMAIN s : i # 1 => i - 1 \in DOMAIN t /\ t[i - 1] = s[i]
  OBVIOUS

LEMMA TailAppendShape ==
    ASSUME NEW S, NEW s \in Seq(S), s # <<>>, NEW e \in S
    PROVE  LET t == Append(Tail(s), e)
           IN  /\ \A i \in DOMAIN t :
                    (i + 1 \in DOMAIN s /\ t[i] = s[i + 1]) \/ t[i] = e
               /\ \A i \in DOMAIN s : i # 1 => i - 1 \in DOMAIN t /\ t[i - 1] = s[i]
  <1> DEFINE u == Tail(s)
             t == Append(u, e)
  <1>1. /\ u \in Seq(S)
        /\ \A i \in DOMAIN u : i + 1 \in DOMAIN s /\ u[i] = s[i + 1]
        /\ \A i \in DOMAIN s : i # 1 => i - 1 \in DOMAIN u /\ u[i - 1] = s[i]
    BY TailShape
  <1> HIDE DEF u
  <1>2. /\ \A i \in DOMAIN t : (i \in DOMAIN u /\ t[i] = u[i]) \/ t[i] = e
        /\ \A i \in DOMAIN u : i \in DOMAIN t /\ t[i] = u[i]
    BY <1>1
  <1> HIDE DEF t
  <1>3. /\ \A i \in DOMAIN t : (i + 1 \in DOMAIN s /\ t[i] = s[i + 1]) \/ t[i] = e
        /\ \A i \in DOMAIN s : i # 1 => i - 1 \in DOMAIN t /\ t[i - 1] = s[i]
    BY <1>1, <1>2
  <1>4. QED
    BY <1>3 DEF t, u

(* What is where after the element at k is removed. *)
LEMMA RemoveAtShape ==
    ASSUME NEW S, NEW s \in Seq(S), NEW k \in DOMAIN s
    PROVE  LET t == RemoveAt(s, k)
           IN  /\ DOMAIN t = 1 .. Len(s) - 1
               /\ \A i \in DOMAIN t : t[i] = IF i < k THEN s[i] ELSE s[i + 1]
  <1> DEFINE t == RemoveAt(s, k)
             a == SubSeq(s, 1, k - 1)
             b == SubSeq(s, k + 1, Len(s))
  <1>1. k \in 1 .. Len(s) /\ Len(s) \in Nat /\ t = a \o b
    BY DEF RemoveAt
  <1>2. /\ a \in Seq(S) /\ Len(a) = k - 1
        /\ \A i \in 1 .. k - 1 : a[i] = s[i]
    BY <1>1
  <1>3. /\ b \in Seq(S) /\ Len(b) = Len(s) - k
        /\ \A i \in 1 .. Len(s) - k : b[i] = s[k + i]
    <2>1. /\ k + 1 \in Int /\ Len(s) \in Int
          /\ \A i \in k + 1 .. Len(s) : s[i] \in S
      BY <1>1
    <2>2. /\ b \in Seq(S)
          /\ Len(b) = IF k + 1 <= Len(s) THEN Len(s) - (k + 1) + 1 ELSE 0
          /\ \A i \in 1 .. Len(s) - (k + 1) + 1 : b[i] = s[(k + 1) + i - 1]
      BY <2>1, SubSeqProperties
    <2>3. Len(b) = Len(s) - k
      BY <1>1, <2>2
    <2>4. ASSUME NEW i \in 1 .. Len(s) - k
          PROVE  b[i] = s[k + i]
      <3>1. i \in 1 .. Len(s) - (k + 1) + 1 /\ (k + 1) + i - 1 = k + i
        BY <1>1
      <3>2. QED
        BY <2>2, <3>1
    <2>5. QED
      BY <2>2, <2>3, <2>4
  <1> HIDE DEF a, b, t
  <1>4. /\ DOMAIN t = 1 .. Len(s) - 1
        /\ \A i \in 1 .. Len(s) - 1 :
              t[i] = IF i <= k - 1 THEN a[i] ELSE b[i - (k - 1)]
    <2>1. /\ t \in Seq(S)
          /\ Len(t) = Len(a) + Len(b)
          /\ \A i \in 1 .. Len(a) + Len(b) :
                t[i] = IF i <= Len(a) THEN a[i] ELSE b[i - Len(a)]
      <3>1. /\ (a \o b) \in Seq(S)
            /\ Len(a \o b) = Len(a) + Len(b)
            /\ \A i \in 1 .. Len(a) + Len(b) :
                  (a \o b)[i] = IF i <= Len(a) THEN a[i] ELSE b[i - Len(a)]
        <4>1. a \in Seq(S) /\ b \in Seq(S)
          BY <1>2, <1>3
        <4>2. QED
          BY <4>1, ConcatProperties
      <3>2. QED
        BY <3>1, <1>1
    <2>2. Len(a) + Len(b) = Len(s) - 1 /\ DOMAIN t = 1 .. Len(t)
      BY <1>1, <1>2, <1>3, <2>1
    <2>3. QED
      BY <1>2, <2>1, <2>2
  <1>5. ASSUME NEW i \in DOMAIN t
        PROVE  t[i] = IF i < k THEN s[i] ELSE s[i + 1]
    <2>1. CASE i < k
      BY <2>1, <1>1, <1>2, <1>4
    <2>2. CASE i >= k
      <3>1. i - (k - 1) \in 1 .. Len(s) - k /\ k + (i - (k - 1)) = i + 1
        BY <2>2, <1>1, <1>4
      <3>2. t[i] = b[i - (k - 1)]
        <4>1. ~(i <= k - 1) /\ i \in 1 .. Len(s) - 1
          BY <2>2, <1>1, <1>4
        <4>2. QED
          BY <4>1, <1>4
      <3>3. b[i - (k - 1)] = s[k + (i - (k - 1))]
        BY <3>1, <1>3
      <3>4. QED
        BY <2>2, <3>1, <3>2, <3>3, <1>1
    <2>3. QED
      BY <2>1, <2>2, <1>1, <1>4
  <1>6. QED
    BY <1>1, <1>4, <1>5 DEF t

(* Removing one of distinct elements. *)
LEMMA RemoveAtDistinct ==
    ASSUME NEW S, NEW s \in Seq(S), NEW k \in DOMAIN s,
           \A i, j \in DOMAIN s : s[i] = s[j] => i = j
    PROVE  /\ \A i, j \in DOMAIN RemoveAt(s, k) :
                RemoveAt(s, k)[i] = RemoveAt(s, k)[j] => i = j
           /\ ToSet(RemoveAt(s, k)) = ToSet(s) \ {s[k]}
  <1> DEFINE t == RemoveAt(s, k)
  <1>1. /\ DOMAIN s = 1 .. Len(s) /\ Len(s) \in Nat /\ k \in Nat
        /\ DOMAIN t = 1 .. Len(s) - 1
        /\ \A i \in DOMAIN t : t[i] = IF i < k THEN s[i] ELSE s[i + 1]
    BY RemoveAtShape
  <1> HIDE DEF t
  <1>2. ASSUME NEW i \in DOMAIN t, NEW j \in DOMAIN t, t[i] = t[j]
        PROVE  i = j
    <2> DEFINE from(m) == IF m < k THEN m ELSE m + 1
    <2>1. /\ from(i) \in DOMAIN s /\ t[i] = s[from(i)]
          /\ from(j) \in DOMAIN s /\ t[j] = s[from(j)]
      BY <1>1
    <2>2. from(i) = from(j)
      BY <1>2, <2>1
    <2>3. QED
      BY <1>1, <2>2
  <1>3. ToSet(t) \subseteq ToSet(s) \ {s[k]}
    BY <1>1 DEF ToSet
  <1>4. ASSUME NEW i \in DOMAIN s, s[i] # s[k]
        PROVE  s[i] \in ToSet(t)
    <2>1. CASE i < k
      BY <2>1, <1>1 DEF ToSet
    <2>2. CASE i > k
      <3>1. i - 1 \in DOMAIN t /\ t[i - 1] = s[i]
        BY <2>2, <1>1
      <3>2. QED
        BY <3>1 DEF ToSet
    <2>3. QED
      BY <1>4, <2>1, <2>2
  <1>5. ToSet(s) \ {s[k]} \subseteq ToSet(t)
    BY <1>4 DEF ToSet
  <1>6. QED
    BY <1>2, <1>3, <1>5 DEF t

(* A distinct element at the end leaves a queue distinct. *)
LEMMA AppendDistinct ==
    ASSUME NEW S, NEW s \in Seq(S), Distinct(s), NEW e \in S, e \notin ToSet(s)
    PROVE  Distinct(Append(s, e))
  <1> DEFINE t == Append(s, e)
  <1>1. /\ DOMAIN s = 1 .. Len(s) /\ Len(s) \in Nat
        /\ DOMAIN t = 1 .. Len(s) + 1
        /\ \A i \in DOMAIN s : t[i] = s[i]
        /\ t[Len(s) + 1] = e
    OBVIOUS
  <1>2. \A i \in DOMAIN s : s[i] # e
    BY DEF ToSet
  <1> HIDE DEF t
  <1>3. Distinct(t)
    BY <1>1, <1>2 DEF Distinct
  <1>4. QED
    BY <1>3 DEF t

(* The tail of a distinct queue has all its elements but the head. *)
LEMMA TailDistinct ==
    ASSUME NEW S, NEW s \in Seq(S), Distinct(s), s # <<>>
    PROVE  Distinct(Tail(s)) /\ ToSet(Tail(s)) = ToSet(s) \ {Head(s)}
  <1> DEFINE t == Tail(s)
  <1>1. /\ DOMAIN s = 1 .. Len(s) /\ Len(s) \in Nat \ {0}
        /\ DOMAIN t = 1 .. Len(s) - 1
        /\ \A i \in DOMAIN t : t[i] = s[i + 1]
        /\ Head(s) = s[1]
    OBVIOUS
  <1> HIDE DEF t
  <1>2. Distinct(t)
    BY <1>1 DEF Distinct
  <1>3. ToSet(t) \subseteq ToSet(s) \ {Head(s)}
    <2> SUFFICES ASSUME NEW i \in DOMAIN t
                 PROVE  t[i] \in ToSet(s) \ {Head(s)}
      BY DEF ToSet
    <2>1. i + 1 \in DOMAIN s /\ 1 \in DOMAIN s /\ i + 1 # 1 /\ t[i] = s[i + 1]
      BY <1>1
    <2>2. QED
      BY <1>1, <2>1 DEF Distinct, ToSet
  <1>4. ToSet(s) \ {Head(s)} \subseteq ToSet(t)
    BY TailSet DEF t
  <1>5. QED
    BY <1>2, <1>3, <1>4 DEF t

(* A queue of distinct elements of a finite set is no longer than the set. *)
LEMMA DistinctLength ==
    ASSUME NEW S, NEW T, IsFiniteSet(T), NEW s \in Seq(S), Distinct(s),
           ToSet(s) \subseteq T
    PROVE  Len(s) <= Cardinality(T)
  <1>1. DOMAIN s = 1 .. Len(s) /\ Len(s) \in Nat /\ s = [i \in 1 .. Len(s) |-> s[i]]
    OBVIOUS
  <1>2. s \in Injection(1 .. Len(s), T)
    <2>1. s \in [1 .. Len(s) -> T]
      BY <1>1 DEF ToSet
    <2>2. \A i, j \in 1 .. Len(s) : s[i] = s[j] => i = j
      BY <1>1 DEF Distinct
    <2>3. QED
      BY <2>1, <2>2 DEF Injection, IsInjective
  <1>3. Cardinality(1 .. Len(s)) <= Cardinality(T)
    BY <1>2, FS_Injection
  <1>4. Cardinality(1 .. Len(s)) = Len(s)
    BY <1>1, FS_Interval
  <1>5. QED
    BY <1>3, <1>4

------------------------------------------------------------------------------
(* The elements of a set, listed in the order in which a queue has them *)

(* A set of natural numbers has a least element. *)
LEMMA LeastNat ==
    ASSUME NEW T, T \subseteq Nat, T # {}
    PROVE  \E n \in T : \A m \in T : n <= m
  <1> DEFINE Less == OpToRel(<, Nat)
  <1>1. \A x, y \in Nat : <<x, y>> \in Less <=> x < y
    BY DEF OpToRel
  <1>2. IsWellFoundedOn(Less, Nat)
    BY NatLessThanWellFounded
  <1> HIDE DEF Less
  <1>3. PICK n \in T : \A m \in T : ~ (<<m, n>> \in Less)
    BY <1>2, WFMin
  <1>4. ASSUME NEW m \in T PROVE n <= m
    <2>1. m \in Nat /\ n \in Nat /\ ~ (<<m, n>> \in Less)
      BY <1>3
    <2>2. ~ (m < n)
      BY <1>1, <2>1
    <2>3. QED
      BY <2>1, <2>2
  <1>5. QED
    BY <1>4

(* s lists the elements of t in their order, and of all of P. *)
InOrder(t, s) ==
    \A i, j \in DOMAIN t : i < j =>
        \E k, l \in DOMAIN s : k < l /\ s[k] = t[i] /\ s[l] = t[j]

IsListOf(t, P, s) ==
    /\ t \in [1 .. Cardinality(P) -> P]
    /\ ToSet(t) = P
    /\ InOrder(t, s)

(* Whatever two lists of P in the order of s first differ in would come    *)
(* both earlier and later in s.                                            *)
LEMMA ListUnique ==
    ASSUME NEW S, NEW s \in Seq(S), Distinct(s), NEW P, IsFiniteSet(P),
           NEW t, NEW u, IsListOf(t, P, s), IsListOf(u, P, s)
    PROVE  t = u
  <1> DEFINE n == Cardinality(P)
  <1>1. n \in Nat
    BY FS_CardinalityType
  <1>2. /\ t \in [1 .. n -> P] /\ u \in [1 .. n -> P]
        /\ ToSet(t) = P /\ ToSet(u) = P
        /\ InOrder(t, s) /\ InOrder(u, s)
    BY DEF IsListOf
  <1>3. DOMAIN s \subseteq Nat
    OBVIOUS
  <1> HIDE DEF n
  <1>4. \A i, j \in 1 .. n : i < j => t[i] # t[j] /\ u[i] # u[j]
    BY <1>2, <1>3 DEF InOrder, Distinct
  <1> SUFFICES ASSUME t # u PROVE FALSE
    OBVIOUS
  <1> DEFINE Differ == {i \in 1 .. n : t[i] # u[i]}
  <1>5. Differ # {}
    <2>1. t = [i \in 1 .. n |-> t[i]] /\ u = [i \in 1 .. n |-> u[i]]
      BY <1>2
    <2>2. PICK i \in 1 .. n : t[i] # u[i]
      BY <2>1
    <2>3. QED
      BY <2>2
  <1>6. Differ \subseteq Nat
    BY <1>1
  <1>7. PICK i \in Differ : \A j \in Differ : i <= j
    BY <1>5, <1>6, LeastNat
  <1>8. /\ i \in 1 .. n /\ t[i] # u[i]
        /\ \A j \in 1 .. n : j < i => t[j] = u[j]
    BY <1>1, <1>7
  <1>9. t[i] \in P /\ u[i] \in P
    BY <1>2, <1>8
  <1>10. PICK j \in 1 .. n : u[j] = t[i]
    BY <1>2, <1>9 DEF ToSet
  <1>11. PICK k \in 1 .. n : t[k] = u[i]
    BY <1>2, <1>9 DEF ToSet
  <1>12. i < j
    BY <1>1, <1>4, <1>8, <1>10
  <1>13. i < k
    BY <1>1, <1>4, <1>8, <1>11
  <1>14. \E a, b \in DOMAIN s : a < b /\ s[a] = u[i] /\ s[b] = t[i]
    BY <1>2, <1>8, <1>10, <1>12 DEF InOrder
  <1>15. \E a, b \in DOMAIN s : a < b /\ s[a] = t[i] /\ s[b] = u[i]
    BY <1>2, <1>8, <1>11, <1>13 DEF InOrder
  <1>16. QED
    BY <1>3, <1>14, <1>15 DEF Distinct

(* What comes last in s is listed last. *)
LEMMA ListAppend ==
    ASSUME NEW S, NEW s \in Seq(S), Distinct(s), NEW P, IsFiniteSet(P),
           P \subseteq ToSet(s), NEW r \in S, r \notin ToSet(s),
           NEW t, IsListOf(t, P, s)
    PROVE  IsListOf(Append(t, r), P \cup {r}, Append(s, r))
  <1> DEFINE n == Cardinality(P)
             u == Append(t, r)
             w == Append(s, r)
  <1>1. n \in Nat /\ Cardinality(P \cup {r}) = n + 1
    BY FS_CardinalityType, FS_AddElement
  <1>2. t \in [1 .. n -> P] /\ ToSet(t) = P /\ InOrder(t, s)
    BY DEF IsListOf
  <1>3. /\ DOMAIN s \subseteq DOMAIN w /\ DOMAIN s \subseteq Nat
        /\ \A i \in DOMAIN s : w[i] = s[i]
        /\ \E l \in DOMAIN w : w[l] = r /\ \A i \in DOMAIN s : i < l
    <2>1. /\ DOMAIN s = 1 .. Len(s) /\ Len(s) \in Nat
          /\ DOMAIN w = 1 .. Len(s) + 1
          /\ \A i \in DOMAIN s : w[i] = s[i]
          /\ w[Len(s) + 1] = r
      OBVIOUS
    <2> HIDE DEF w
    <2>2. QED
      BY <2>1
  <1> HIDE DEF n, w
  <1>4. /\ u \in [1 .. n + 1 -> P \cup {r}]
        /\ u[n + 1] = r
        /\ \A i \in 1 .. n : u[i] = t[i]
    <2>1. t \in Seq(P) /\ Len(t) = n
      BY <1>1, <1>2
    <2>2. t \in Seq(P \cup {r})
      BY <2>1
    <2>3. u \in Seq(P \cup {r}) /\ Len(u) = n + 1
      BY <1>1, <2>1, <2>2
    <2>4. u[n + 1] = r /\ \A i \in 1 .. n : u[i] = t[i]
      BY <1>1, <2>1, <2>2
    <2> HIDE DEF u
    <2>5. u \in [1 .. n + 1 -> P \cup {r}]
      BY <2>3
    <2>6. QED
      BY <2>4, <2>5
  <1> HIDE DEF u
  <1>5. ToSet(u) = P \cup {r}
    <2>1. 1 .. n + 1 = (1 .. n) \cup {n + 1}
      BY <1>1
    <2>2. \A x : x \in P <=> \E i \in 1 .. n : t[i] = x
      BY <1>2 DEF ToSet
    <2>3. QED
      BY <1>4, <2>1, <2>2 DEF ToSet
  <1>6. InOrder(u, w)
    <2> SUFFICES ASSUME NEW i \in 1 .. n + 1, NEW j \in 1 .. n + 1, i < j
                 PROVE  \E k, l \in DOMAIN w : k < l /\ w[k] = u[i] /\ w[l] = u[j]
      BY <1>4 DEF InOrder
    <2>1. i \in 1 .. n
      BY <1>1
    <2>2. CASE j \in 1 .. n
      BY <1>2, <1>3, <1>4, <2>1, <2>2 DEF InOrder
    <2>3. CASE j = n + 1
      <3>1. t[i] \in ToSet(s)
        BY <1>2, <2>1
      <3>2. QED
        BY <1>3, <1>4, <2>1, <2>3, <3>1 DEF ToSet
    <2>4. QED
      BY <1>1, <2>2, <2>3
  <1>7. QED
    BY <1>1, <1>4, <1>5, <1>6 DEF IsListOf, u, w, n

(* One element fewer. *)
LEMMA ListRemove ==
    ASSUME NEW S, NEW s \in Seq(S), Distinct(s), NEW P, IsFiniteSet(P),
           NEW t, IsListOf(t, P, s), NEW m \in DOMAIN t
    PROVE  IsListOf(RemoveAt(t, m), P \ {t[m]}, s)
  <1> DEFINE n == Cardinality(P)
             u == RemoveAt(t, m)
             from(i) == IF i < m THEN i ELSE i + 1
  <1>1. t \in [1 .. n -> P] /\ ToSet(t) = P /\ InOrder(t, s) /\ m \in 1 .. n
    BY DEF IsListOf
  <1>2. n \in Nat /\ Cardinality(P \ {t[m]}) = n - 1
    <2>1. t[m] \in P
      BY <1>1
    <2>2. QED
      BY <2>1, FS_CardinalityType, FS_RemoveElement
  <1>3. DOMAIN s \subseteq Nat
    OBVIOUS
  <1> HIDE DEF n
  <1>4. t \in Seq(P) /\ Len(t) = n
    BY <1>1, <1>2
  <1>5. u \in Seq(P)
    BY <1>1, <1>4, RemoveAtType
  <1>6. DOMAIN u = 1 .. n - 1 /\ \A i \in 1 .. n - 1 : u[i] = t[from(i)]
    <2>1. /\ DOMAIN u = 1 .. n - 1
          /\ \A i \in DOMAIN u : u[i] = IF i < m THEN t[i] ELSE t[i + 1]
      BY <1>4, RemoveAtShape
    <2> HIDE DEF u
    <2>2. QED
      BY <2>1
  <1>7. /\ \A i \in 1 .. n - 1 : from(i) \in 1 .. n /\ from(i) # m
        /\ \A i, j \in 1 .. n - 1 : i < j => from(i) < from(j)
    BY <1>1, <1>2
  <1>8. \A i \in 1 .. n : i # m => \E j \in 1 .. n - 1 : from(j) = i
    <2> SUFFICES ASSUME NEW i \in 1 .. n, i # m
                 PROVE  \E j \in 1 .. n - 1 : from(j) = i
      OBVIOUS
    <2>1. CASE i < m
      BY <2>1, <1>1, <1>2
    <2>2. CASE i > m
      <3>1. i - 1 \in 1 .. n - 1 /\ from(i - 1) = i
        BY <2>2, <1>1, <1>2
      <3>2. QED
        BY <3>1
    <2>3. QED
      BY <2>1, <2>2, <1>1, <1>2
  <1>9. \A i, j \in 1 .. n : t[i] = t[j] => i = j
    <2>1. \A i, j \in 1 .. n : i < j => t[i] # t[j]
      BY <1>1, <1>3 DEF InOrder, Distinct
    <2>2. QED
      BY <1>2, <2>1
  <1> HIDE DEF u, from
  <1>10. \A i \in 1 .. n - 1 : u[i] \in P \ {t[m]}
    BY <1>1, <1>6, <1>7, <1>9
  <1>11. u \in [1 .. n - 1 -> P \ {t[m]}]
    <2>1. u = [i \in 1 .. n - 1 |-> u[i]]
      BY <1>5, <1>6
    <2>2. QED
      BY <1>10, <2>1
  <1>12. ToSet(u) = P \ {t[m]}
    <2>1. \A x : x \in P <=> \E i \in 1 .. n : t[i] = x
      BY <1>1 DEF ToSet
    <2>2. \A x : x \in ToSet(u) <=> \E i \in 1 .. n - 1 : u[i] = x
      BY <1>6 DEF ToSet
    <2>3. ASSUME NEW x \in P, x # t[m] PROVE x \in ToSet(u)
      BY <1>6, <1>8, <2>1, <2>2, <2>3
    <2>4. QED
      BY <1>10, <2>2, <2>3
  <1>13. InOrder(u, s)
    BY <1>1, <1>6, <1>7 DEF InOrder
  <1>14. QED
    BY <1>2, <1>11, <1>12, <1>13 DEF IsListOf, u, n

(* The first element of s that is in P heads the list. *)
LEMMA ListTail ==
    ASSUME NEW S, NEW s \in Seq(S), Distinct(s), NEW P, IsFiniteSet(P),
           NEW t, IsListOf(t, P, s), NEW q \in P,
           \E i \in DOMAIN s : s[i] = q /\ \A j \in 1 .. i - 1 : s[j] \notin P
    PROVE  t # <<>> /\ Head(t) = q /\ IsListOf(Tail(t), P \ {q}, s)
  <1> DEFINE n == Cardinality(P)
  <1>1. t \in [1 .. n -> P] /\ ToSet(t) = P /\ InOrder(t, s) /\ n \in Nat
    BY FS_CardinalityType DEF IsListOf
  <1>2. DOMAIN s \subseteq Nat \ {0}
    OBVIOUS
  <1> HIDE DEF n
  <1>3. PICK m \in 1 .. n : t[m] = q
    BY <1>1 DEF ToSet
  <1>4. 1 \in 1 .. n /\ t[1] \in P
    BY <1>1, <1>3
  <1>5. t[1] = q
    <2> SUFFICES ASSUME m # 1 PROVE FALSE
      BY <1>3
    <2>1. 1 < m
      BY <1>1, <1>3
    <2>2. PICK k, l \in DOMAIN s : k < l /\ s[k] = t[1] /\ s[l] = q
      BY <1>1, <1>3, <1>4, <2>1 DEF InOrder
    <2>3. PICK i \in DOMAIN s : s[i] = q /\ \A j \in 1 .. i - 1 : s[j] \notin P
      OBVIOUS
    <2>4. i = l
      BY <2>2, <2>3 DEF Distinct
    <2>5. k \in 1 .. i - 1
      BY <1>2, <2>2, <2>4
    <2>6. QED
      BY <1>4, <2>2, <2>3, <2>5
  <1>6. t \in Seq(P) /\ Len(t) = n /\ t # <<>> /\ Head(t) = q /\ 1 \in DOMAIN t
    BY <1>1, <1>4, <1>5
  <1>7. Tail(t) = RemoveAt(t, 1)
    <2> DEFINE u == RemoveAt(t, 1)
    <2>1. /\ DOMAIN u = 1 .. n - 1 /\ u \in Seq(P)
          /\ \A i \in DOMAIN u : u[i] = IF i < 1 THEN t[i] ELSE t[i + 1]
      BY <1>6, RemoveAtShape, RemoveAtType
    <2>2. Tail(t) \in Seq(P) /\ Len(Tail(t)) = n - 1
      BY <1>6
    <2>3. \A i \in 1 .. n - 1 : Tail(t)[i] = t[i + 1]
      BY <1>6
    <2> HIDE DEF u
    <2>4. Len(u) = n - 1 /\ \A i \in 1 .. n - 1 : u[i] = t[i + 1]
      BY <2>1, <1>1, <1>4
    <2>5. Tail(t) = u
      BY <2>1, <2>2, <2>3, <2>4, SeqEqual
    <2>6. QED
      BY <2>5 DEF u
  <1>8. IsListOf(RemoveAt(t, 1), P \ {t[1]}, s)
    BY <1>6, ListRemove
  <1>9. QED
    BY <1>5, <1>6, <1>7, <1>8, Zenon

(* Removing from s what is not listed. *)
LEMMA ListKept ==
    ASSUME NEW S, NEW s \in Seq(S), Distinct(s), NEW P,
           NEW t, IsListOf(t, P, s), NEW m \in DOMAIN s, s[m] \notin P
    PROVE  IsListOf(t, P, RemoveAt(s, m))
  <1> DEFINE w == RemoveAt(s, m)
             to(i) == IF i < m THEN i ELSE i - 1
  <1>1. t \in [1 .. Cardinality(P) -> P] /\ InOrder(t, s)
    BY DEF IsListOf
  <1>2. /\ \A i \in DOMAIN s : i # m => to(i) \in DOMAIN w /\ w[to(i)] = s[i]
        /\ \A i, j \in DOMAIN s : i < j /\ i # m /\ j # m => to(i) < to(j)
    <2>1. /\ DOMAIN s = 1 .. Len(s) /\ Len(s) \in Nat
          /\ DOMAIN w = 1 .. Len(s) - 1
          /\ \A i \in DOMAIN w : w[i] = IF i < m THEN s[i] ELSE s[i + 1]
      BY RemoveAtShape
    <2> HIDE DEF w
    <2>2. QED
      BY <2>1
  <1> HIDE DEF w, to
  <1>3. InOrder(t, w)
    <2> SUFFICES ASSUME NEW i \in DOMAIN t, NEW j \in DOMAIN t, i < j
                 PROVE  \E k, l \in DOMAIN w : k < l /\ w[k] = t[i] /\ w[l] = t[j]
      BY DEF InOrder
    <2>1. PICK k, l \in DOMAIN s : k < l /\ s[k] = t[i] /\ s[l] = t[j]
      BY <1>1 DEF InOrder
    <2>2. k # m /\ l # m
      BY <1>1, <2>1
    <2>3. QED
      BY <1>2, <2>1, <2>2
  <1>4. QED
    BY <1>3 DEF IsListOf, w
==============================================================================
