--------------------------- MODULE InferenceProofs ---------------------------
(***************************************************************************)
(* Theorems about Inference and the InputParsing it extends, for bodies of *)
(* every size, every selector and setting, and models of any inputs and    *)
(* outputs, as InputsAssumption and ServedAssumption describe them.        *)
(*                                                                         *)
(* From the bottom up: ascending lists, sequences and tables, columns, the *)
(* lines of a CSV body, the records of a body, tensors; then ParsingInv,   *)
(* what each stage of the parser may rely on, and InferenceInv, what the   *)
(* predictions and the response have of the records.                       *)
(***************************************************************************)
EXTENDS Inference, QueueLemmas, FiniteSetTheorems, SequenceTheorems, TLAPS

------------------------------------------------------------------------------
(* Ascending *)

Increasing(h) == \A k, l \in DOMAIN h : k < l => h[k] < h[l]

(* A set of numbers up to n can be listed in ascending order: of the least *)
(* n for which one cannot, taking n away leaves one that can.              *)
LEMMA AscendingExists ==
    ASSUME NEW n \in Nat, NEW I \in SUBSET (0 .. n)
    PROVE  \E h \in [1 .. Cardinality(I) -> I] : Increasing(h)
  <1> DEFINE Listed(J) == \E h \in [1 .. Cardinality(J) -> J] : Increasing(h)
             Bad == {m \in Nat : \E J \in SUBSET (0 .. m) : ~Listed(J)}
  <1>1. Listed({})
    <2>1. Cardinality({}) = 0 /\ 1 .. 0 = {}
      BY FS_EmptySet
    <2>2. << >> \in [1 .. 0 -> {}] /\ Increasing(<< >>)
      BY <2>1 DEF Increasing
    <2>3. QED
      BY <2>1, <2>2
  <1>2. ASSUME NEW J, NEW m \in Nat, J \in SUBSET (0 .. m), m \in J,
               Listed(J \ {m})
        PROVE  Listed(J)
    <2> DEFINE K == J \ {m}
               c == Cardinality(K)
    <2>1. IsFiniteSet(J)
      BY <1>2, FS_BoundedSetOfNaturals
    <2>2. IsFiniteSet(K) /\ c \in Nat /\ Cardinality(J) = c + 1
      <3>1. IsFiniteSet(K) /\ c = Cardinality(J) - 1
        BY <1>2, <2>1, FS_RemoveElement
      <3>2. Cardinality(J) \in Nat /\ c \in Nat
        BY <2>1, <3>1, FS_CardinalityType
      <3>3. QED
        BY <3>1, <3>2
    <2>3. PICK h \in [1 .. c -> K] : Increasing(h)
      BY <1>2
    <2>4. \A k \in K : k \in Nat /\ k < m
      BY <1>2
    <2> HIDE DEF c, K
    <2> DEFINE g == [k \in 1 .. c + 1 |-> IF k = c + 1 THEN m ELSE h[k]]
    <2>5. g \in [1 .. c + 1 -> J]
      <3>1. \A k \in 1 .. c + 1 : k # c + 1 => k \in 1 .. c
        BY <2>2
      <3>2. QED
        BY <1>2, <2>3, <3>1 DEF K
    <2>6. ASSUME NEW k \in 1 .. c + 1, NEW l \in 1 .. c + 1, k < l
          PROVE  g[k] < g[l]
      <3>1. k \in 1 .. c /\ g[k] = h[k] /\ h[k] \in K
        BY <2>2, <2>3, <2>6
      <3>2. CASE l = c + 1
        BY <3>1, <3>2, <2>4
      <3>3. CASE l # c + 1
        <4>1. l \in 1 .. c /\ g[l] = h[l]
          BY <2>2, <3>3
        <4>2. QED
          BY <2>3, <2>6, <3>1, <4>1 DEF Increasing
      <3>4. QED
        BY <3>2, <3>3
    <2>7. Increasing(g)
      BY <2>6 DEF Increasing
    <2>8. QED
      BY <2>2, <2>5, <2>7
  <1> HIDE DEF Listed
  <1>3. ASSUME Bad # {} PROVE FALSE
    <2>1. PICK m \in Bad : \A k \in Bad : m <= k
      BY <1>3, LeastNat
    <2>2. PICK J \in SUBSET (0 .. m) : ~Listed(J)
      BY <2>1
    <2>3. m \in Nat
      BY <2>1
    <2>4. ~Listed(J \ {m}) /\ J \ {m} # {}
      <3>1. CASE m \in J
        <4>1. ~Listed(J \ {m})
          BY <1>2, <2>2, <2>3, <3>1
        <4>2. QED
          BY <1>1, <4>1
      <3>2. CASE m \notin J
        <4>1. J \ {m} = J
          BY <3>2
        <4>2. QED
          BY <1>1, <2>2, <4>1
      <3>3. QED
        BY <3>1, <3>2
    <2>5. m # 0
      <3>1. ASSUME m = 0 PROVE J \ {m} = {}
        <4>1. 0 .. m = {0}
          BY <3>1
        <4>2. QED
          BY <3>1, <4>1
      <3>2. QED
        BY <2>4, <3>1
    <2>6. m - 1 \in Nat /\ J \ {m} \in SUBSET (0 .. m - 1)
      BY <2>3, <2>5
    <2>7. m - 1 \in Bad
      BY <2>4, <2>6
    <2>8. QED
      BY <2>1, <2>3, <2>7
  <1>4. QED
    BY <1>3 DEF Listed

(* Ascending lists all of the set. *)
LEMMA AscendingLists ==
    ASSUME NEW n \in Nat, NEW I \in SUBSET (0 .. n)
    PROVE  /\ IsFiniteSet(I) /\ Cardinality(I) \in Nat
           /\ Ascending(I) \in [1 .. Cardinality(I) -> I]
           /\ Increasing(Ascending(I))
           /\ \A i \in I : \E k \in 1 .. Cardinality(I) : Ascending(I)[k] = i
  <1> DEFINE c == Cardinality(I)
             h == Ascending(I)
  <1>1. IsFiniteSet(I) /\ c \in Nat
    BY FS_BoundedSetOfNaturals, FS_CardinalityType
  <1>2. h \in [1 .. c -> I] /\ Increasing(h)
    BY AscendingExists DEF Ascending, Increasing
  <1>3. h \in Injection(1 .. c, I)
    <2>1. \A k, l \in 1 .. c : k # l => k < l \/ l < k
      BY <1>1
    <2>2. \A k \in 1 .. c : h[k] \in Int
      <3>1. I \subseteq Int
        OBVIOUS
      <3>2. QED
        BY <1>2, <3>1
    <2>3. \A k, l \in 1 .. c : k < l => h[k] < h[l]
      BY <1>2 DEF Increasing
    <2> HIDE DEF h, c
    <2>4. \A k, l \in 1 .. c : h[k] = h[l] => k = l
      BY <2>1, <2>2, <2>3
    <2>5. QED
      BY <1>2, <2>4 DEF Injection, IsInjective
  <1>4. Cardinality(1 .. c) = c
    BY <1>1, FS_Interval
  <1>5. h \in Surjection(1 .. c, I)
    BY <1>1, <1>3, <1>4, FS_Injection
  <1>6. QED
    BY <1>1, <1>2, <1>5 DEF Surjection

(* Only Ascending does: where two lists first differ, the lesser number is *)
(* missing from the other.                                                 *)
LEMMA AscendingUnique ==
    ASSUME NEW n \in Nat, NEW I \in SUBSET (0 .. n),
           NEW g \in [1 .. Cardinality(I) -> I], Increasing(g)
    PROVE  g = Ascending(I)
  <1> DEFINE c == Cardinality(I)
             h == Ascending(I)
             Differ == {k \in 1 .. c : g[k] # h[k]}
  <1>0. I \subseteq Int
    OBVIOUS
  <1>1. /\ c \in Nat /\ IsFiniteSet(I)
        /\ h \in [1 .. c -> I]
        /\ Increasing(h)
    BY AscendingLists
  <1>2. ASSUME NEW f \in [1 .. c -> I], Increasing(f), NEW k \in 1 .. c,
               NEW e \in [1 .. c -> I], Increasing(e),
               \A i \in I : \E l \in 1 .. c : f[l] = i,
               \A l \in 1 .. c : l < k => e[l] = f[l]
        PROVE  ~ (e[k] < f[k])
    <2> HIDE DEF c
    <2> SUFFICES ASSUME e[k] < f[k] PROVE FALSE
      OBVIOUS
    <2>1. e[k] \in I
      BY <1>2
    <2>2. PICK l \in 1 .. c : f[l] = e[k]
      BY <1>2, <2>1
    <2>3. f[l] \in Int /\ f[k] \in Int
      BY <1>2, <1>0
    <2>4. ~ (k <= l)
      BY <1>1, <1>2, <2>2, <2>3 DEF Increasing
    <2>5. l < k
      BY <1>1, <2>4
    <2>6. e[l] = e[k] /\ e[l] < e[k]
      BY <1>2, <2>2, <2>5 DEF Increasing
    <2>7. QED
      BY <2>3, <2>2, <2>6
  <1>3. \A i \in I : \E k \in 1 .. c : h[k] = i
    BY AscendingLists
  <1>4. \A i \in I : \E k \in 1 .. c : g[k] = i
    <2>1. \A k, l \in 1 .. c : k # l => k < l \/ l < k
      BY <1>1
    <2>2. \A k \in 1 .. c : g[k] \in Int
      BY <1>0
    <2>3. \A k, l \in 1 .. c : k < l => g[k] < g[l]
      BY DEF Increasing
    <2> HIDE DEF h, c
    <2>4. \A k, l \in 1 .. c : g[k] = g[l] => k = l
      BY <2>1, <2>2, <2>3
    <2>5. g \in Injection(1 .. c, I)
      BY <2>4 DEF Injection, IsInjective, c
    <2>6. Cardinality(1 .. c) = c
      BY <1>1, FS_Interval
    <2>7. g \in Surjection(1 .. c, I)
      BY <1>1, <2>5, <2>6, FS_Injection DEF c
    <2>8. QED
      BY <2>7 DEF Surjection
  <1> HIDE DEF c, h
  <1>5. ASSUME Differ # {} PROVE FALSE
    <2>1. Differ \subseteq Nat
      BY <1>1
    <2>2. PICK k \in Differ : \A l \in Differ : k <= l
      BY <1>5, <2>1, LeastNat
    <2>3. k \in 1 .. c /\ g[k] # h[k] /\ g[k] \in Int /\ h[k] \in Int
      BY <1>0, <1>1, <2>2 DEF c
    <2>4. \A l \in 1 .. c : l < k => g[l] = h[l]
      BY <1>1, <2>1, <2>2
    <2>5. ~ (g[k] < h[k])
      BY <1>1, <1>2, <1>3, <2>3, <2>4 DEF c
    <2>6. ~ (h[k] < g[k])
      BY <1>1, <1>2, <1>4, <2>3, <2>4 DEF c
    <2>7. QED
      BY <2>3, <2>5, <2>6
  <1>6. g = h
    BY <1>1, <1>5 DEF c
  <1>7. QED
    BY <1>6 DEF h

------------------------------------------------------------------------------
(* Sequences and tables *)

(* What has a sequence's type has its shape. *)
LEMMA SequenceShape ==
    ASSUME NEW s, IsSequence(s)
    PROVE  /\ Len(s) \in Nat
           /\ DOMAIN s = 1 .. Len(s)
           /\ s = [i \in 1 .. Len(s) |-> s[i]]
           /\ s = << >> <=> Len(s) = 0
  BY DEF IsSequence

(* A function on 1 .. n is a sequence. *)
LEMMA SequenceMade ==
    ASSUME NEW n \in Nat, NEW s, DOMAIN s = 1 .. n, s = [i \in DOMAIN s |-> s[i]]
    PROVE  IsSequence(s) /\ Len(s) = n
  <1>1. s \in [1 .. n -> ToSet(s)]
    BY DEF ToSet
  <1>2. s \in Seq(ToSet(s))
    BY <1>1
  <1>3. Len(s) = n
    BY <1>1
  <1>4. QED
    BY <1>2, <1>3 DEF IsSequence

(* The elements of a sequence are enough of a type for it. *)
LEMMA SequenceOf ==
    ASSUME NEW S, NEW s \in Seq(S)
    PROVE  IsSequence(s)
  <1>1. Len(s) \in Nat /\ DOMAIN s = 1 .. Len(s) /\ s = [i \in DOMAIN s |-> s[i]]
    OBVIOUS
  <1>2. QED
    BY <1>1, SequenceMade

(* A sequence of one. *)
LEMMA Singleton ==
    ASSUME NEW e
    PROVE  IsSequence(<<e>>) /\ Len(<<e>>) = 1 /\ DOMAIN <<e>> = {1} /\ <<e>>[1] = e
  <1>1. <<e>> \in Seq({e})
    OBVIOUS
  <1>2. IsSequence(<<e>>)
    BY <1>1, SequenceOf
  <1>3. QED
    BY <1>2

(* A table: its rows are sequences, all as wide as it says. *)
Table(a) ==
    /\ a = [ndim |-> a.ndim, rows |-> a.rows, cols |-> a.cols]
    /\ a.ndim \in 0 .. 2
    /\ a.cols \in Nat
    /\ IsSequence(a.rows)
    /\ \A i \in DOMAIN a.rows : IsSequence(a.rows[i]) /\ Len(a.rows[i]) = a.cols

(* A table is no exception. *)
LEMMA TableDoesNotRaise ==
    ASSUME NEW a, Table(a)
    PROVE  ~Raised(a)
  <1>1. DOMAIN a = {"ndim", "rows", "cols"}
    BY DEF Table
  <1>2. QED
    BY <1>1 DEF Raised

(* An exception is one, and keeps its name. *)
LEMMA FailureRaises ==
    ASSUME NEW e
    PROVE  Raised(Failure(e)) /\ Failure(e).raises = e
  BY DEF Raised, Failure

(* What numpy makes of a list: one row of its items, or a row for each of  *)
(* them if they are lists.                                                 *)
LEMMA ArrayOfList ==
    ASSUME NEW items, IsSequence(items),
           \A i \in DOMAIN items : items[i].kind = "list" => IsSequence(items[i].items)
    PROVE  LET a == AsArray(List(items))
           IN  \/ a = Failure("ValueError")
               \/ /\ Table(a)
                  /\ a.ndim = 1 /\ a.rows = <<items>> /\ a.cols = Len(items)
                  /\ \A i \in DOMAIN items : items[i].kind # "list"
               \/ /\ Table(a)
                  /\ a.ndim = 2
                  /\ a.rows = [i \in DOMAIN items |-> items[i].items]
                  /\ Len(a.rows) = Len(items) /\ items # << >>
                  /\ \A i \in DOMAIN items : items[i].kind = "list"
  <1> DEFINE lists == {i \in DOMAIN items : items[i].kind = "list"}
             widths == {Len(items[i].items) : i \in lists}
             row == [ndim |-> 1, rows |-> <<items>>, cols |-> Len(items)]
             w == CHOOSE v \in widths : TRUE
             matrix == [ndim |-> 2, rows |-> [i \in lists |-> items[i].items], cols |-> w]
  <1>1. AsArray(List(items)) =
            IF lists = {} THEN row
            ELSE IF lists = DOMAIN items /\ Cardinality(widths) = 1 THEN matrix
            ELSE Failure("ValueError")
    BY DEF AsArray, List
  <1>2. Len(items) \in Nat /\ DOMAIN items = 1 .. Len(items)
    BY SequenceShape
  <1>3. Table(row)
    BY <1>2, Singleton DEF Table
  <1>4. ASSUME lists = DOMAIN items, lists # {}, Cardinality(widths) = 1
        PROVE  /\ Table(matrix)
               /\ matrix.rows = [i \in DOMAIN items |-> items[i].items]
               /\ Len(matrix.rows) = Len(items)
    <2>1. IsFiniteSet(lists)
      <3>1. IsFiniteSet(1 .. Len(items))
        BY <1>2, FS_Interval
      <3>2. lists = 1 .. Len(items)
        BY <1>2, <1>4
      <3> HIDE DEF lists
      <3>3. QED
        BY <3>1, <3>2
    <2>2. \A i \in lists : Len(items[i].items) = w
      <3>1. IsFiniteSet(widths)
        <4> DEFINE f == [i \in lists |-> Len(items[i].items)]
        <4>1. f \in Surjection(lists, widths)
          BY DEF Surjection
        <4> HIDE DEF f, lists, widths
        <4>2. QED
          BY <2>1, <4>1, FS_Surjection
      <3>2. PICK v : widths = {v}
        BY <1>4, <3>1, FS_Singleton
      <3>3. \A i \in lists : Len(items[i].items) = v
        BY <3>2
      <3>4. w = v
        BY <3>2
      <3>5. QED
        BY <3>3, <3>4
    <2>3. w \in Nat
      <3>1. PICK i \in lists : TRUE
        BY <1>4
      <3>2. Len(items[i].items) \in Nat
        BY <3>1, SequenceShape
      <3>3. QED
        BY <2>2, <3>2
    <2> HIDE DEF w, widths
    <2> DEFINE rows == [i \in lists |-> items[i].items]
    <2>4. DOMAIN rows = 1 .. Len(items)
      BY <1>2, <1>4
    <2>5. IsSequence(rows) /\ Len(rows) = Len(items)
      BY <1>2, <2>4, SequenceMade
    <2>6. \A i \in DOMAIN rows : IsSequence(rows[i]) /\ Len(rows[i]) = w
      BY <2>2
    <2>7. rows = [i \in DOMAIN items |-> items[i].items]
      BY <1>4
    <2> HIDE DEF rows
    <2>8. Table([ndim |-> 2, rows |-> rows, cols |-> w])
      BY <2>3, <2>5, <2>6 DEF Table
    <2>9. QED
      BY <2>5, <2>7, <2>8 DEF rows
  <1>5. CASE lists = {}
    <2>1. AsArray(List(items)) = row
      BY <1>1, <1>5
    <2>2. \A i \in DOMAIN items : items[i].kind # "list"
      BY <1>5
    <2>3. QED
      BY <1>3, <2>1, <2>2
  <1>6. CASE lists # {} /\ lists = DOMAIN items /\ Cardinality(widths) = 1
    <2>1. AsArray(List(items)) = matrix
      BY <1>1, <1>6
    <2>2. /\ \A i \in DOMAIN items : items[i].kind = "list"
          /\ items # << >>
      BY <1>6
    <2>3. /\ Table(matrix)
          /\ matrix.rows = [i \in DOMAIN items |-> items[i].items]
          /\ Len(matrix.rows) = Len(items)
      BY <1>4, <1>6
    <2>4. matrix.ndim = 2
      OBVIOUS
    <2> HIDE DEF matrix, lists, widths
    <2>5. QED
      BY <2>1, <2>2, <2>3, <2>4
  <1>7. QED
    BY <1>1, <1>5, <1>6

(* What is no list is a scalar. *)
LEMMA ArrayOfScalar ==
    ASSUME NEW v, v.kind # "list"
    PROVE  LET a == AsArray(v)
           IN  Table(a) /\ a.ndim = 0 /\ a.rows = << <<v>> >> /\ a.cols = 1
  <1>1. AsArray(v) = [ndim |-> 0, rows |-> << <<v>> >>, cols |-> 1]
    BY DEF AsArray
  <1>2. Table([ndim |-> 0, rows |-> << <<v>> >>, cols |-> 1])
    BY Singleton DEF Table
  <1>3. QED
    BY <1>1, <1>2

(* The cast leaves a table of numbers as it is, and takes no other.        *)
LEMMA CastOfTable ==
    ASSUME NEW a, Table(a)
    PROVE  \/ /\ AsType(a) = a
              /\ \A i \in DOMAIN a.rows : \A j \in DOMAIN a.rows[i] :
                     a.rows[i][j].kind = "number"
           \/ \E e \in {"ValueError", "TypeError"} : AsType(a) = Failure(e)
  <1> DEFINE cells == UNION {{i} \X DOMAIN a.rows[i] : i \in DOMAIN a.rows}
             bad == {c \in cells : a.rows[c[1]][c[2]].kind # "number"}
             first == CHOOSE c \in bad : \A d \in bad :
                          c[1] < d[1] \/ (c[1] = d[1] /\ c[2] <= d[2])
  <1>1. AsType(a) =
            IF bad = {} THEN a
            ELSE Failure(IF a.rows[first[1]][first[2]].kind = "word"
                         THEN "ValueError" ELSE "TypeError")
    BY DEF AsType
  <1>2. ASSUME bad = {}, NEW i \in DOMAIN a.rows, NEW j \in DOMAIN a.rows[i]
        PROVE  a.rows[i][j].kind = "number"
    <2>1. <<i, j>> \in cells
      OBVIOUS
    <2>2. QED
      BY <1>2, <2>1
  <1> HIDE DEF bad, first
  <1>3. QED
    BY <1>1, <1>2

------------------------------------------------------------------------------
(* Columns *)

(* An index from the end, taken modulo the width, is a column. *)
LEMMA Remainder ==
    ASSUME NEW n \in Nat, NEW x \in (-n) .. (n - 1)
    PROVE  /\ (x % n) + 1 \in 1 .. n
           /\ x >= 0 => x % n = x
  <1>1. n > 0
    OBVIOUS
  <1>2. x % n \in 0 .. (n - 1)
    BY <1>1
  <1>3. ASSUME x >= 0 PROVE x % n = x
    BY <1>1, <1>3
  <1>4. QED
    BY <1>2, <1>3

(* A selector that int() takes selects a sequence of integers. *)
LEMMA SelectorShape ==
    ASSUME NEW s \in Selectors, s # BadSelector, NEW n \in Nat
    PROVE  LET ix == ParseColSelector(s, n)
           IN  /\ IsSequence(ix)
               /\ \A k \in DOMAIN ix : ix[k] \in Int
               /\ s.form # "indexes" => \A k \in DOMAIN ix : ix[k] >= 0
               /\ s.form = "indexes" => ix = s.indexes
  <1>1. ASSUME NEW from \in Int, NEW to \in Int, from >= 0
        PROVE  LET ix == UpTo(from, to)
               IN  /\ IsSequence(ix)
                   /\ \A k \in DOMAIN ix : ix[k] \in Int /\ ix[k] >= 0
    <2> DEFINE ix == UpTo(from, to)
               m == Upper(0, to - from)
    <2>1. m \in Nat
      BY <1>1 DEF Upper
    <2>2. ix = [k \in 1 .. m |-> from + k - 1]
      BY DEF UpTo
    <2> HIDE DEF m, ix
    <2>3. DOMAIN ix = 1 .. m /\ ix = [k \in DOMAIN ix |-> ix[k]]
      BY <2>2
    <2>4. IsSequence(ix)
      BY <2>1, <2>3, SequenceMade
    <2>5. \A k \in 1 .. m : ix[k] \in Int /\ ix[k] >= 0
      BY <1>1, <2>1, <2>2
    <2>6. QED
      BY <2>3, <2>4, <2>5 DEF ix
  <1>2. CASE s = NoSelector
    <2>1. ParseColSelector(s, n) = UpTo(0, n)
      BY <1>2 DEF ParseColSelector, NoSelector
    <2>2. QED
      BY <1>1, <1>2, <2>1 DEF NoSelector
  <1>3. CASE s \in [form : {"slice"}, from : Int, to : Int]
    <2>1. ParseColSelector(s, n) = UpTo(Upper(0, s.from), Lower(n, s.to))
      BY <1>3 DEF ParseColSelector
    <2>2. Upper(0, s.from) \in Nat /\ Lower(n, s.to) \in Int
      BY <1>3 DEF Upper, Lower
    <2>3. QED
      BY <1>1, <1>3, <2>1, <2>2
  <1>4. CASE s \in [form : {"indexes"}, indexes : Seq(Int)]
    <2>1. ParseColSelector(s, n) = s.indexes /\ s.indexes \in Seq(Int)
      BY <1>4 DEF ParseColSelector
    <2>2. QED
      BY <1>4, <2>1, SequenceOf
  <1>5. QED
    BY <1>2, <1>3, <1>4 DEF Selectors

(* Of every row of a, c has the values at the indexes. *)
SelectedColumns(c, a, ix) ==
    /\ Table(c) /\ c.ndim = 2
    /\ Len(c.rows) = Len(a.rows) /\ DOMAIN c.rows = DOMAIN a.rows
    /\ \A k \in DOMAIN ix : /\ (ix[k] % a.cols) + 1 \in 1 .. a.cols
                            /\ ix[k] >= 0 => ix[k] % a.cols = ix[k]
    /\ \A i \in DOMAIN a.rows :
           c.rows[i] = [k \in DOMAIN ix |-> a.rows[i][(ix[k] % a.cols) + 1]]

(* Columns are a table with as many rows, or raise IndexError. *)
LEMMA ColumnsShape ==
    ASSUME NEW a, Table(a), NEW ix, IsSequence(ix), \A k \in DOMAIN ix : ix[k] \in Int
    PROVE  \/ Columns(a, ix) = Failure("IndexError")
           \/ SelectedColumns(Columns(a, ix), a, ix)
  <1> DEFINE at(k) == (ix[k] % a.cols) + 1
             row(i) == [k \in DOMAIN ix |-> a.rows[i][at(k)]]
             rows == [i \in DOMAIN a.rows |-> row(i)]
             c == [ndim |-> 2, rows |-> rows, cols |-> Len(ix)]
  <1> SUFFICES ASSUME ~ \E k \in DOMAIN ix : ix[k] \notin (-a.cols) .. (a.cols - 1)
               PROVE  /\ Table(c)
                      /\ Len(rows) = Len(a.rows) /\ DOMAIN rows = DOMAIN a.rows
                      /\ \A k \in DOMAIN ix : /\ at(k) \in 1 .. a.cols
                                              /\ ix[k] >= 0 => ix[k] % a.cols = ix[k]
    <2>1. CASE \E k \in DOMAIN ix : ix[k] \notin (-a.cols) .. (a.cols - 1)
      BY <2>1 DEF Columns
    <2>2. CASE ~ \E k \in DOMAIN ix : ix[k] \notin (-a.cols) .. (a.cols - 1)
      <3>1. Columns(a, ix) = c
        BY <2>2 DEF Columns
      <3>2. c.ndim = 2 /\ c.rows = rows
        OBVIOUS
      <3>3. \A i \in DOMAIN a.rows : rows[i] = [k \in DOMAIN ix |->
                                                   a.rows[i][(ix[k] % a.cols) + 1]]
        OBVIOUS
      <3> HIDE DEF c, rows
      <3>4. QED
        BY <2>2, <3>1, <3>2, <3>3 DEF SelectedColumns
    <2>3. QED
      BY <2>1, <2>2
  <1>1. a.cols \in Nat /\ IsSequence(a.rows)
    BY DEF Table
  <1>2. \A k \in DOMAIN ix : /\ at(k) \in 1 .. a.cols
                             /\ ix[k] >= 0 => ix[k] % a.cols = ix[k]
    BY <1>1, Remainder
  <1>3. Len(ix) \in Nat /\ DOMAIN ix = 1 .. Len(ix)
    BY SequenceShape
  <1>4. Len(a.rows) \in Nat /\ DOMAIN a.rows = 1 .. Len(a.rows)
    BY <1>1, SequenceShape
  <1> HIDE DEF at
  <1>5. ASSUME NEW i
        PROVE  IsSequence(row(i)) /\ Len(row(i)) = Len(ix)
    <2>1. DOMAIN row(i) = 1 .. Len(ix) /\ row(i) = [k \in DOMAIN row(i) |-> row(i)[k]]
      BY <1>3
    <2> HIDE DEF row
    <2>2. QED
      BY <1>3, <2>1, SequenceMade
  <1> HIDE DEF row
  <1>6. DOMAIN rows = 1 .. Len(a.rows) /\ rows = [k \in DOMAIN rows |-> rows[k]]
    BY <1>4
  <1>7. \A i \in DOMAIN rows : IsSequence(rows[i]) /\ Len(rows[i]) = Len(ix)
    BY <1>5
  <1> HIDE DEF rows
  <1>8. IsSequence(rows) /\ Len(rows) = Len(a.rows) /\ DOMAIN rows = DOMAIN a.rows
    BY <1>4, <1>6, SequenceMade
  <1>9. Table(c)
    BY <1>3, <1>7, <1>8 DEF Table
  <1>10. QED
    BY <1>2, <1>8, <1>9

(* The settings, read in any state, are as the assumption says. *)
FeatureIndexes(n) ==
    IF settings.features # NoSelector THEN ParseColSelector(settings.features, n)
    ELSE Ascending((0 .. (n - 1)) \ (IF settings.ids = NoSelector THEN {}
                                     ELSE ToSet(ParseColSelector(settings.ids, n))))

(* The columns of the features are a sequence of integers. *)
LEMMA FeatureIndexesShape ==
    ASSUME IsSettings(settings), settings.features # BadSelector,
           settings.features = NoSelector => settings.ids # BadSelector,
           NEW n \in Nat
    PROVE  LET ix == FeatureIndexes(n)
           IN  IsSequence(ix) /\ \A k \in DOMAIN ix : ix[k] \in Int
  <1>1. CASE settings.features # NoSelector
    BY <1>1, SelectorShape DEF IsSettings, FeatureIndexes
  <1>2. CASE settings.features = NoSelector
    <2> DEFINE I == (0 .. (n - 1)) \ (IF settings.ids = NoSelector THEN {}
                                     ELSE ToSet(ParseColSelector(settings.ids, n)))
               ix == Ascending(I)
    <2>1. I \in SUBSET (0 .. n) /\ I \subseteq Int
      OBVIOUS
    <2>2. FeatureIndexes(n) = ix
      BY <1>2 DEF FeatureIndexes
    <2> HIDE DEF I
    <2>3. Cardinality(I) \in Nat /\ ix \in [1 .. Cardinality(I) -> I]
      BY <2>1, AscendingLists
    <2> HIDE DEF ix
    <2>4. DOMAIN ix = 1 .. Cardinality(I) /\ ix = [k \in DOMAIN ix |-> ix[k]]
      BY <2>3
    <2>5. IsSequence(ix)
      BY <2>3, <2>4, SequenceMade
    <2>6. \A k \in DOMAIN ix : ix[k] \in Int
      BY <2>1, <2>3
    <2>7. QED
      BY <2>2, <2>5, <2>6
  <1>3. QED
    BY <1>1, <1>2

(* The features are a table whose rows only have values of their rows. *)
LEMMA FeaturesShape ==
    ASSUME Table(array), IsSettings(settings)
    PROVE  LET c == FeatureColumns
           IN  \/ \E e \in {"ValueError", "IndexError"} : c = Failure(e)
               \/ /\ Table(c) /\ c.ndim = 2
                  /\ Len(c.rows) = Len(array.rows) /\ DOMAIN c.rows = DOMAIN array.rows
                  /\ \A i \in DOMAIN array.rows :
                         ToSet(c.rows[i]) \subseteq ToSet(array.rows[i])
  <1> DEFINE ix == FeatureIndexes(array.cols)
             used == IF settings.features # NoSelector
                     THEN settings.features ELSE settings.ids
  <1>1. FeatureColumns = IF used = BadSelector THEN Failure("ValueError")
                         ELSE Columns(array, ix)
    BY DEF FeatureColumns, FeatureIndexes
  <1>2. CASE used = BadSelector
    BY <1>1, <1>2
  <1>3. CASE used # BadSelector
    <2>1. array.cols \in Nat
      BY DEF Table
    <2>2. settings.features # BadSelector
      BY <1>3 DEF NoSelector, BadSelector
    <2>3. settings.features = NoSelector => settings.ids # BadSelector
      BY <1>3
    <2>4. IsSequence(ix) /\ \A k \in DOMAIN ix : ix[k] \in Int
      BY <2>1, <2>2, <2>3, FeatureIndexesShape
    <2> HIDE DEF ix, used
    <2> DEFINE c == Columns(array, ix)
    <2>5. c = Failure("IndexError") \/ SelectedColumns(c, array, ix)
      BY <2>4, ColumnsShape
    <2> HIDE DEF c
    <2>6. ASSUME NEW i \in DOMAIN array.rows,
                 \A k \in DOMAIN ix : (ix[k] % array.cols) + 1 \in 1 .. array.cols,
                 c.rows[i] = [k \in DOMAIN ix |->
                                 array.rows[i][(ix[k] % array.cols) + 1]]
          PROVE  ToSet(c.rows[i]) \subseteq ToSet(array.rows[i])
      <3>1. DOMAIN array.rows[i] = 1 .. array.cols
        BY SequenceShape DEF Table
      <3>2. \A k \in DOMAIN c.rows[i] :
                \E j \in DOMAIN array.rows[i] : c.rows[i][k] = array.rows[i][j]
        BY <2>6, <3>1
      <3>3. QED
        BY <3>2 DEF ToSet
    <2>7. QED
      BY <1>1, <1>3, <2>5, <2>6 DEF c, SelectedColumns
  <1>4. QED
    BY <1>2, <1>3

(* So are the id columns. *)
LEMMA IdsShape ==
    ASSUME Table(array), IsSettings(settings)
    PROVE  \/ \E e \in {"ValueError", "IndexError"} : IdColumns = Failure(e)
           \/ ~Raised(IdColumns)
  <1>1. CASE settings.ids = NoSelector
    <2>1. IdColumns = NoArray /\ DOMAIN NoArray = {"ndim", "rows", "cols"}
      BY <1>1 DEF IdColumns, NoArray
    <2>2. QED
      BY <2>1 DEF Raised
  <1>2. CASE settings.ids # NoSelector /\ settings.ids = BadSelector
    BY <1>2 DEF IdColumns
  <1>3. CASE settings.ids # NoSelector /\ settings.ids # BadSelector
    <2> DEFINE ix == ParseColSelector(settings.ids, array.cols)
    <2>1. IdColumns = Columns(array, ix)
      BY <1>3 DEF IdColumns
    <2>2. settings.ids \in Selectors /\ array.cols \in Nat
      BY DEF IsSettings, Table
    <2>3. IsSequence(ix) /\ \A k \in DOMAIN ix : ix[k] \in Int
      BY <1>3, <2>2, SelectorShape
    <2>4. \/ IdColumns = Failure("IndexError")
          \/ Table(IdColumns)
      BY <2>1, <2>3, ColumnsShape DEF SelectedColumns
    <2>5. QED
      BY <2>4, TableDoesNotRaise
  <1>4. QED
    BY <1>1, <1>2, <1>3

(* The features that are not selected are those that are no ids: the two   *)
(* are disjoint, as sets of values too when the values of a row differ,    *)
(* and leave nothing out.                                                  *)
LEMMA IdsAndFeatures ==
    ASSUME Table(array), IsSettings(settings),
           ~Raised(FeatureColumns), ~Raised(IdColumns),
           settings.ids # NoSelector, settings.features = NoSelector,
           settings.ids.form = "indexes" =>
               \A k \in DOMAIN settings.ids.indexes : settings.ids.indexes[k] >= 0,
           NEW i \in DOMAIN array.rows,
           \A j, k \in DOMAIN array.rows[i] :
               array.rows[i][j] = array.rows[i][k] => j = k
    PROVE  LET f == ToSet(FeatureColumns.rows[i])
               d == ToSet(IdColumns.rows[i])
           IN  d \cap f = {} /\ d \cup f = ToSet(array.rows[i])
  <1> DEFINE n == array.cols
             row == array.rows[i]
             idx == ParseColSelector(settings.ids, n)
             I == (0 .. (n - 1)) \ ToSet(idx)
             fdx == Ascending(I)
             f == FeatureColumns.rows[i]
             d == IdColumns.rows[i]
  <1>1. settings.ids # BadSelector
    <2>1. settings.ids = BadSelector => FeatureColumns = Failure("ValueError")
      BY DEF FeatureColumns
    <2>2. QED
      BY <2>1, FailureRaises
  <1>2. FeatureColumns = Columns(array, fdx) /\ IdColumns = Columns(array, idx)
    BY <1>1 DEF FeatureColumns, IdColumns
  <1>3. n \in Nat /\ DOMAIN row = 1 .. n
    BY SequenceShape DEF Table
  <1>4. settings.ids \in Selectors
    BY DEF IsSettings
  <1>5. /\ IsSequence(idx)
        /\ \A k \in DOMAIN idx : idx[k] \in Int /\ idx[k] >= 0
    <2>1. /\ IsSequence(idx)
          /\ \A k \in DOMAIN idx : idx[k] \in Int
          /\ settings.ids.form # "indexes" => \A k \in DOMAIN idx : idx[k] >= 0
          /\ settings.ids.form = "indexes" => idx = settings.ids.indexes
      BY <1>1, <1>3, <1>4, SelectorShape
    <2> HIDE DEF idx
    <2>2. QED
      BY <2>1
  <1> HIDE DEF idx
  <1>6. I \in SUBSET (0 .. n) /\ I \subseteq Int /\ \A x \in I : x >= 0
    BY <1>3
  <1>7. /\ Cardinality(I) \in Nat
        /\ fdx \in [1 .. Cardinality(I) -> I]
        /\ \A x \in I : \E k \in 1 .. Cardinality(I) : fdx[k] = x
    <2> HIDE DEF I, n
    <2>1. QED
      BY <1>3, <1>6, AscendingLists
  <1> HIDE DEF fdx
  <1>8. IsSequence(fdx) /\ \A k \in DOMAIN fdx : fdx[k] \in I
    <2>1. DOMAIN fdx = 1 .. Cardinality(I) /\ fdx = [k \in DOMAIN fdx |-> fdx[k]]
      BY <1>7
    <2>2. IsSequence(fdx)
      BY <1>7, <2>1, SequenceMade
    <2>3. QED
      BY <1>7, <2>1, <2>2
  <1>9. ASSUME NEW ix, IsSequence(ix), \A k \in DOMAIN ix : ix[k] \in Int /\ ix[k] >= 0,
               ~Raised(Columns(array, ix))
        PROVE  /\ \A k \in DOMAIN ix : ix[k] \in 0 .. (n - 1)
               /\ Columns(array, ix).rows[i] = [k \in DOMAIN ix |-> row[ix[k] + 1]]
    <2> DEFINE c == Columns(array, ix)
    <2>1. c # Failure("IndexError")
      BY <1>9, FailureRaises
    <2>2. /\ \A k \in DOMAIN ix : /\ (ix[k] % n) + 1 \in 1 .. n
                                  /\ ix[k] >= 0 => ix[k] % n = ix[k]
          /\ c.rows[i] = [k \in DOMAIN ix |-> row[(ix[k] % n) + 1]]
      <3>1. SelectedColumns(c, array, ix)
        BY <1>9, <2>1, ColumnsShape
      <3>2. QED
        BY <3>1 DEF SelectedColumns
    <2> HIDE DEF c
    <2>3. \A k \in DOMAIN ix : ix[k] % n = ix[k]
      BY <1>9, <2>2
    <2>4. \A k \in DOMAIN ix : ix[k] \in 0 .. (n - 1)
      BY <1>3, <1>9, <2>2, <2>3
    <2>5. c.rows[i] = [k \in DOMAIN ix |-> row[ix[k] + 1]]
      BY <2>2, <2>3
    <2>6. QED
      BY <2>4, <2>5 DEF c
  <1>10. /\ \A k \in DOMAIN idx : idx[k] \in 0 .. (n - 1)
         /\ d = [k \in DOMAIN idx |-> row[idx[k] + 1]]
    BY <1>2, <1>5, <1>9
  <1>11. f = [k \in DOMAIN fdx |-> row[fdx[k] + 1]]
    <2>1. \A k \in DOMAIN fdx : fdx[k] \in Int /\ fdx[k] >= 0
      BY <1>6, <1>8
    <2>2. QED
      BY <1>2, <1>8, <1>9, <2>1
  <1> HIDE DEF f, d
  <1>12. ToSet(d) = {row[x + 1] : x \in ToSet(idx)}
    BY <1>10 DEF ToSet
  <1>13. ToSet(f) = {row[x + 1] : x \in I}
    <2>1. ToSet(f) = {row[fdx[k] + 1] : k \in DOMAIN fdx}
      BY <1>11 DEF ToSet
    <2>2. \A x \in I : \E k \in DOMAIN fdx : fdx[k] = x
      BY <1>7
    <2> HIDE DEF I
    <2>3. QED
      BY <1>8, <2>1, <2>2
  <1>14. ToSet(idx) \subseteq 0 .. (n - 1)
    BY <1>10 DEF ToSet
  <1>15. \A x, y \in 0 .. (n - 1) : row[x + 1] = row[y + 1] => x = y
    <2>1. \A x \in 0 .. (n - 1) : x + 1 \in DOMAIN row
      BY <1>3
    <2>2. ASSUME NEW x \in 0 .. (n - 1), NEW y \in 0 .. (n - 1), row[x + 1] = row[y + 1]
          PROVE  x = y
      <3>1. x + 1 = y + 1
        BY <2>1, <2>2
      <3>2. QED
        BY <1>3, <3>1
    <2>3. QED
      BY <2>2
  <1>16. ToSet(row) = {row[x + 1] : x \in 0 .. (n - 1)}
    <2>1. \A j \in 1 .. n : j - 1 \in 0 .. (n - 1) /\ (j - 1) + 1 = j
      BY <1>3
    <2>2. \A x \in 0 .. (n - 1) : x + 1 \in 1 .. n
      BY <1>3
    <2>3. ToSet(row) = {row[j] : j \in 1 .. n}
      BY <1>3 DEF ToSet
    <2> HIDE DEF row, n
    <2>4. QED
      BY <2>1, <2>2, <2>3
  <1> HIDE DEF row, n
  <1>17. QED
    BY <1>12, <1>13, <1>14, <1>15, <1>16 DEF f, d, row

------------------------------------------------------------------------------
(* The lines of a CSV body *)

(* The places of lines that are not blank are numbers. *)
LEMMA FilledNumbers ==
    ASSUME NEW s, IsSequence(s)
    PROVE  /\ Len(s) \in Nat
           /\ Filled(s) \in SUBSET (0 .. Len(s))
           /\ Filled(s) \in SUBSET (1 .. Len(s))
           /\ Filled(s) \subseteq DOMAIN s
  BY SequenceShape DEF Filled

(* The lines that are kept are lines of the body, and not blank. *)
LEMMA NonBlankShape ==
    ASSUME NEW s, IsSequence(s)
    PROVE  /\ IsSequence(NonBlank(s))
           /\ \A k \in DOMAIN NonBlank(s) :
                  \E i \in DOMAIN s : s[i] # << >> /\ NonBlank(s)[k] = s[i]
  <1> DEFINE I == Filled(s)
             h == Ascending(I)
             t == NonBlank(s)
  <1>1. Len(s) \in Nat /\ I \in SUBSET (0 .. Len(s))
    BY FilledNumbers
  <1>2. Cardinality(I) \in Nat /\ h \in [1 .. Cardinality(I) -> I]
    BY <1>1, AscendingLists
  <1>3. t = [k \in DOMAIN h |-> s[h[k]]]
    BY DEF NonBlank
  <1> HIDE DEF h, t
  <1>4. /\ DOMAIN t = 1 .. Cardinality(I)
        /\ t = [k \in DOMAIN t |-> t[k]]
        /\ \A k \in DOMAIN t : h[k] \in I /\ t[k] = s[h[k]]
    BY <1>2, <1>3
  <1>5. IsSequence(t)
    BY <1>2, <1>4, SequenceMade
  <1>6. \A k \in DOMAIN t : \E i \in DOMAIN s : s[i] # << >> /\ t[k] = s[i]
    BY <1>4 DEF Filled
  <1>7. QED
    BY <1>5, <1>6 DEF t

(* Of lines without blank ones all are kept. *)
LEMMA NonBlankAll ==
    ASSUME NEW s, IsSequence(s), \A i \in DOMAIN s : s[i] # << >>
    PROVE  NonBlank(s) = s
  <1> DEFINE I == Filled(s)
             n == Len(s)
             g == [k \in 1 .. n |-> k]
  <1>1. n \in Nat /\ DOMAIN s = 1 .. n /\ s = [i \in 1 .. n |-> s[i]]
    BY SequenceShape
  <1>2. I = 1 .. n
    BY <1>1 DEF Filled
  <1>3. Cardinality(I) = n
    BY <1>1, <1>2, FS_Interval
  <1> HIDE DEF I, n
  <1>4. I \in SUBSET (0 .. n)
    BY <1>1, <1>2
  <1>5. g \in [1 .. Cardinality(I) -> I] /\ Increasing(g)
    BY <1>2, <1>3 DEF Increasing
  <1>6. g = Ascending(I)
    BY <1>1, <1>4, <1>5, AscendingUnique
  <1>7. NonBlank(s) = [k \in DOMAIN g |-> s[g[k]]]
    BY <1>6 DEF NonBlank, I
  <1>8. QED
    BY <1>1, <1>7

(* Stripping leaves the lines from the first to the last that is not blank. *)
LEMMA StrippedShape ==
    ASSUME NEW s, IsSequence(s), Filled(s) # {}
    PROVE  \E a, b \in Filled(s) :
               /\ \A k \in Filled(s) : a <= k /\ k <= b
               /\ IsSequence(Stripped(s)) /\ Len(Stripped(s)) = b - a + 1
               /\ \A i \in 1 .. b - a + 1 : Stripped(s)[i] = s[a + i - 1]
  <1> DEFINE I == Filled(s)
             t == Stripped(s)
             a == CHOOSE i \in I : \A k \in I : i <= k
             b == CHOOSE i \in I : \A k \in I : i >= k
  <1>1. /\ Len(s) \in Nat /\ DOMAIN s = 1 .. Len(s)
        /\ I \in SUBSET (1 .. Len(s)) /\ I \subseteq Nat
    BY FilledNumbers, SequenceShape
  <1>2. t = SubSeq(s, a, b)
    BY DEF Stripped
  <1>3. a \in I /\ \A k \in I : a <= k
    <2>1. \E i \in I : \A k \in I : i <= k
      BY <1>1, LeastNat
    <2> HIDE DEF I
    <2>2. QED
      BY <2>1
  <1>4. b \in I /\ \A k \in I : b >= k
    <2> DEFINE T == {Len(s) - i : i \in I}
    <2>1. T \subseteq Nat /\ T # {}
      BY <1>1
    <2>2. PICK d \in T : \A e \in T : d <= e
      BY <2>1, LeastNat
    <2>3. PICK i \in I : d = Len(s) - i
      BY <2>2
    <2>4. \A k \in I : Len(s) - i <= Len(s) - k
      BY <2>2, <2>3
    <2>5. \A k \in I : i >= k
      BY <1>1, <2>3, <2>4
    <2> HIDE DEF I
    <2>6. QED
      BY <2>5
  <1> HIDE DEF a, b, t
  <1>5. a \in 1 .. Len(s) /\ b \in 1 .. Len(s) /\ a <= b
    BY <1>1, <1>3, <1>4
  <1>6. /\ t \in Seq(ToSet(s)) /\ Len(t) = b - a + 1
        /\ \A i \in 1 .. b - a + 1 : t[i] = s[a + i - 1]
    <2>1. \A i \in a .. b : s[i] \in ToSet(s)
      BY <1>1, <1>5 DEF ToSet
    <2>2. a \in Int /\ b \in Int
      BY <1>1, <1>5
    <2>3. /\ SubSeq(s, a, b) \in Seq(ToSet(s))
          /\ Len(SubSeq(s, a, b)) = IF a <= b THEN b - a + 1 ELSE 0
          /\ \A i \in 1 .. b - a + 1 : SubSeq(s, a, b)[i] = s[a + i - 1]
      BY <2>1, <2>2, SubSeqProperties
    <2>4. QED
      BY <1>2, <1>5, <2>3
  <1>7. IsSequence(t)
    BY <1>6, SequenceOf
  <1>8. \A k \in I : a <= k /\ k <= b
    BY <1>1, <1>3, <1>4
  <1> HIDE DEF I
  <1>9. QED
    BY <1>3, <1>4, <1>6, <1>7, <1>8 DEF t, I

(* Stripping drops blank lines only. *)
LEMMA NonBlankOfStripped ==
    ASSUME NEW s, IsSequence(s)
    PROVE  IsSequence(Stripped(s)) /\ NonBlank(Stripped(s)) = NonBlank(s)
  <1> DEFINE I == Filled(s)
             t == Stripped(s)
             J == Filled(t)
  <1>1. /\ Len(s) \in Nat /\ DOMAIN s = 1 .. Len(s)
        /\ I \in SUBSET (0 .. Len(s)) /\ I \in SUBSET (1 .. Len(s))
    BY FilledNumbers, SequenceShape
  <1>2. CASE I = {}
    <2>1. t = << >>
      BY <1>2 DEF Stripped
    <2>2. IsSequence(t) /\ J = I
      BY <1>2, <2>1 DEF IsSequence, Filled
    <2>3. DOMAIN Ascending(I) = {}
      <3>1. Cardinality(I) = 0 /\ 1 .. 0 = {}
        BY <1>2, FS_EmptySet
      <3>2. QED
        BY <1>1, <3>1, AscendingLists
    <2>4. NonBlank(t) = [k \in DOMAIN Ascending(I) |-> t[Ascending(I)[k]]]
      BY <2>2 DEF NonBlank
    <2>5. NonBlank(s) = [k \in DOMAIN Ascending(I) |-> s[Ascending(I)[k]]]
      BY DEF NonBlank
    <2>6. QED
      BY <2>2, <2>3, <2>4, <2>5
  <1>3. CASE I # {}
    <2>1. PICK a \in I, b \in I :
              /\ \A k \in I : a <= k /\ k <= b
              /\ IsSequence(t) /\ Len(t) = b - a + 1
              /\ \A i \in 1 .. b - a + 1 : t[i] = s[a + i - 1]
      BY <1>3, StrippedShape
    <2> DEFINE m == b - a + 1
    <2>2. \A k \in I : a <= k
      BY <2>1
    <2>3. \A k \in I : b >= k
      BY <1>1, <2>1
    <2>4. a \in 1 .. Len(s) /\ b \in 1 .. Len(s) /\ a <= b
      BY <1>1, <2>2
    <2>5. m \in Nat
      BY <1>1, <2>4
    <2>6. Len(t) = m /\ \A i \in 1 .. m : t[i] = s[a + i - 1]
      BY <2>1
    <2>7. IsSequence(t) /\ DOMAIN t = 1 .. m
      BY <2>1, <2>6, SequenceShape
    <2> HIDE DEF t, m
    <2>8. J = {i \in 1 .. m : s[a + i - 1] # << >>}
      BY <2>6, <2>7 DEF Filled
    <2>9. \A i \in J : i + a - 1 \in I
      BY <1>1, <2>4, <2>8 DEF Filled, m
    <2>10. \A i \in I : i - a + 1 \in J /\ (i - a + 1) + a - 1 = i
      <3>1. ASSUME NEW i \in I PROVE i - a + 1 \in 1 .. m
        BY <1>1, <2>2, <2>3, <2>4 DEF m
      <3>2. ASSUME NEW i \in I PROVE a + (i - a + 1) - 1 = i
        BY <1>1, <2>4
      <3>3. \A i \in I : s[i] # << >>
        BY DEF Filled
      <3>4. QED
        BY <1>1, <2>4, <2>8, <3>1, <3>2, <3>3
    <2>11. J \subseteq 1 .. m /\ J \in SUBSET (0 .. m)
      BY <2>5, <2>8
    <2> HIDE DEF J, I
    <2>12. IsFiniteSet(J) /\ Cardinality(J) \in Nat
           /\ Ascending(J) \in [1 .. Cardinality(J) -> J] /\ Increasing(Ascending(J))
      BY <2>5, <2>11, AscendingLists
    <2>13. Cardinality(I) = Cardinality(J)
      <3> DEFINE f == [i \in J |-> i + a - 1]
      <3>1. f \in [J -> I]
        BY <2>9
      <3>2. \A i, k \in J : f[i] = f[k] => i = k
        BY <2>4, <2>5, <2>11
      <3>3. \A i \in I : \E k \in J : f[k] = i
        BY <2>10
      <3>4. f \in Bijection(J, I)
        BY <3>1, <3>2, <3>3 DEF Bijection, Injection, Surjection, IsInjective
      <3> HIDE DEF f
      <3>5. ExistsBijection(J, I)
        BY <3>4 DEF ExistsBijection
      <3>6. QED
        BY <2>12, <3>5, FS_Bijection
    <2> DEFINE h == Ascending(J)
               g == [k \in 1 .. Cardinality(J) |-> h[k] + a - 1]
    <2>14. g \in [1 .. Cardinality(I) -> I]
      BY <2>9, <2>12, <2>13
    <2>15. Increasing(g)
      <3>1. \A k \in 1 .. Cardinality(J) : h[k] \in Int
        <4>1. J \subseteq Int
          BY <2>5, <2>11
        <4>2. \A k \in 1 .. Cardinality(J) : h[k] \in J
          BY <2>12
        <4> HIDE DEF h
        <4>3. QED
          BY <4>1, <4>2
      <3>2. a \in Int
        BY <2>4
      <3>3. \A k, l \in 1 .. Cardinality(J) : k < l => h[k] < h[l]
        BY <2>12 DEF Increasing
      <3> HIDE DEF h
      <3>4. \A k, l \in 1 .. Cardinality(J) : k < l => g[k] < g[l]
        BY <3>1, <3>2, <3>3
      <3>5. QED
        BY <3>4 DEF Increasing
    <2>16. g = Ascending(I)
      BY <1>1, <2>14, <2>15, AscendingUnique
    <2>17. NonBlank(t) = [k \in DOMAIN h |-> t[h[k]]]
      BY DEF NonBlank, J
    <2>18. NonBlank(s) = [k \in DOMAIN g |-> s[g[k]]]
      BY <2>16 DEF NonBlank, I
    <2>19. \A k \in 1 .. Cardinality(J) : t[h[k]] = s[g[k]]
      <3>1. \A k \in 1 .. Cardinality(J) : h[k] \in 1 .. m
        BY <2>11, <2>12
      <3>2. \A i \in 1 .. m : a + i - 1 = i + a - 1
        BY <2>4, <2>5
      <3> HIDE DEF h
      <3>3. QED
        BY <2>6, <3>1, <3>2
    <2>20. DOMAIN h = 1 .. Cardinality(J) /\ DOMAIN g = 1 .. Cardinality(J)
      BY <2>12
    <2> HIDE DEF h, g
    <2>21. NonBlank(t) = NonBlank(s)
      BY <2>17, <2>18, <2>19, <2>20
    <2>22. QED
      BY <2>7, <2>21 DEF t
  <1>4. QED
    BY <1>2, <1>3

(* The stripped lines are consecutive lines of the body. *)
LEMMA StrippedLines ==
    ASSUME NEW s, IsSequence(s), Stripped(s) # << >>
    PROVE  /\ Filled(s) # {} /\ Stripped(s)[1] # << >>
           /\ \A k \in DOMAIN Stripped(s) : \E i \in DOMAIN s : Stripped(s)[k] = s[i]
  <1> DEFINE t == Stripped(s)
             I == Filled(s)
  <1>1. /\ Len(s) \in Nat /\ DOMAIN s = 1 .. Len(s)
        /\ I \in SUBSET (1 .. Len(s))
    BY FilledNumbers, SequenceShape
  <1>2. I # {}
    BY DEF Stripped
  <1>3. PICK a \in I, b \in I :
            /\ \A k \in I : a <= k /\ k <= b
            /\ IsSequence(t) /\ Len(t) = b - a + 1
            /\ \A i \in 1 .. b - a + 1 : t[i] = s[a + i - 1]
    BY <1>2, StrippedShape
  <1>4. a \in 1 .. Len(s) /\ b \in 1 .. Len(s) /\ a <= b /\ s[a] # << >>
    BY <1>1, <1>3 DEF Filled
  <1> HIDE DEF I, t
  <1>5. t[1] # << >>
    <2>1. 1 \in 1 .. b - a + 1 /\ a + 1 - 1 = a
      BY <1>1, <1>4
    <2>2. QED
      BY <1>3, <1>4, <2>1
  <1>6. ASSUME NEW k \in DOMAIN t PROVE \E i \in DOMAIN s : t[k] = s[i]
    <2>1. k \in 1 .. b - a + 1
      BY <1>3, SequenceShape
    <2>2. a + k - 1 \in DOMAIN s /\ t[k] = s[a + k - 1]
      BY <1>1, <1>3, <1>4, <2>1
    <2>3. QED
      BY <2>2
  <1>7. QED
    BY <1>2, <1>5, <1>6 DEF t, I

Kept(lines) ==
    IF settings.skipBlank THEN NonBlank(Stripped(lines)) ELSE Stripped(lines)
DropsHeader(lines) ==
    \/ settings.hasHeader = "true"
    \/ settings.hasHeader = "auto" /\ ~IsNumeric(Kept(lines)[1])

(* CsvRows in terms of the lines that are kept. *)
LEMMA CsvRowsByKept ==
    ASSUME NEW lines
    PROVE  CsvRows(lines) = IF DropsHeader(lines) THEN Tail(Kept(lines)) ELSE Kept(lines)
  BY DEF CsvRows, Kept, DropsHeader

(* What is kept comes from the body, begins with a line that is not blank, *)
(* and without blank lines it is all the lines that are not.               *)
LEMMA KeptShape ==
    ASSUME NEW lines, IsSequence(lines), Stripped(lines) # << >>
    PROVE  LET kept == Kept(lines)
           IN  /\ IsSequence(kept) /\ kept # << >> /\ kept[1] # << >>
               /\ \A k \in DOMAIN kept : \E i \in DOMAIN lines : kept[k] = lines[i]
               /\ (\A k \in DOMAIN kept : kept[k] # << >>) => kept = NonBlank(lines)
  <1> DEFINE s == Stripped(lines)
  <1>1. IsSequence(s) /\ NonBlank(s) = NonBlank(lines)
    BY NonBlankOfStripped
  <1>2. s[1] # << >> /\ Filled(lines) # {}
    BY StrippedLines
  <1>3. /\ IsSequence(NonBlank(lines))
        /\ \A k \in DOMAIN NonBlank(lines) :
               \E i \in DOMAIN lines :
                   lines[i] # << >> /\ NonBlank(lines)[k] = lines[i]
    BY NonBlankShape
  <1>4. NonBlank(lines) # << >>
    <2>1. /\ Len(lines) \in Nat /\ Filled(lines) \in SUBSET (0 .. Len(lines))
      BY FilledNumbers
    <2>2. \E k \in 1 .. Cardinality(Filled(lines)) : TRUE
      BY <1>2, <2>1, AscendingLists
    <2>3. Ascending(Filled(lines)) \in [1 .. Cardinality(Filled(lines)) -> Filled(lines)]
      BY <2>1, AscendingLists
    <2>4. DOMAIN NonBlank(lines) = 1 .. Cardinality(Filled(lines))
      BY <2>3 DEF NonBlank
    <2>5. DOMAIN << >> = 1 .. 0 /\ 1 .. 0 = {}
      OBVIOUS
    <2>6. QED
      BY <2>2, <2>4, <2>5
  <1>5. 1 \in DOMAIN NonBlank(lines)
    BY <1>3, <1>4, SequenceShape
  <1>6. CASE settings.skipBlank
    <2>1. Kept(lines) = NonBlank(lines)
      BY <1>1, <1>6 DEF Kept
    <2>2. QED
      BY <1>3, <1>4, <1>5, <2>1
  <1>7. CASE ~settings.skipBlank
    <2>1. Kept(lines) = s
      BY <1>7 DEF Kept
    <2>2. \A k \in DOMAIN s : \E i \in DOMAIN lines : s[k] = lines[i]
      BY StrippedLines
    <2>3. (\A k \in DOMAIN s : s[k] # << >>) => s = NonBlank(lines)
      BY <1>1, NonBlankAll
    <2> HIDE DEF s
    <2>4. s # << >>
      BY DEF s
    <2>5. QED
      BY <1>1, <1>2, <2>1, <2>2, <2>3, <2>4 DEF s
  <1>8. QED
    BY <1>6, <1>7

------------------------------------------------------------------------------
(* The table that is loaded, and the records of the body *)

Numbers(a) ==
    \A i \in DOMAIN a.rows : \A j \in DOMAIN a.rows[i] : a.rows[i][j].kind = "number"
Apart(rows) ==
    \A i \in DOMAIN rows : \A j, k \in DOMAIN rows[i] : rows[i][j] = rows[i][k] => j = k

(* If it casts to numbers, its rows are the records, and the values of a   *)
(* row differ.                                                             *)
Faithful(a) == Numbers(a) => a.rows = Records /\ Apart(a.rows)

(* The cells of a row know their place, so that no two are the same. *)
LEMMA RowShape ==
    ASSUME NEW s, NEW i, IsRow(s, i)
    PROVE  /\ IsSequence(s)
           /\ \A j, k \in DOMAIN s : s[j] = s[k] => j = k
           /\ \A j \in DOMAIN s : s[j].kind \notin {"list", "object"}
  <1>1. IsSequence(s)
    BY SequenceOf DEF IsRow
  <1>2. \A j \in DOMAIN s : s[j] \in Cells /\ s[j].at = <<i, j>>
    BY DEF IsRow
  <1>3. ASSUME NEW j \in DOMAIN s, NEW k \in DOMAIN s, s[j] = s[k]
        PROVE  j = k
    <2>1. <<i, j>> = <<i, k>>
      BY <1>2, <1>3
    <2>2. QED
      BY <2>1
  <1>4. \A j \in DOMAIN s : s[j].kind \notin {"list", "object"}
    BY <1>2 DEF Cells
  <1>5. QED
    BY <1>1, <1>3, <1>4

(* A field is a scalar or a vector of cells. *)
LEMMA FieldShape ==
    ASSUME NEW v, NEW i, IsField(v, i)
    PROVE  /\ v.kind = "list" => IsRow(v.items, i)
           /\ v.kind # "list" => v \in Cells /\ v.at = <<i, 1>>
           /\ v.kind # "object"
  BY DEF IsField, Cells

(* What a record may hold, by its kind. *)
LEMMA RecordShape ==
    ASSUME NEW v, NEW i, IsRecord(v, i)
    PROVE  /\ v.kind = "list" => IsRow(v.items, i)
           /\ v.kind = "number" => v.at = <<i, 1>>
           /\ \A key : HasKey(v, key) => IsField(v.fields[key], i)
           /\ \A key : At(v, key).kind # "object" => IsField(At(v, key), i)
  <1>1. \/ IsField(v, i) /\ v.kind # "object"
        \/ v.kind = "object" /\ \A key \in DOMAIN v.fields : IsField(v.fields[key], i)
    BY FieldShape DEF IsRecord
  <1>2. CASE IsField(v, i) /\ v.kind # "object"
    BY <1>2, FieldShape DEF HasKey, At
  <1>3. CASE v.kind = "object" /\ \A key \in DOMAIN v.fields : IsField(v.fields[key], i)
    BY <1>3 DEF HasKey, At
  <1>4. QED
    BY <1>1, <1>2, <1>3

(* The table of a list of vectors and scalars. *)
LEMMA ListTable ==
    ASSUME NEW items, IsSequence(items),
           \A i \in DOMAIN items :
               /\ items[i].kind = "list" => \E n : IsRow(items[i].items, n)
               /\ items[i].kind = "number" => items[i].at = <<i, 1>>
    PROVE  LET a == AsArray(List(items))
           IN  \/ a = Failure("ValueError")
               \/ /\ Table(a)
                  /\ Numbers(a) => Apart(a.rows)
                  /\ \/ /\ a.ndim = 1 /\ a.rows = <<items>>
                        /\ \A i \in DOMAIN items : items[i].kind # "list"
                     \/ /\ a.ndim = 2 /\ a.rows = [i \in DOMAIN items |-> items[i].items]
                        /\ items # << >>
                        /\ \A i \in DOMAIN items : items[i].kind = "list"
  <1> DEFINE a == AsArray(List(items))
  <1>1. \A i \in DOMAIN items : items[i].kind = "list" => IsSequence(items[i].items)
    BY RowShape
  <1>2. \/ a = Failure("ValueError")
        \/ /\ Table(a)
           /\ a.ndim = 1 /\ a.rows = <<items>>
           /\ \A i \in DOMAIN items : items[i].kind # "list"
        \/ /\ Table(a)
           /\ a.ndim = 2
           /\ a.rows = [i \in DOMAIN items |-> items[i].items]
           /\ items # << >>
           /\ \A i \in DOMAIN items : items[i].kind = "list"
    BY <1>1, ArrayOfList
  <1> HIDE DEF a
  <1>3. ASSUME a.rows = <<items>>, Numbers(a)
        PROVE  Apart(a.rows)
    <2>1. DOMAIN a.rows = {1} /\ a.rows[1] = items
      BY <1>3
    <2>2. \A j \in DOMAIN items : items[j].kind = "number"
      BY <1>3, <2>1 DEF Numbers
    <2>3. \A j \in DOMAIN items : items[j].at = <<j, 1>>
      BY <2>2
    <2>4. ASSUME NEW j \in DOMAIN items, NEW k \in DOMAIN items, items[j] = items[k]
          PROVE  j = k
      <3>1. <<j, 1>> = <<k, 1>>
        BY <2>3, <2>4
      <3>2. QED
        BY <3>1
    <2>5. QED
      BY <2>1, <2>4 DEF Apart
  <1>4. ASSUME a.rows = [i \in DOMAIN items |-> items[i].items],
               \A i \in DOMAIN items : items[i].kind = "list"
        PROVE  Apart(a.rows)
    <2>1. \A i \in DOMAIN items : \A j, k \in DOMAIN items[i].items :
              items[i].items[j] = items[i].items[k] => j = k
      BY <1>4, RowShape
    <2>2. QED
      BY <1>4, <2>1 DEF Apart
  <1>5. QED
    BY <1>2, <1>3, <1>4 DEF a

(* CSV: the lines without the blank ones and the header. *)
LEMMA CsvTable ==
    ASSUME IsBody(body), body.format = "csv", Stripped(body.lines) # << >>,
           \A i \in DOMAIN CsvRows(body.lines) : CsvRows(body.lines)[i] # << >>
    PROVE  LET a == AsArray(List([i \in DOMAIN CsvRows(body.lines) |->
                                      List(CsvRows(body.lines)[i])]))
           IN  \/ a = Failure("ValueError")
               \/ Table(a) /\ (Clear => Faithful(a))
  <1> DEFINE lines == body.lines
             kept == Kept(lines)
             rows == CsvRows(lines)
             items == [i \in DOMAIN rows |-> List(rows[i])]
             a == AsArray(List(items))
  <1>1. /\ body.header \in BOOLEAN /\ IsSequence(lines)
        /\ \A i \in DOMAIN lines : IsRow(lines[i], i)
    BY DEF IsBody
  <1>2. /\ IsSequence(kept) /\ kept # << >> /\ kept[1] # << >>
        /\ \A k \in DOMAIN kept : \E i \in DOMAIN lines : kept[k] = lines[i]
        /\ (\A k \in DOMAIN kept : kept[k] # << >>) => kept = NonBlank(lines)
    BY <1>1, KeptShape
  <1>3. rows = IF DropsHeader(lines) THEN Tail(kept) ELSE kept
    BY CsvRowsByKept
  <1> HIDE DEF kept
  <1>4. /\ IsSequence(Tail(kept))
        /\ \A k \in DOMAIN Tail(kept) :
               k + 1 \in DOMAIN kept /\ Tail(kept)[k] = kept[k + 1]
        /\ \A k \in DOMAIN kept : k # 1 => k - 1 \in DOMAIN Tail(kept)
                                           /\ Tail(kept)[k - 1] = kept[k]
    <2>1. kept \in Seq(ToSet(kept))
      BY <1>2 DEF IsSequence
    <2>2. Tail(kept) \in Seq(ToSet(kept))
      BY <1>2, <2>1
    <2>3. IsSequence(Tail(kept))
      BY <2>2, SequenceOf
    <2>4. QED
      BY <1>2, <2>1, <2>3
  <1>5. /\ IsSequence(rows)
        /\ \A k \in DOMAIN rows : \E i \in DOMAIN lines : rows[k] = lines[i]
    BY <1>2, <1>3, <1>4
  <1>6. kept = NonBlank(lines)
    <2>1. \A k \in DOMAIN kept : k = 1 \/ kept[k] # << >>
      <3>1. CASE DropsHeader(lines)
        BY <1>3, <1>4, <3>1
      <3>2. CASE ~DropsHeader(lines)
        BY <1>3, <3>2
      <3>3. QED
        BY <3>1, <3>2
    <2>2. \A k \in DOMAIN kept : kept[k] # << >>
      BY <1>2, <2>1
    <2>3. QED
      BY <1>2, <2>2
  <1> HIDE DEF rows
  <1>7. /\ IsSequence(items)
        /\ \A i \in DOMAIN rows : items[i].kind = "list" /\ items[i].items = rows[i]
        /\ DOMAIN items = DOMAIN rows
    <2>1. /\ DOMAIN items = 1 .. Len(rows) /\ Len(rows) \in Nat
          /\ items = [i \in DOMAIN items |-> items[i]]
      BY <1>5, SequenceShape
    <2>2. IsSequence(items)
      BY <2>1, SequenceMade
    <2>3. QED
      BY <2>2 DEF List
  <1> HIDE DEF items
  <1>8. \A k \in DOMAIN items : \E n : IsRow(items[k].items, n)
    BY <1>1, <1>5, <1>7
  <1>9. \/ a = Failure("ValueError")
        \/ /\ Table(a)
           /\ Numbers(a) => Apart(a.rows)
           /\ \/ a.rows = <<items>> /\ \A i \in DOMAIN items : items[i].kind # "list"
              \/ a.rows = [i \in DOMAIN items |-> items[i].items]
    BY <1>7, <1>8, ListTable
  <1> HIDE DEF a
  <1>10. ASSUME Clear PROVE rows = Records /\ rows # << >>
    <2> DEFINE full == NonBlank(lines)
    <2>1. /\ full # << >>
          /\ body.header <=> \/ settings.hasHeader = "true"
                             \/ settings.hasHeader = "auto" /\ ~IsNumeric(full[1])
          /\ Records # << >>
      BY <1>10 DEF Clear
    <2>2. body.header <=> DropsHeader(lines)
      BY <1>6, <2>1 DEF DropsHeader, kept
    <2>3. Records = IF body.header /\ full # << >> THEN Tail(full) ELSE full
      BY DEF Records
    <2> HIDE DEF full
    <2>4. Records = rows
      BY <1>3, <1>6, <2>1, <2>2, <2>3 DEF full
    <2>5. QED
      BY <2>1, <2>4
  <1>11. ASSUME Clear, Table(a), Numbers(a) => Apart(a.rows),
                \/ a.rows = <<items>> /\ \A i \in DOMAIN items : items[i].kind # "list"
                \/ a.rows = [i \in DOMAIN items |-> items[i].items]
         PROVE  Faithful(a)
    <2>1. rows = Records /\ 1 \in DOMAIN rows
      BY <1>5, <1>10, <1>11, SequenceShape
    <2>2. a.rows = [i \in DOMAIN items |-> items[i].items]
      BY <1>7, <1>11, <2>1
    <2>3. a.rows = [i \in DOMAIN rows |-> rows[i]]
      BY <1>7, <2>2
    <2>4. rows = [i \in DOMAIN rows |-> rows[i]]
      BY <1>5, SequenceShape
    <2>5. a.rows = Records
      BY <2>1, <2>3, <2>4
    <2>6. QED
      BY <1>11, <2>5 DEF Faithful
  <1>12. QED
    BY <1>9, <1>11 DEF a, items, rows

(* A sequence of length one. *)
LEMMA OneElement ==
    ASSUME NEW e
    PROVE  [i \in {1} |-> e] = <<e>>
  <1> DEFINE s == [i \in {1} |-> e]
             t == <<e>>
  <1>1. DOMAIN s = 1 .. 1 /\ s = [i \in DOMAIN s |-> s[i]] /\ s[1] = e
    OBVIOUS
  <1>2. /\ Len(t) = 1 /\ DOMAIN t = {1} /\ t[1] = e
        /\ t = [i \in 1 .. Len(t) |-> t[i]]
    BY Singleton, SequenceShape
  <1> HIDE DEF s, t
  <1>3. QED
    BY <1>1, <1>2 DEF s, t

(* JSON: a vector is a record of its own, a table has one in each row.      *)
LEMMA JsonTable ==
    ASSUME body.format = "json", IsValue(At(body.value, "instances"))
    PROVE  LET v == At(body.value, "instances")
               a == AsArray(IF HasKey(v, "features")
                            THEN List(<<v.fields["features"]>>) ELSE v)
           IN  \/ a = Failure("ValueError")
               \/ Table(a) /\ Faithful(a)
  <1> DEFINE v == At(body.value, "instances")
             a == AsArray(IF HasKey(v, "features")
                          THEN List(<<v.fields["features"]>>) ELSE v)
             value == At(v, "features")
             rows == ValuesOf(value)
  <1>1. Records = IF \E i \in DOMAIN rows : rows[i].kind = "list"
                  THEN [i \in DOMAIN rows |-> ValuesOf(rows[i])]
                  ELSE <<rows>>
    BY DEF Records
  <1>2. \/ IsRecord(v, 1)
        \/ /\ v.kind = "list" /\ IsSequence(v.items)
           /\ \A i \in DOMAIN v.items : IsRecord(v.items[i], i)
    BY DEF IsValue
  <1>0. a = AsArray(IF HasKey(v, "features")
                    THEN List(<<v.fields["features"]>>) ELSE v)
    OBVIOUS
  <1> HIDE DEF v, a
  <1> DEFINE Goal == a = Failure("ValueError") \/ (Table(a) /\ Faithful(a))
  <1>3. ASSUME HasKey(v, "features") PROVE Goal
    <2> DEFINE f == v.fields["features"]
    <2>1. value = f /\ IsField(f, 1)
      <3>1. IsRecord(v, 1)
        BY <1>2, <1>3 DEF HasKey
      <3>2. QED
        BY <1>3, <3>1, RecordShape DEF At
    <2>2. a = AsArray(List(<<f>>))
      BY <1>0, <1>3
    <2> HIDE DEF f, value
    <2>3. /\ f.kind = "list" => IsRow(f.items, 1)
          /\ f.kind = "number" => f.at = <<1, 1>>
      BY <2>1, FieldShape
    <2>4. /\ IsSequence(<<f>>) /\ DOMAIN <<f>> = {1} /\ <<f>>[1] = f
      BY Singleton
    <2>5. \/ a = Failure("ValueError")
          \/ /\ Table(a)
             /\ Numbers(a) => Apart(a.rows)
             /\ \/ a.rows = << <<f>> >> /\ f.kind # "list"
                \/ a.rows = [i \in {1} |-> f.items] /\ f.kind = "list"
      <3> DEFINE items == <<f>>
      <3>1. \A i \in DOMAIN items :
                /\ items[i].kind = "list" => \E n : IsRow(items[i].items, n)
                /\ items[i].kind = "number" => items[i].at = <<i, 1>>
        BY <2>3, <2>4
      <3>2. IsSequence(items) /\ DOMAIN items = {1} /\ items[1] = f
        BY <2>4
      <3>3. a = AsArray(List(items))
        BY <2>2
      <3> HIDE DEF items
      <3>4. \/ a = Failure("ValueError")
            \/ /\ Table(a)
               /\ Numbers(a) => Apart(a.rows)
               /\ \/ a.rows = <<items>> /\ \A i \in DOMAIN items : items[i].kind # "list"
                  \/ /\ a.rows = [i \in DOMAIN items |-> items[i].items]
                     /\ \A i \in DOMAIN items : items[i].kind = "list"
        BY <3>1, <3>2, <3>3, ListTable
      <3>5. [i \in DOMAIN items |-> items[i].items] = [i \in {1} |-> f.items]
        BY <3>2
      <3>6. QED
        BY <3>2, <3>4, <3>5 DEF items
    <2>6. CASE f.kind = "list"
      <3>1. rows = f.items
        BY <2>1, <2>6 DEF ValuesOf
      <3>2. \A j \in DOMAIN rows : rows[j].kind # "list"
        BY <2>3, <2>6, <3>1, RowShape
      <3>3. Records = <<f.items>>
        BY <1>1, <3>1, <3>2
      <3>4. [i \in {1} |-> f.items] = <<f.items>>
        BY OneElement
      <3>5. QED
        BY <2>5, <2>6, <3>3, <3>4 DEF Faithful
    <2>7. CASE f.kind # "list"
      <3>1. rows = <<f>>
        BY <2>1, <2>7 DEF ValuesOf
      <3>2. Records = << <<f>> >>
        BY <1>1, <2>4, <2>7, <3>1
      <3>3. QED
        BY <2>5, <2>7, <3>2 DEF Faithful
    <2>8. QED
      BY <2>6, <2>7
  <1>4. ASSUME ~HasKey(v, "features"), v.kind # "list" PROVE Goal
    <2>1. value = v /\ rows = <<v>> /\ a = AsArray(v)
      BY <1>0, <1>4 DEF At, ValuesOf
    <2>2. /\ Table(a) /\ a.rows = << <<v>> >>
      BY <1>4, <2>1, ArrayOfScalar
    <2>3. DOMAIN <<v>> = {1} /\ <<v>>[1] = v
      BY Singleton
    <2>4. Records = << <<v>> >>
      BY <1>1, <1>4, <2>1, <2>3
    <2>5. Apart(<< <<v>> >>)
      <3>1. DOMAIN << <<v>> >> = {1} /\ << <<v>> >>[1] = <<v>>
        BY Singleton
      <3>2. QED
        BY <2>3, <3>1 DEF Apart
    <2>6. QED
      BY <2>2, <2>4, <2>5 DEF Faithful
  <1>5. ASSUME ~HasKey(v, "features"), v.kind = "list" PROVE Goal
    <2> DEFINE items == v.items
    <2>1. value = v /\ rows = items /\ a = AsArray(List(items))
      <3>1. value = v /\ a = AsArray(v)
        BY <1>0, <1>5 DEF At
      <3>2. rows = items
        BY <1>5, <3>1 DEF ValuesOf
      <3>3. AsArray(v) = AsArray(List(v.items))
        BY <1>5 DEF AsArray, List
      <3>4. QED
        BY <3>1, <3>2, <3>3
    <2>2. IsSequence(items)
      BY <1>2, <1>5, RecordShape, RowShape
    <2>3. \A i \in DOMAIN items :
              /\ items[i].kind = "list" => IsRow(items[i].items, i)
              /\ items[i].kind = "number" => items[i].at = <<i, 1>> \/ IsRow(items, 1)
      <3>1. CASE IsRecord(v, 1)
        BY <1>5, <3>1, RecordShape, RowShape
      <3>2. CASE \A i \in DOMAIN v.items : IsRecord(v.items[i], i)
        BY <3>2, RecordShape
      <3>3. QED
        BY <1>2, <3>1, <3>2
    <2> HIDE DEF items
    <2>4. CASE \A i \in DOMAIN items : items[i].kind # "list"
      <3>1. Records = <<items>>
        BY <1>1, <2>1, <2>4
      <3>2. \/ a = Failure("ValueError")
            \/ Table(a) /\ a.rows = <<items>>
        <4>1. \/ a = Failure("ValueError")
              \/ Table(a) /\ a.rows = <<items>>
              \/ items # << >> /\ \A i \in DOMAIN items : items[i].kind = "list"
          BY <2>1, <2>2, <2>4, ArrayOfList
        <4>2. items # << >> => 1 \in DOMAIN items
          BY <2>2, SequenceShape
        <4>3. QED
          BY <2>4, <4>1, <4>2
      <3>3. ASSUME Table(a), a.rows = <<items>>, Numbers(a) PROVE Apart(a.rows)
        <4>1. CASE IsRow(items, 1)
          <5>1. \A j, k \in DOMAIN items : items[j] = items[k] => j = k
            BY <4>1, RowShape
          <5>2. DOMAIN <<items>> = {1} /\ <<items>>[1] = items
            BY Singleton
          <5>3. QED
            BY <3>3, <5>1, <5>2 DEF Apart
        <4>2. CASE ~IsRow(items, 1)
          <5>1. \A i \in DOMAIN items :
                    /\ items[i].kind = "list" => \E n : IsRow(items[i].items, n)
                    /\ items[i].kind = "number" => items[i].at = <<i, 1>>
            BY <2>3, <4>2
          <5>2. a # Failure("ValueError")
            <6>1. ~Raised(a)
              BY <3>3, TableDoesNotRaise
            <6>2. QED
              BY <6>1, FailureRaises
          <5>3. QED
            BY <2>1, <2>2, <3>3, <5>1, <5>2, ListTable
        <4>3. QED
          BY <4>1, <4>2
      <3>4. QED
        BY <3>1, <3>2, <3>3 DEF Faithful
    <2>5. CASE \E i \in DOMAIN items : items[i].kind = "list"
      <3>1. ~IsRow(items, 1)
        BY <2>5, RowShape
      <3>2. \A i \in DOMAIN items :
                /\ items[i].kind = "list" => \E n : IsRow(items[i].items, n)
                /\ items[i].kind = "number" => items[i].at = <<i, 1>>
        BY <2>3, <3>1
      <3>3. \/ a = Failure("ValueError")
            \/ /\ Table(a)
               /\ Numbers(a) => Apart(a.rows)
               /\ a.rows = [i \in DOMAIN items |-> items[i].items]
               /\ \A i \in DOMAIN items : items[i].kind = "list"
        BY <2>1, <2>2, <2>5, <3>2, ListTable
      <3>4. Records = [i \in DOMAIN items |-> ValuesOf(items[i])]
        BY <1>1, <2>1, <2>5
      <3>5. (\A i \in DOMAIN items : items[i].kind = "list") =>
                Records = [i \in DOMAIN items |-> items[i].items]
        BY <3>4 DEF ValuesOf
      <3>6. QED
        BY <3>3, <3>5 DEF Faithful
    <2>6. QED
      BY <2>4, <2>5
  <1>6. QED
    BY <1>3, <1>4, <1>5 DEF v, a

(* JSON Lines: a record in each line.  Of lines that hold no lists numpy    *)
(* makes one row, which does not cast to numbers if no line is one.         *)
LEMMA JsonlTable ==
    ASSUME IsBody(body), body.format = "jsonl", Malformed \notin ToSet(body.lines)
    PROVE  LET a == AsArray(List([i \in DOMAIN body.lines |->
                                      At(body.lines[i], "features")]))
           IN  \/ a = Failure("ValueError")
               \/ Table(a) /\ (Clear => Faithful(a))
  <1> DEFINE lines == body.lines
             items == [i \in DOMAIN lines |-> At(lines[i], "features")]
             a == AsArray(List(items))
  <1>1. IsSequence(lines) /\ \A i \in DOMAIN lines : IsRecord(lines[i], i)
    BY DEF IsBody, ToSet
  <1>2. IsSequence(items)
    <2>1. /\ DOMAIN items = 1 .. Len(lines) /\ Len(lines) \in Nat
          /\ items = [i \in DOMAIN items |-> items[i]]
      BY <1>1, SequenceShape
    <2>2. QED
      BY <2>1, SequenceMade
  <1>3. \A i \in DOMAIN items :
            /\ items[i].kind = "list" => IsRow(items[i].items, i)
            /\ items[i].kind = "number" => items[i].at = <<i, 1>>
    <2>1. ASSUME NEW i \in DOMAIN items
          PROVE  /\ items[i].kind = "list" => IsRow(items[i].items, i)
                 /\ items[i].kind = "number" => items[i].at = <<i, 1>>
      <3>1. items[i] = At(lines[i], "features")
        OBVIOUS
      <3> HIDE DEF items
      <3>2. IsRecord(lines[i], i)
        BY <1>1, <2>1 DEF items
      <3>3. items[i].kind # "object" => IsField(items[i], i)
        BY <3>1, <3>2, RecordShape
      <3>4. QED
        BY <3>3, FieldShape
    <2>2. QED
      BY <2>1
  <1>4. ASSUME Clear
        PROVE  /\ 1 \in DOMAIN items
               /\ \A i \in DOMAIN items : items[i].kind # "number"
    <2>1. lines # << >>
      BY <1>4 DEF Clear
    <2>2. \A i \in DOMAIN lines : At(lines[i], "features").kind # "number"
      BY <1>4 DEF Clear
    <2>3. 1 \in DOMAIN lines
      BY <1>1, <2>1, SequenceShape
    <2>4. QED
      BY <2>2, <2>3
  <1>5. Records = [i \in DOMAIN items |-> ValuesOf(items[i])]
    BY DEF Records
  <1> HIDE DEF items
  <1>6. \/ a = Failure("ValueError")
        \/ /\ Table(a)
           /\ Numbers(a) => Apart(a.rows)
           /\ \/ a.rows = <<items>>
              \/ /\ a.rows = [i \in DOMAIN items |-> items[i].items]
                 /\ \A i \in DOMAIN items : items[i].kind = "list"
    BY <1>2, <1>3, ListTable
  <1> HIDE DEF a
  <1>7. ASSUME Clear, a.rows = <<items>> PROVE ~Numbers(a)
    <2>1. DOMAIN a.rows = {1} /\ a.rows[1] = items
      BY <1>7
    <2>2. QED
      BY <1>4, <1>7, <2>1 DEF Numbers
  <1>8. ASSUME a.rows = [i \in DOMAIN items |-> items[i].items],
               \A i \in DOMAIN items : items[i].kind = "list"
        PROVE  a.rows = Records
    BY <1>5, <1>8 DEF ValuesOf
  <1>9. QED
    BY <1>6, <1>7, <1>8 DEF Faithful, a, items

------------------------------------------------------------------------------
(* The named inputs *)

(* The fields of a named record are of that record. *)
LEMMA InputRecordsShape ==
    ASSUME IsBody(body), MultiInput
    PROVE  /\ IsSequence(InputRecords)
           /\ \A i \in DOMAIN InputRecords : \A key :
                  HasKey(InputRecords[i], key) =>
                      IsField(InputRecords[i].fields[key], i)
  <1> DEFINE rs == InputRecords
  <1>1. CASE body.format = "jsonl"
    <2>1. CASE Malformed \in ToSet(body.lines)
      <3>1. RawRecords = Malformed
        BY <1>1, <2>1 DEF RawRecords
      <3>2. rs = << >>
        BY <3>1 DEF InputRecords, Malformed
      <3>3. QED
        BY <3>2 DEF IsSequence
    <2>2. CASE Malformed \notin ToSet(body.lines)
      <3>1. rs = body.lines
        BY <1>1, <2>2 DEF InputRecords, RawRecords, List
      <3>2. IsSequence(rs) /\ \A i \in DOMAIN rs : IsRecord(rs[i], i)
        BY <1>1, <2>2, <3>1 DEF IsBody, ToSet
      <3> HIDE DEF rs
      <3>3. QED
        BY <3>2, RecordShape DEF rs
    <2>3. QED
      BY <2>1, <2>2
  <1>2. CASE body.format = "json"
    <2> DEFINE v == At(body.value, "instances")
    <2>1. RawRecords = v
      BY <1>2 DEF RawRecords
    <2>2. v = Malformed \/ IsValue(v)
      BY <1>2 DEF IsBody, At, HasKey, Malformed
    <2> HIDE DEF v
    <2>3. CASE v.kind = "object"
      <3>1. rs = <<v>>
        BY <2>1, <2>3 DEF InputRecords
      <3>2. IsRecord(v, 1)
        BY <2>2, <2>3 DEF IsValue, Malformed
      <3>3. DOMAIN rs = {1} /\ rs[1] = v /\ IsSequence(rs)
        BY <3>1, Singleton
      <3>4. QED
        BY <3>2, <3>3, RecordShape
    <2>4. CASE v.kind = "list"
      <3>1. rs = v.items
        BY <2>1, <2>4 DEF InputRecords
      <3>2. IsValue(v)
        BY <2>2, <2>4 DEF Malformed
      <3>3. CASE IsRecord(v, 1)
        <4>1. IsRow(rs, 1)
          BY <2>4, <3>1, <3>3, RecordShape
        <4>2. IsSequence(rs)
          BY <4>1, RowShape
        <4>3. \A i \in DOMAIN rs : rs[i].kind # "object"
          BY <4>1, RowShape
        <4>4. QED
          BY <4>2, <4>3 DEF HasKey
      <3>4. CASE ~IsRecord(v, 1)
        <4>1. IsSequence(rs) /\ \A i \in DOMAIN rs : IsRecord(rs[i], i)
          BY <3>1, <3>2, <3>4 DEF IsValue
        <4>2. QED
          BY <4>1, RecordShape
      <3>5. QED
        BY <3>3, <3>4
    <2>5. CASE v.kind \notin {"object", "list"}
      <3>1. rs = << >>
        BY <2>1, <2>5 DEF InputRecords
      <3>2. QED
        BY <3>1 DEF IsSequence
    <2>6. QED
      BY <2>3, <2>4, <2>5
  <1>3. QED
    BY <1>1, <1>2 DEF MultiInput

(* A tensor has an entry for each record, of values of that record. *)
Aligned(t) ==
    /\ Table(t) /\ t.ndim \in {1, 2}
    /\ BatchOf(t) = Len(InputRecords)
    /\ \A i \in DOMAIN InputRecords :
           IF t.ndim = 1 THEN t.rows[1][i].at[1] = i
           ELSE \A k \in DOMAIN t.rows[i] : t.rows[i][k].at[1] = i
    /\ t.ndim = 1 => DOMAIN t.rows[1] = DOMAIN InputRecords
    /\ t.ndim = 2 => DOMAIN t.rows = DOMAIN InputRecords

(* A tensor that does not raise has an entry for each record. *)
LEMMA TensorShape ==
    ASSUME IsBody(body), IsSettings(settings), MultiInput, InputRecords # << >>,
           NEW key
    PROVE  LET t == TensorOf(key)
           IN  \/ \E e \in {"ValueError", "TypeError"} : t = Failure(e)
               \/ ~Raised(t) /\ Aligned(t)
  <1> DEFINE rs == InputRecords
             items == [i \in DOMAIN rs |-> rs[i].fields[key]]
             a == AsArray(List(items))
             t == TensorOf(key)
  <1>1. CASE \E i \in DOMAIN rs : ~HasKey(rs[i], key)
    BY <1>1 DEF TensorOf
  <1>2. CASE \A i \in DOMAIN rs : HasKey(rs[i], key)
    <2>1. /\ IsSequence(rs)
          /\ \A i \in DOMAIN rs : IsField(rs[i].fields[key], i)
      BY <1>2, InputRecordsShape
    <2>2. t = IF ~Raised(a) /\ settings.dtypes THEN AsType(a) ELSE a
      BY <1>2 DEF TensorOf
    <2> HIDE DEF rs, t
    <2>3. /\ DOMAIN items = 1 .. Len(rs) /\ Len(rs) \in Nat /\ DOMAIN items = DOMAIN rs
          /\ items = [i \in DOMAIN items |-> items[i]]
      BY <2>1, SequenceShape
    <2>4. \A i \in DOMAIN items : IsField(items[i], i)
      BY <2>1
    <2> HIDE DEF items
    <2>5. IsSequence(items) /\ Len(items) = Len(rs)
      BY <2>3, SequenceMade
    <2>6. \A i \in DOMAIN items :
              /\ items[i].kind = "list" => IsRow(items[i].items, i)
              /\ items[i].kind # "list" => items[i].at = <<i, 1>>
      BY <2>4, FieldShape
    <2>7. \/ a = Failure("ValueError")
          \/ /\ Table(a)
             /\ a.ndim = 1 /\ a.rows = <<items>> /\ a.cols = Len(items)
             /\ \A i \in DOMAIN items : items[i].kind # "list"
          \/ /\ Table(a)
             /\ a.ndim = 2
             /\ a.rows = [i \in DOMAIN items |-> items[i].items]
             /\ Len(a.rows) = Len(items) /\ items # << >>
             /\ \A i \in DOMAIN items : items[i].kind = "list"
      <3>1. \A i \in DOMAIN items : items[i].kind = "list" => IsSequence(items[i].items)
        BY <2>6, RowShape
      <3>2. QED
        BY <2>5, <3>1, ArrayOfList
    <2> HIDE DEF a
    <2>8. ASSUME a.ndim = 1, a.rows = <<items>>, a.cols = Len(items), Table(a),
                 \A i \in DOMAIN items : items[i].kind # "list"
          PROVE  Aligned(a)
      <3>1. a.rows[1] = items
        BY <2>8, Singleton
      <3>2. BatchOf(a) = Len(rs)
        BY <2>5, <2>8 DEF BatchOf
      <3>3. \A i \in DOMAIN rs : items[i].at[1] = i
        <4>1. \A i \in DOMAIN rs : items[i].at = <<i, 1>>
          BY <2>3, <2>6, <2>8
        <4>2. QED
          BY <4>1
      <3>4. QED
        BY <2>3, <2>8, <3>1, <3>2, <3>3 DEF Aligned, rs
    <2>9. ASSUME a.ndim = 2, a.rows = [i \in DOMAIN items |-> items[i].items],
                 Len(a.rows) = Len(items), Table(a),
                 \A i \in DOMAIN items : items[i].kind = "list"
          PROVE  Aligned(a)
      <3>1. BatchOf(a) = Len(rs)
        BY <2>5, <2>9 DEF BatchOf
      <3>2. DOMAIN a.rows = DOMAIN rs /\ \A i \in DOMAIN rs : a.rows[i] = items[i].items
        BY <2>3, <2>9
      <3>3. \A i \in DOMAIN rs : \A k \in DOMAIN items[i].items :
                items[i].items[k].at = <<i, k>>
        BY <2>3, <2>6, <2>9 DEF IsRow
      <3>4. \A i \in DOMAIN rs : \A k \in DOMAIN a.rows[i] : a.rows[i][k].at[1] = i
        BY <3>2, <3>3
      <3>5. QED
        BY <2>9, <3>1, <3>2, <3>4 DEF Aligned, rs
    <2>10. a = Failure("ValueError") \/ (Table(a) /\ Aligned(a))
      BY <2>7, <2>8, <2>9
    <2>11. CASE a = Failure("ValueError")
      <3>1. Raised(a)
        BY <2>11, FailureRaises
      <3>2. QED
        BY <2>2, <2>11, <3>1 DEF t
    <2>12. CASE Table(a) /\ Aligned(a)
      <3>1. ~Raised(a)
        BY <2>12, TableDoesNotRaise
      <3>2. t = a \/ t = AsType(a)
        BY <2>2
      <3>3. t = a \/ \E e \in {"ValueError", "TypeError"} : t = Failure(e)
        BY <2>12, <3>2, CastOfTable
      <3>4. QED
        BY <2>12, <3>1, <3>3 DEF t
    <2>13. QED
      BY <2>10, <2>11, <2>12
  <1>3. QED
    BY <1>1, <1>2

------------------------------------------------------------------------------
(* The stages *)

(* Past the parsing: only the limit is left, or the adapter is called. *)
Ready == stage = "limit" \/ outcome = "predict"

RowPerRecord ==
    /\ IsSequence(Records)
    /\ Len(array.rows) = Len(Records)
    /\ \A i \in DOMAIN Records : ToSet(array.rows[i]) \subseteq ToSet(Records[i])

OnlyIdsSelected ==
    /\ settings.ids # NoSelector
    /\ settings.features = NoSelector
    /\ settings.ids.form = "indexes" =>
           \A k \in DOMAIN settings.ids.indexes : settings.ids.indexes[k] >= 0
IdsApart ==
    \A i \in DOMAIN Records :
        /\ ToSet(ids[i]) \cap ToSet(array.rows[i]) = {}
        /\ ToSet(ids[i]) \cup ToSet(array.rows[i]) = ToSet(Records[i])

Batch == IF tensors = << >> THEN BatchOf(array) ELSE BatchOf(tensors["a"])

(* What each stage may rely on. *)
ParsingInv ==
    /\ IsBody(body) /\ IsSettings(settings)
    /\ TypeOK /\ Table(array)
    /\ stage \in {"load", "cast", "split", "count"} => tensors = << >>
    /\ stage \in {"cast", "split", "count"} => ~MultiInput
    /\ Ready /\ MultiInput =>
           tensors # << >> /\ \A key \in InputKeys : Aligned(tensors[key])
    /\ Ready /\ ~MultiInput => tensors = << >> /\ array.ndim = 2
    /\ stage = "cast" /\ Clear => Faithful(array)
    /\ stage = "split" /\ Clear => array.rows = Records /\ Apart(array.rows)
    /\ (stage = "count" \/ Ready) /\ ~MultiInput /\ Clear =>
           RowPerRecord /\ (OnlyIdsSelected => IdsApart)
    /\ outcome = "predict" => Batch <= settings.maxRecords

(* What is said of a request does not change while it stays. *)
LEMMA SameRequest ==
    ASSUME body' = body, settings' = settings
    PROVE  /\ Records' = Records
           /\ Clear' <=> Clear
           /\ MultiInput' <=> MultiInput
           /\ InputRecords' = InputRecords
           /\ IsBody(body)' <=> IsBody(body)
           /\ IsSettings(settings)' <=> IsSettings(settings)
           /\ OnlyIdsSelected' <=> OnlyIdsSelected
  <1>1. Records' = Records
    BY DEF Records
  <1>2. Clear' <=> Clear
    BY <1>1 DEF Clear
  <1>3. (MultiInput' <=> MultiInput) /\ InputRecords' = InputRecords
    BY DEF MultiInput, InputRecords, RawRecords
  <1>4. QED
    BY <1>1, <1>2, <1>3 DEF OnlyIdsSelected

(* What TypeOK asks of the array. *)
LEMMA TableType ==
    ASSUME NEW a, Table(a)
    PROVE  /\ a.ndim \in 0 .. 2
           /\ \A i \in DOMAIN a.rows : Len(a.rows[i]) = a.cols
  BY DEF Table

(* ParsingInv holds at first, *)
LEMMA ParsingInit ==
    ASSUME Init
    PROVE  ParsingInv
  <1>1. IsBody(body) /\ IsSettings(settings)
    BY InputsAssumption DEF Init
  <1>2. Table(NoArray)
    <2>1. IsSequence(<< >>) /\ DOMAIN << >> = {}
      BY DEF IsSequence
    <2>2. QED
      BY <2>1 DEF Table, NoArray
  <1>3. stage = "load" /\ array = NoArray /\ tensors = << >> /\ outcome = "none"
    BY DEF Init
  <1>4. TypeOK
    BY <1>2, <1>3, TableType DEF TypeOK
  <1>5. QED
    BY <1>1, <1>2, <1>3, <1>4 DEF ParsingInv, Ready

(* An exception ends the parsing, with no more to rely on. *)
LEMMA RaiseStep ==
    ASSUME ParsingInv, NEW e, Raise(e)
    PROVE  ParsingInv'
  <1>1. /\ stage' = "done" /\ outcome' \in {"bad_request", "internal_error"}
        /\ body' = body /\ settings' = settings /\ array' = array
    BY DEF Raise
  <1>2. (IsBody(body) /\ IsSettings(settings))'
    BY <1>1, SameRequest DEF ParsingInv
  <1>3. Table(array)'
    BY <1>1 DEF ParsingInv
  <1>4. TypeOK'
    BY <1>1, <1>3, TableType DEF TypeOK
  <1>5. QED
    BY <1>1, <1>2, <1>3, <1>4 DEF ParsingInv, Ready

(* A body becomes a table. *)
LEMMA LoadTableStep ==
    ASSUME ParsingInv, stage = "load", ~MultiInput,
           NEW a, a = Failure("ValueError") \/ (Table(a) /\ (Clear => Faithful(a))),
           Store(a, "cast")
    PROVE  ParsingInv'
  <1>1. CASE Raised(a)
    BY <1>1, RaiseStep DEF Store
  <1>2. CASE ~Raised(a)
    <2>1. Table(a) /\ (Clear => Faithful(a))
      BY <1>2, FailureRaises
    <2>2. /\ array' = a /\ stage' = "cast" /\ tensors' = tensors /\ outcome' = outcome
          /\ body' = body /\ settings' = settings
      BY <1>2 DEF Store
    <2>3. /\ Records' = Records /\ (Clear' <=> Clear) /\ ~MultiInput'
          /\ (IsBody(body) /\ IsSettings(settings))'
      BY <2>2, SameRequest DEF ParsingInv
    <2>4. Table(array)' /\ (Clear => Faithful(array))'
      BY <2>1, <2>2, <2>3 DEF Faithful
    <2>5. outcome = "none" /\ tensors = << >>
      BY DEF ParsingInv, TypeOK
    <2>6. TypeOK'
      BY <2>2, <2>4, <2>5, TableType DEF TypeOK
    <2>7. QED
      BY <2>2, <2>3, <2>4, <2>5, <2>6 DEF ParsingInv, Ready
  <1>3. QED
    BY <1>1, <1>2

(* Each loader yields a faithful table, or raises. *)
LEMMA LoadCsvStep ==
    ASSUME ParsingInv, LoadCsv
    PROVE  ParsingInv'
  <1> DEFINE rows == CsvRows(body.lines)
             a == AsArray(List([i \in DOMAIN rows |-> List(rows[i])]))
             refused == \/ Stripped(body.lines) = << >>
                        \/ settings.hasHeader \notin {"auto", "true", "false"}
                        \/ \E i \in DOMAIN rows :
                               LET line == rows[i]
                               IN  line = << >> \/ ~IsNumeric(line)
  <1>1. /\ stage = "load" /\ body.format = "csv"
        /\ IF refused THEN Raise("ValueError") ELSE Store(a, "cast")
    BY DEF LoadCsv
  <1>2. CASE refused
    BY <1>1, <1>2, RaiseStep
  <1>3. CASE ~refused
    <2>1. Stripped(body.lines) # << >> /\ \A i \in DOMAIN rows : rows[i] # << >>
      BY <1>3
    <2>2. Store(a, "cast")
      BY <1>1, <1>3
    <2>3. a = Failure("ValueError") \/ (Table(a) /\ (Clear => Faithful(a)))
      BY <1>1, <2>1, CsvTable DEF ParsingInv
    <2>4. ~MultiInput
      BY <1>1 DEF MultiInput
    <2> HIDE DEF a, rows
    <2>5. QED
      BY <1>1, <2>2, <2>3, <2>4, LoadTableStep
  <1>4. QED
    BY <1>2, <1>3

(* JSON, as CSV. *)
LEMMA LoadJsonStep ==
    ASSUME ParsingInv, LoadJson
    PROVE  ParsingInv'
  <1> DEFINE v == At(body.value, "instances")
             a == AsArray(IF HasKey(v, "features")
                          THEN List(<<v.fields["features"]>>) ELSE v)
  <1>1. /\ stage = "load" /\ body.format = "json" /\ ~MultiInput
        /\ IF v = Malformed THEN Raise("ValueError") ELSE Store(a, "cast")
    BY DEF LoadJson
  <1>2. CASE v = Malformed
    BY <1>1, <1>2, RaiseStep
  <1>3. CASE v # Malformed
    <2>1. IsValue(v)
      <3>1. body.value = Malformed => v = Malformed
        BY DEF At, HasKey, Malformed
      <3>2. body.value = Malformed \/ IsValue(v)
        BY <1>1 DEF ParsingInv, IsBody
      <3>3. QED
        BY <1>3, <3>1, <3>2
    <2>2. a = Failure("ValueError") \/ (Table(a) /\ Faithful(a))
      BY <1>1, <2>1, JsonTable
    <2>3. Store(a, "cast")
      BY <1>1, <1>3
    <2> HIDE DEF a
    <2>4. QED
      BY <1>1, <2>2, <2>3, LoadTableStep
  <1>4. QED
    BY <1>2, <1>3

(* JSON Lines, as CSV. *)
LEMMA LoadJsonlStep ==
    ASSUME ParsingInv, LoadJsonl
    PROVE  ParsingInv'
  <1> DEFINE a == AsArray(List([i \in DOMAIN body.lines |->
                                    At(body.lines[i], "features")]))
  <1>1. /\ stage = "load" /\ body.format = "jsonl" /\ ~MultiInput
        /\ IF Malformed \in ToSet(body.lines) THEN Raise("ValueError")
           ELSE Store(a, "cast")
    BY DEF LoadJsonl
  <1>2. CASE Malformed \in ToSet(body.lines)
    BY <1>1, <1>2, RaiseStep
  <1>3. CASE Malformed \notin ToSet(body.lines)
    <2>1. a = Failure("ValueError") \/ (Table(a) /\ (Clear => Faithful(a)))
      BY <1>1, <1>3, JsonlTable DEF ParsingInv
    <2>2. Store(a, "cast")
      BY <1>1, <1>3
    <2> HIDE DEF a
    <2>3. QED
      BY <1>1, <2>1, <2>2, LoadTableStep
  <1>4. QED
    BY <1>2, <1>3

(* The cast makes sure that there are numbers only. *)
LEMMA CastStep ==
    ASSUME ParsingInv, Cast
    PROVE  ParsingInv'
  <1> DEFINE b == IF array.ndim = 1 THEN [array EXCEPT !.ndim = 2] ELSE array
  <1>1. stage = "cast" /\ Store(AsType(b), "split")
    BY DEF Cast
  <1>2. /\ Table(array) /\ outcome = "none" /\ tensors = << >> /\ ~MultiInput
        /\ Clear => Faithful(array)
    BY <1>1 DEF ParsingInv, TypeOK
  <1>3. Table(b) /\ b.rows = array.rows
    <2>1. CASE array.ndim = 1
      <3>1. array = [ndim |-> array.ndim, rows |-> array.rows, cols |-> array.cols]
        BY <1>2 DEF Table
      <3>2. b = [ndim |-> 2, rows |-> array.rows, cols |-> array.cols]
        BY <2>1, <3>1
      <3>3. QED
        BY <1>2, <3>2 DEF Table
    <2>2. CASE array.ndim # 1
      BY <1>2, <2>2
    <2>3. QED
      BY <2>1, <2>2
  <1> HIDE DEF b
  <1>4. CASE Raised(AsType(b))
    BY <1>1, <1>4, RaiseStep DEF Store
  <1>5. CASE ~Raised(AsType(b))
    <2>1. AsType(b) = b /\ Numbers(array)
      BY <1>3, <1>5, CastOfTable, FailureRaises DEF Numbers
    <2>2. /\ array' = b /\ stage' = "split" /\ tensors' = tensors /\ outcome' = outcome
          /\ body' = body /\ settings' = settings
      BY <1>1, <1>5, <2>1 DEF Store
    <2>3. /\ Records' = Records /\ (Clear' <=> Clear) /\ ~MultiInput'
          /\ (IsBody(body) /\ IsSettings(settings))'
      BY <1>2, <2>2, SameRequest DEF ParsingInv
    <2>4. Clear => array.rows = Records /\ Apart(array.rows)
      BY <1>2, <2>1 DEF Faithful
    <2>5. Table(array)' /\ (Clear' => (array.rows)' = Records' /\ Apart(array.rows)')
      BY <1>3, <2>2, <2>3, <2>4
    <2>6. TypeOK'
      BY <1>2, <2>2, <2>5, TableType DEF TypeOK
    <2>7. QED
      BY <1>2, <2>2, <2>3, <2>5, <2>6 DEF ParsingInv, Ready
  <1>6. QED
    BY <1>4, <1>5

(* The split keeps the rows, and their ids apart from their features. *)
LEMMA SplitStep ==
    ASSUME ParsingInv, Split
    PROVE  ParsingInv'
  <1>1. /\ stage = "split" /\ Table(array) /\ IsSettings(settings)
        /\ outcome = "none" /\ tensors = << >> /\ ~MultiInput
        /\ Clear => array.rows = Records /\ Apart(array.rows)
    BY DEF ParsingInv, TypeOK, Split
  <1>2. CASE \E e : Raise(e)
    BY <1>2, RaiseStep
  <1>3. CASE ~ \E e : Raise(e)
    <2>1. ~Raised(FeatureColumns) /\ ~Raised(IdColumns)
      BY <1>3 DEF Split
    <2>2. /\ array' = FeatureColumns /\ ids' = IdColumns.rows /\ stage' = "count"
          /\ body' = body /\ settings' = settings
          /\ tensors' = tensors /\ outcome' = outcome
      BY <1>3 DEF Split
    <2>3. /\ Table(FeatureColumns) /\ FeatureColumns.ndim = 2
          /\ Len(FeatureColumns.rows) = Len(array.rows)
          /\ DOMAIN FeatureColumns.rows = DOMAIN array.rows
          /\ \A i \in DOMAIN array.rows :
                 ToSet(FeatureColumns.rows[i]) \subseteq ToSet(array.rows[i])
      <3> DEFINE c == FeatureColumns
      <3>1. ~ \E e \in {"ValueError", "IndexError"} : c = Failure(e)
        BY <2>1, FailureRaises
      <3>2. QED
        BY <1>1, <3>1, FeaturesShape
    <2>4. /\ Records' = Records /\ (Clear' <=> Clear) /\ ~MultiInput'
          /\ (OnlyIdsSelected' <=> OnlyIdsSelected)
          /\ (IsBody(body) /\ IsSettings(settings))'
      BY <1>1, <2>2, SameRequest DEF ParsingInv
    <2>5. ASSUME Clear PROVE RowPerRecord'
      <3>1. array.rows = Records /\ IsSequence(Records)
        BY <1>1, <2>5 DEF Table
      <3>2. IsSequence(Records)'
        BY <2>4, <3>1 DEF IsSequence
      <3>3. QED
        BY <2>2, <2>3, <2>4, <3>1, <3>2 DEF RowPerRecord
    <2>6. ASSUME Clear, OnlyIdsSelected PROVE IdsApart'
      <3>1. array.rows = Records /\ Apart(Records)
        BY <1>1, <2>6
      <3>2. ASSUME NEW i \in DOMAIN Records
            PROVE  /\ ToSet(IdColumns.rows[i]) \cap ToSet(FeatureColumns.rows[i]) = {}
                   /\ ToSet(IdColumns.rows[i]) \cup ToSet(FeatureColumns.rows[i]) =
                          ToSet(Records[i])
        <4>1. /\ i \in DOMAIN array.rows
              /\ \A j, k \in DOMAIN array.rows[i] :
                     array.rows[i][j] = array.rows[i][k] => j = k
          BY <3>1, <3>2 DEF Apart
        <4>2. /\ settings.ids # NoSelector /\ settings.features = NoSelector
              /\ settings.ids.form = "indexes" =>
                     \A k \in DOMAIN settings.ids.indexes : settings.ids.indexes[k] >= 0
          BY <2>6 DEF OnlyIdsSelected
        <4>3. LET f == ToSet(FeatureColumns.rows[i])
                  d == ToSet(IdColumns.rows[i])
              IN  d \cap f = {} /\ d \cup f = ToSet(array.rows[i])
          BY <1>1, <2>1, <4>1, <4>2, IdsAndFeatures
        <4>4. QED
          BY <3>1, <4>3
      <3>3. QED
        BY <2>2, <2>4, <3>2 DEF IdsApart
    <2>7. Table(array)' /\ (array.ndim)' = 2
      BY <2>2, <2>3
    <2>8. TypeOK'
      BY <1>1, <2>2, <2>7, TableType DEF TypeOK
    <2>9. QED
      BY <1>1, <2>2, <2>4, <2>5, <2>6, <2>7, <2>8 DEF ParsingInv, Ready
  <1>4. QED
    BY <1>2, <1>3

(* Counting the features changes nothing. *)
LEMMA ValidateFeatureCountStep ==
    ASSUME ParsingInv, ValidateFeatureCount
    PROVE  ParsingInv'
  <1>1. CASE \E e : Raise(e)
    BY <1>1, RaiseStep
  <1>2. CASE ~ \E e : Raise(e)
    <2>1. /\ stage = "count" /\ stage' = "limit"
          /\ body' = body /\ settings' = settings /\ array' = array /\ ids' = ids
          /\ tensors' = tensors /\ outcome' = outcome
      BY <1>2 DEF ValidateFeatureCount
    <2>2. /\ Records' = Records /\ (Clear' <=> Clear) /\ (MultiInput' <=> MultiInput)
          /\ (OnlyIdsSelected' <=> OnlyIdsSelected)
          /\ (IsBody(body) /\ IsSettings(settings))'
      BY <2>1, SameRequest DEF ParsingInv
    <2>3. /\ Table(array) /\ array.ndim = 2 /\ tensors = << >> /\ ~MultiInput
          /\ outcome = "none"
          /\ Clear => RowPerRecord /\ (OnlyIdsSelected => IdsApart)
      BY <2>1 DEF ParsingInv, TypeOK
    <2>4. (RowPerRecord' <=> RowPerRecord) /\ (IdsApart' <=> IdsApart)
      BY <2>1, <2>2 DEF RowPerRecord, IdsApart
    <2>5. TypeOK'
      BY <2>1, <2>3, TableType DEF TypeOK
    <2>6. QED
      BY <2>1, <2>2, <2>3, <2>4, <2>5 DEF ParsingInv, Ready
  <1>3. QED
    BY <1>1, <1>2

(* Tensors that do not raise are aligned with the records. *)
LEMMA LoadMultiInputStep ==
    ASSUME ParsingInv, LoadMultiInput
    PROVE  ParsingInv'
  <1>1. CASE \E e : Raise(e)
    BY <1>1, RaiseStep
  <1>2. CASE ~ \E e : Raise(e)
    <2> DEFINE failed == {key \in InputKeys : Raised(TensorOf(key))}
    <2>1. /\ stage = "load" /\ MultiInput /\ InputRecords # << >>
          /\ failed = {}
          /\ tensors' = [key \in InputKeys |-> TensorOf(key)] /\ stage' = "limit"
          /\ body' = body /\ settings' = settings /\ array' = array
          /\ outcome' = outcome
      BY <1>2 DEF LoadMultiInput
    <2>2. /\ Records' = Records /\ (Clear' <=> Clear) /\ MultiInput'
          /\ InputRecords' = InputRecords
          /\ (IsBody(body) /\ IsSettings(settings))'
      BY <2>1, SameRequest DEF ParsingInv
    <2>3. ASSUME NEW key \in InputKeys PROVE Aligned(tensors'[key])
      <3>1. ~Raised(TensorOf(key))
        BY <2>1
      <3>2. ~ \E e \in {"ValueError", "TypeError"} : TensorOf(key) = Failure(e)
        BY <3>1, FailureRaises
      <3>3. Aligned(TensorOf(key))
        BY <2>1, <3>2, TensorShape DEF ParsingInv
      <3>4. tensors'[key] = TensorOf(key)
        BY <2>1
      <3>5. QED
        BY <3>3, <3>4
    <2>4. (\A key \in InputKeys : Aligned(tensors[key]))'
      BY <2>2, <2>3 DEF Aligned, InputKeys
    <2>5. tensors' # << >>
      <3>1. DOMAIN tensors' = {"a", "b"} /\ DOMAIN << >> = 1 .. 0
        BY <2>1 DEF InputKeys
      <3>2. QED
        BY <3>1
    <2>6. Table(array)' /\ outcome = "none"
      BY <2>1 DEF ParsingInv, TypeOK
    <2>7. TypeOK'
      BY <2>1, <2>6, TableType DEF TypeOK
    <2>8. QED
      BY <2>1, <2>2, <2>4, <2>5, <2>6, <2>7 DEF ParsingInv, Ready
  <1>3. QED
    BY <1>1, <1>2

(* The batch that is compared is that of every tensor. *)
LEMMA LimitBatchStep ==
    ASSUME ParsingInv, LimitBatch
    PROVE  ParsingInv'
  <1>1. CASE \E e : Raise(e)
    BY <1>1, RaiseStep
  <1>2. CASE ~ \E e : Raise(e)
    <2>1. /\ stage = "limit" /\ stage' = "done" /\ outcome' = "predict"
          /\ ~ (Batch > settings.maxRecords)
          /\ body' = body /\ settings' = settings /\ array' = array /\ ids' = ids
          /\ tensors' = tensors
      BY <1>2 DEF LimitBatch, Batch
    <2>2. /\ Records' = Records /\ (Clear' <=> Clear) /\ (MultiInput' <=> MultiInput)
          /\ (OnlyIdsSelected' <=> OnlyIdsSelected) /\ InputRecords' = InputRecords
          /\ (IsBody(body) /\ IsSettings(settings))'
      BY <2>1, SameRequest DEF ParsingInv
    <2>3. /\ Table(array) /\ Ready
          /\ MultiInput =>
                 tensors # << >> /\ \A key \in InputKeys : Aligned(tensors[key])
          /\ ~MultiInput => tensors = << >> /\ array.ndim = 2
          /\ ~MultiInput /\ Clear =>
                 RowPerRecord /\ (OnlyIdsSelected => IdsApart)
      BY <2>1 DEF ParsingInv, Ready
    <2>4. (RowPerRecord' <=> RowPerRecord) /\ (IdsApart' <=> IdsApart)
      BY <2>1, <2>2 DEF RowPerRecord, IdsApart
    <2>5. MultiInput => (\A key \in InputKeys : Aligned(tensors[key]))'
      BY <2>1, <2>2, <2>3 DEF Aligned, InputKeys
    <2>6. Batch \in Nat
      <3>1. CASE MultiInput
        <4>1. tensors # << >> /\ BatchOf(tensors["a"]) = Len(InputRecords)
          BY <2>3, <3>1 DEF Aligned, InputKeys
        <4>2. Len(InputRecords) \in Nat
          BY <3>1, InputRecordsShape, SequenceShape DEF ParsingInv
        <4>3. QED
          BY <4>1, <4>2 DEF Batch
      <3>2. CASE ~MultiInput
        <4>1. tensors = << >> /\ array.ndim = 2 /\ Len(array.rows) \in Nat
          BY <2>3, <3>2, SequenceShape DEF Table
        <4>2. QED
          BY <4>1 DEF Batch, BatchOf
      <3>3. QED
        BY <3>1, <3>2
    <2>7. settings.maxRecords \in Int
      BY DEF ParsingInv, IsSettings
    <2>8. Batch <= settings.maxRecords
      BY <2>1, <2>6, <2>7
    <2>9. (Batch <= settings.maxRecords)'
      BY <2>1, <2>8 DEF Batch
    <2>10. TypeOK'
      BY <2>1, <2>3, TableType DEF TypeOK
    <2>11. QED
      BY <2>1, <2>2, <2>3, <2>4, <2>5, <2>9, <2>10 DEF ParsingInv, Ready
  <1>3. QED
    BY <1>1, <1>2

(* A step that leaves the parser alone. *)
LEMMA SameParse ==
    ASSUME ParsingInv, UNCHANGED vars
    PROVE  ParsingInv'
  <1>1. /\ body' = body /\ settings' = settings /\ stage' = stage /\ array' = array
        /\ ids' = ids /\ tensors' = tensors /\ outcome' = outcome
    BY DEF vars
  <1>2. /\ Records' = Records /\ (Clear' <=> Clear) /\ (MultiInput' <=> MultiInput)
        /\ (OnlyIdsSelected' <=> OnlyIdsSelected) /\ InputRecords' = InputRecords
        /\ (IsBody(body)' <=> IsBody(body))
        /\ (IsSettings(settings)' <=> IsSettings(settings))
    BY <1>1, SameRequest
  <1>3. /\ RowPerRecord' <=> RowPerRecord
        /\ IdsApart' <=> IdsApart
        /\ Ready' <=> Ready
        /\ Batch' = Batch
        /\ Faithful(array)' <=> Faithful(array)
        /\ TypeOK' <=> TypeOK
    BY <1>1, <1>2 DEF RowPerRecord, IdsApart, Ready, Batch, Faithful, TypeOK
  <1>4. (\A key \in InputKeys : Aligned(tensors[key]))' <=>
            \A key \in InputKeys : Aligned(tensors[key])
    BY <1>1, <1>2 DEF Aligned, InputKeys
  <1>5. QED
    BY <1>1, <1>2, <1>3, <1>4 DEF ParsingInv

(* and every step of the parser preserves it. *)
LEMMA ParsingStep ==
    ASSUME ParsingInv, [Next]_vars
    PROVE  ParsingInv'
  <1>1. CASE LoadUnsupported
    BY <1>1, RaiseStep DEF LoadUnsupported
  <1>2. CASE Done \/ UNCHANGED vars
    BY <1>2, SameParse DEF Done
  <1>3. QED
    BY <1>1, <1>2, LoadCsvStep, LoadJsonStep, LoadJsonlStep, LoadMultiInputStep,
       CastStep, SplitStep, ValidateFeatureCountStep, LimitBatchStep DEF Next

(* The properties of InputParsing follow. *)
LEMMA ParsingProperties ==
    ASSUME ParsingInv
    PROVE  OneRowPerRecord /\ IdsSplitFromFeatures /\ RecordsBounded /\ TensorsAligned
  <1>1. OneRowPerRecord
    BY DEF OneRowPerRecord, Predicts, ParsingInv, Ready, RowPerRecord
  <1>2. IdsSplitFromFeatures
    BY DEF IdsSplitFromFeatures, Predicts, ParsingInv, Ready, OnlyIdsSelected, IdsApart
  <1>3. ASSUME Predicts PROVE Len(Records) <= settings.maxRecords
    <2>1. /\ tensors = << >> /\ array.ndim = 2 /\ Len(array.rows) = Len(Records)
          /\ Batch <= settings.maxRecords
      BY <1>3 DEF Predicts, ParsingInv, Ready, RowPerRecord
    <2>2. QED
      BY <2>1 DEF Batch, BatchOf
  <1>4. ASSUME outcome = "predict", MultiInput
        PROVE  Len(InputRecords) <= settings.maxRecords /\ TensorsAligned
    <2>1. /\ tensors # << >> /\ \A key \in InputKeys : Aligned(tensors[key])
          /\ Batch <= settings.maxRecords
      BY <1>4 DEF ParsingInv, Ready
    <2>2. BatchOf(tensors["a"]) = Len(InputRecords)
      BY <2>1 DEF Aligned, InputKeys
    <2>3. Len(InputRecords) <= settings.maxRecords
      BY <2>1, <2>2 DEF Batch
    <2>4. TensorsAligned
      BY <2>1 DEF TensorsAligned, Aligned
    <2>5. QED
      BY <2>3, <2>4
  <1>5. QED
    BY <1>1, <1>2, <1>3, <1>4 DEF RecordsBounded, TensorsAligned

------------------------------------------------------------------------------
(* What the model is fed *)

Count == IF MultiInput THEN Len(InputRecords) ELSE Len(Records)
OfRecord(c, i) == IF MultiInput THEN c.at[1] = i ELSE c \in ToSet(Records[i])
ByRecord == (MultiInput \/ Clear) /\ PerRecord

(* The i-th entry is of the i-th record, where the model goes by records. *)
Fed(a) ==
    /\ IsSequence(Entries(a))
    /\ ByRecord => /\ Len(Entries(a)) = Count
                   /\ \A i \in 1 .. Count :
                          \A c \in ToSet(Entries(a)[i]) : OfRecord(c, i)

(* A table of one row for each record feeds the model record by record. *)
LEMMA TableFed ==
    ASSUME ParsingInv, outcome = "predict", tensors = << >>,
           NEW a, a.ndim = 2, a.rows = array.rows
    PROVE  Fed(a)
  <1>1. ~MultiInput /\ IsSequence(array.rows) /\ (Clear => RowPerRecord)
    BY DEF ParsingInv, Ready, Table
  <1>2. Entries(a) = array.rows
    BY DEF Entries
  <1>3. ASSUME ByRecord
        PROVE  /\ Len(array.rows) = Count
               /\ \A i \in 1 .. Count : \A c \in ToSet(array.rows[i]) : OfRecord(c, i)
    <2>1. RowPerRecord /\ Count = Len(Records)
      BY <1>1, <1>3 DEF ByRecord, Count
    <2>2. Len(array.rows) = Len(Records)
      BY <2>1 DEF RowPerRecord
    <2>3. \A i \in DOMAIN Records : ToSet(array.rows[i]) \subseteq ToSet(Records[i])
      BY <2>1 DEF RowPerRecord
    <2>4. DOMAIN Records = 1 .. Len(Records)
      BY <2>1, SequenceShape DEF RowPerRecord
    <2>5. QED
      BY <1>1, <2>1, <2>2, <2>3, <2>4 DEF OfRecord
  <1>4. QED
    BY <1>1, <1>2, <1>3 DEF Fed

(* So does an aligned tensor, *)
LEMMA TensorFed ==
    ASSUME ParsingInv, outcome = "predict", tensors # << >>, NEW key \in InputKeys,
           NEW a, a.ndim = tensors[key].ndim, a.rows = tensors[key].rows,
           a.cols = tensors[key].cols
    PROVE  Fed(a)
  <1> DEFINE t == tensors[key]
             n == Len(InputRecords)
  <1>1. MultiInput /\ Aligned(t)
    BY DEF ParsingInv, Ready
  <1>2. n \in Nat /\ DOMAIN InputRecords = 1 .. n /\ Count = n
    BY <1>1, InputRecordsShape, SequenceShape DEF ParsingInv, Count
  <1>3. Table(t) /\ BatchOf(t) = n /\ t.ndim \in {1, 2} /\ t.cols \in Nat
    BY <1>1 DEF Aligned, Table
  <1> HIDE DEF t, n
  <1>4. CASE t.ndim = 1
    <2> DEFINE e == Entries(a)
    <2>1. t.cols = n /\ e = [i \in 1 .. n |-> << t.rows[1][i] >>]
      BY <1>3, <1>4 DEF Entries, BatchOf, t
    <2>2. DOMAIN e = 1 .. n /\ e = [i \in DOMAIN e |-> e[i]]
      BY <2>1
    <2>3. IsSequence(e) /\ Len(e) = n
      BY <1>2, <2>2, SequenceMade
    <2>4. \A i \in 1 .. n : t.rows[1][i].at[1] = i
      BY <1>1, <1>2, <1>4 DEF Aligned
    <2>5. ASSUME NEW i \in 1 .. n, NEW c \in ToSet(e[i]) PROVE OfRecord(c, i)
      <3>1. e[i] = << t.rows[1][i] >>
        BY <2>1
      <3>2. c = t.rows[1][i]
        BY <2>5, <3>1, Singleton DEF ToSet
      <3>3. QED
        BY <1>1, <2>4, <3>2 DEF OfRecord
    <2> HIDE DEF e
    <2>6. QED
      BY <1>2, <2>3, <2>5 DEF Fed, e
  <1>5. CASE t.ndim = 2
    <2>1. Entries(a) = t.rows
      BY <1>5 DEF Entries, t
    <2>2. IsSequence(t.rows) /\ Len(t.rows) = n
      BY <1>3, <1>5 DEF BatchOf, Table
    <2>3. \A i \in 1 .. n : \A k \in DOMAIN t.rows[i] : t.rows[i][k].at[1] = i
      BY <1>1, <1>2, <1>5 DEF Aligned
    <2>4. \A i \in 1 .. n : \A c \in ToSet(t.rows[i]) : OfRecord(c, i)
      BY <1>1, <2>3 DEF OfRecord, ToSet
    <2>5. QED
      BY <1>2, <2>1, <2>2, <2>4 DEF Fed
  <1>6. QED
    BY <1>3, <1>4, <1>5

(* so that ONNX is fed records, *)
LEMMA FeedFed ==
    ASSUME ParsingInv, outcome = "predict"
    PROVE  DOMAIN BuildFeed # {} /\ \A n \in DOMAIN BuildFeed : Fed(BuildFeed[n])
  <1>1. ASSUME NEW a, NEW ndim, NEW rows, NEW cols, NEW dtype,
               a = [ndim |-> ndim, rows |-> rows, cols |-> cols, dtype |-> dtype]
        PROVE  /\ Coerce(a).ndim = ndim /\ Coerce(a).rows = rows /\ Coerce(a).cols = cols
    BY <1>1 DEF Coerce
  <1>2. CASE tensors # << >>
    <2>1. BuildFeed = [key \in InputKeys |-> Coerce(Tensor(key))]
      BY <1>2 DEF BuildFeed
    <2>2. ASSUME NEW key \in InputKeys PROVE Fed(Coerce(Tensor(key)))
      BY <1>1, <1>2, TensorFed DEF Tensor, WithType
    <2>3. QED
      BY <2>1, <2>2 DEF InputKeys
  <1>3. CASE tensors = << >>
    <2> DEFINE name == IF settings.inputName # Unset THEN settings.inputName
                       ELSE settings.model.inputs[1]
    <2>1. BuildFeed = [n \in {name} |-> Coerce(X)]
      BY <1>3 DEF BuildFeed
    <2>2. array.ndim = 2
      BY <1>3 DEF ParsingInv, Ready
    <2>3. Fed(Coerce(X))
      BY <1>1, <1>3, <2>2, TableFed DEF X, WithType
    <2> HIDE DEF name
    <2>4. QED
      BY <2>1, <2>3
  <1>4. QED
    BY <1>2, <1>3

(* and the other adapters, where a vector has not become one row. *)
LEMMA FeaturesFed ==
    ASSUME ParsingInv, outcome = "predict", settings.type # "onnx"
    PROVE  Fed(Features) /\ Fed(FloatsToFloat32(Features)) /\ Fed(ToFloat32(Features))
  <1> DEFINE a == IF tensors # << >> THEN Tensor("a") ELSE X
             src == IF tensors # << >> THEN tensors["a"] ELSE array
  <1>1. /\ a = [ndim |-> src.ndim, rows |-> src.rows, cols |-> src.cols,
                dtype |-> a.dtype]
        /\ Features = IF a.ndim = 1 THEN [a EXCEPT !.ndim = 2] ELSE a
    BY DEF Tensor, X, WithType, Features
  <1>2. Table(src) /\ src.ndim \in {1, 2} /\ (src.ndim = 1 => tensors # << >>)
    BY DEF ParsingInv, Ready, Aligned, InputKeys
  <1> HIDE DEF a
  <1>3. Features = [ndim |-> 2, rows |-> src.rows, cols |-> src.cols, dtype |-> a.dtype]
    BY <1>1, <1>2
  <1>4. ASSUME NEW b, b.ndim = 2, b.rows = src.rows, b.cols = src.cols
        PROVE  Fed(b)
    <2>1. CASE src.ndim = 2 /\ tensors = << >>
      BY <1>4, <2>1, TableFed
    <2>2. CASE src.ndim = 2 /\ tensors # << >>
      <3>1. "a" \in InputKeys /\ src = tensors["a"]
        BY <2>2 DEF InputKeys
      <3>2. QED
        BY <1>4, <2>2, <3>1, TensorFed
    <2>3. CASE src.ndim = 1
      <3>1. tensors # << >> /\ MultiInput /\ src = tensors["a"]
        BY <1>2, <2>3 DEF ParsingInv, Ready
      <3>2. ~ByRecord
        BY <2>3, <3>1 DEF ByRecord, PerRecord
      <3>3. IsSequence(Entries(b))
        BY <1>2, <1>4 DEF Entries, Table
      <3>4. QED
        BY <3>2, <3>3 DEF Fed
    <2>4. QED
      BY <1>2, <2>1, <2>2, <2>3
  <1> HIDE DEF src
  <1>5. Fed(Features)
    BY <1>3, <1>4
  <1>6. /\ ToFloat32(Features).ndim = 2 /\ ToFloat32(Features).rows = src.rows
        /\ ToFloat32(Features).cols = src.cols
    BY <1>3 DEF ToFloat32
  <1>7. Fed(ToFloat32(Features))
    BY <1>4, <1>6
  <1>8. QED
    BY <1>5, <1>7 DEF FloatsToFloat32

------------------------------------------------------------------------------
(* What the model answers *)

Even(v) ==
    v.kind = "list" => \/ \A i \in DOMAIN v.items : v.items[i].kind = "list"
                       \/ \A i \in DOMAIN v.items : v.items[i].kind # "list"

(* v holds values of output o only; where the model goes by records, its   *)
(* i-th item is made from the i-th record.                                 *)
FromOutput(v, o) ==
    /\ o \in ToSet(settings.model.outputs)
    /\ v.kind \in {"prediction", "list"}
    /\ Even(v)
    /\ IsSequence(ValuesOf(v))
    /\ \A i \in DOMAIN ValuesOf(v) : \A p \in ToSet(ValuesOf(ValuesOf(v)[i])) :
           p.output = o
    /\ ByRecord =>
           /\ Len(ValuesOf(v)) = Count
           /\ \A i \in DOMAIN ValuesOf(v) : \A p \in ToSet(ValuesOf(ValuesOf(v)[i])) :
                  \A c \in p.from : OfRecord(c, i)

BatchIn(arrays) == Len(Entries(arrays[CHOOSE n \in DOMAIN arrays : TRUE]))
CellsAt(arrays, i) == UNION {ToSet(Entries(arrays[n])[i]) : n \in DOMAIN arrays}

(* The items of a list are its values. *)
LEMMA ListOfValues ==
    ASSUME NEW n \in Nat, NEW f, DOMAIN f = 1 .. n, f = [i \in DOMAIN f |-> f[i]]
    PROVE  /\ ValuesOf(List(f)) = f /\ List(f).kind = "list" /\ List(f).items = f
           /\ IsSequence(f) /\ Len(f) = n
  BY SequenceMade DEF ValuesOf, List

(* A prediction is its own value. *)
LEMMA OnePrediction ==
    ASSUME NEW o, NEW c, NEW k
    PROVE  LET p == Prediction(o, c, k)
           IN  /\ p.kind = "prediction" /\ p.output = o /\ p.from = c
               /\ ValuesOf(p) = <<p>> /\ ToSet(ValuesOf(p)) = {p}
  <1> DEFINE p == Prediction(o, c, k)
  <1>1. p.kind = "prediction" /\ p.output = o /\ p.from = c
    BY DEF Prediction
  <1> HIDE DEF p
  <1>2. ValuesOf(p) = <<p>>
    BY <1>1 DEF ValuesOf
  <1>3. ToSet(<<p>>) = {p}
    BY Singleton DEF ToSet
  <1>4. QED
    BY <1>1, <1>2, <1>3 DEF p

(* The model, fed with records, has a value of its output for each of them. *)
LEMMA OutputFed ==
    ASSUME IsModel(settings.model), NEW o \in ToSet(settings.model.outputs),
           NEW arrays, DOMAIN arrays # {}, \A n \in DOMAIN arrays : Fed(arrays[n])
    PROVE  FromOutput(OutputOf(o, arrays), o)
  <1> DEFINE n == BatchIn(arrays)
             cells(i) == CellsAt(arrays, i)
             shape == settings.model.shape[o]
             v == OutputOf(o, arrays)
             values == [i \in 1 .. n |-> Prediction(o, cells(i), 1)]
             row(i) == [k \in 1 .. 2 |-> Prediction(o, cells(i), k)]
             rows == [i \in 1 .. n |-> List(row(i))]
             whole == Prediction(o, UNION {cells(i) : i \in 1 .. n}, 1)
  <1>1. shape \in {"value", "row", "whole"} /\ (ByRecord => shape # "whole")
    BY DEF IsModel, ByRecord, PerRecord
  <1>2. /\ shape = "value" => v = List(values)
        /\ shape = "row" => v = List(rows)
        /\ shape = "whole" => v = whole
    BY DEF OutputOf, BatchIn, CellsAt
  <1>3. n \in Nat /\ (ByRecord => n = Count)
    <2>1. (CHOOSE m \in DOMAIN arrays : TRUE) \in DOMAIN arrays
      OBVIOUS
    <2>2. QED
      BY <2>1, SequenceShape DEF Fed, BatchIn
  <1>4. ASSUME ByRecord, NEW i \in 1 .. n, NEW c \in cells(i)
        PROVE  OfRecord(c, i)
    <2>1. PICK m \in DOMAIN arrays : c \in ToSet(Entries(arrays[m])[i])
      BY <1>4 DEF CellsAt
    <2>2. QED
      BY <1>3, <1>4, <2>1 DEF Fed
  <1> HIDE DEF n, cells, shape, v
  <1>5. CASE shape = "value"
    <2> HIDE DEF values
    <2>1. DOMAIN values = 1 .. n /\ values = [i \in DOMAIN values |-> values[i]]
      BY DEF values
    <2>2. /\ ValuesOf(v) = values /\ v.kind = "list" /\ v.items = values
          /\ IsSequence(values) /\ Len(values) = n
      BY <1>2, <1>3, <1>5, <2>1, ListOfValues
    <2>3. ASSUME NEW i \in 1 .. n
          PROVE  /\ values[i].kind = "prediction"
                 /\ \A p \in ToSet(ValuesOf(values[i])) :
                        p.output = o /\ p.from = cells(i)
      <3>1. values[i] = Prediction(o, cells(i), 1)
        BY DEF values
      <3>2. QED
        BY <3>1, OnePrediction
    <2>4. Even(v)
      BY <2>1, <2>2, <2>3 DEF Even
    <2>5. QED
      BY <1>3, <1>4, <2>1, <2>2, <2>3, <2>4 DEF FromOutput, v
  <1>6. CASE shape = "row"
    <2> HIDE DEF rows
    <2>1. DOMAIN rows = 1 .. n /\ rows = [i \in DOMAIN rows |-> rows[i]]
      BY DEF rows
    <2>2. /\ ValuesOf(v) = rows /\ v.kind = "list" /\ v.items = rows
          /\ IsSequence(rows) /\ Len(rows) = n
      BY <1>2, <1>3, <1>6, <2>1, ListOfValues
    <2>3. ASSUME NEW i \in 1 .. n
          PROVE  /\ rows[i].kind = "list"
                 /\ \A p \in ToSet(ValuesOf(rows[i])) :
                        p.output = o /\ p.from = cells(i)
      <3>1. rows[i] = List(row(i))
        BY DEF rows
      <3>2. rows[i].kind = "list" /\ ValuesOf(rows[i]) = row(i)
        BY <3>1 DEF List, ValuesOf
      <3>3. \A k \in 1 .. 2 : row(i)[k] = Prediction(o, cells(i), k)
        OBVIOUS
      <3>4. DOMAIN row(i) = 1 .. 2
        OBVIOUS
      <3> HIDE DEF row
      <3>5. ASSUME NEW p \in ToSet(row(i)) PROVE p.output = o /\ p.from = cells(i)
        <4>1. PICK k \in 1 .. 2 : p = row(i)[k]
          BY <3>4, <3>5 DEF ToSet
        <4>2. QED
          BY <3>3, <4>1, OnePrediction
      <3>6. QED
        BY <3>2, <3>5
    <2>4. Even(v)
      BY <2>1, <2>2, <2>3 DEF Even
    <2>5. QED
      BY <1>3, <1>4, <2>1, <2>2, <2>3, <2>4 DEF FromOutput, v
  <1>7. CASE shape = "whole"
    <2>1. /\ v.kind = "prediction" /\ v.output = o
          /\ ValuesOf(v) = <<v>> /\ ToSet(ValuesOf(v)) = {v}
      BY <1>2, <1>7, OnePrediction
    <2>2. IsSequence(<<v>>) /\ DOMAIN <<v>> = {1} /\ <<v>>[1] = v
      BY Singleton
    <2>3. Even(v)
      BY <2>1 DEF Even
    <2>4. ~ByRecord
      BY <1>1, <1>7
    <2>5. QED
      BY <2>1, <2>2, <2>3, <2>4 DEF FromOutput, v
  <1>8. QED
    BY <1>1, <1>5, <1>6, <1>7

(* What a prediction holds: the outputs of an output map under its keys,   *)
(* the output that the settings select, or what the model's call returns.  *)
IsSelected(o) ==
    IF settings.outputName # Unset THEN o = settings.outputName
    ELSE settings.outputIndex + 1 \in DOMAIN settings.model.outputs =>
             o = settings.model.outputs[settings.outputIndex + 1]

FromOnnx(v) ==
    IF HasOutputMap
    THEN /\ v.kind = "object"
         /\ DOMAIN v.fields = {settings.outputMap.pairs[k].key :
                                   k \in DOMAIN settings.outputMap.pairs}
         /\ \A k \in DOMAIN settings.outputMap.pairs :
                FromOutput(v.fields[settings.outputMap.pairs[k].key],
                           settings.outputMap.pairs[k].name)
    ELSE \E o \in ToSet(settings.model.outputs) : IsSelected(o) /\ FromOutput(v, o)

FromCall(v) ==
    \/ v.kind = "list" /\ settings.model.returns = "tuple"
    \/ v.kind = "object" /\ \A o \in DOMAIN v.fields : FromOutput(v.fields[o], o)
    \/ \E o \in ToSet(settings.model.outputs) : FromOutput(v, o)

Predicted(v) == IF settings.type = "onnx" THEN FromOnnx(v) ELSE FromCall(v)

(* What the call of a model returns. *)
LEMMA CallPredicted ==
    ASSUME IsModel(settings.model), NEW a, Fed(a)
    PROVE  FromCall(Call(a))
  <1> DEFINE outputs == settings.model.outputs
             value(o) == OutputOf(o, [x |-> a])
             tuple == [k \in DOMAIN outputs |-> value(outputs[k])]
             dict == [o \in ToSet(outputs) |-> value(o)]
  <1>1. DOMAIN [x |-> a] = {"x"} /\ [x |-> a]["x"] = a
    OBVIOUS
  <1>2. \A o \in ToSet(outputs) : FromOutput(value(o), o)
    BY <1>1, OutputFed
  <1>3. /\ settings.model.returns \in {"tensor", "tuple", "dict"}
        /\ outputs[1] \in ToSet(outputs)
    BY SequenceShape DEF IsModel, ToSet
  <1>4. CASE settings.model.returns = "tensor"
    <2>1. Call(a) = value(outputs[1])
      BY <1>4 DEF Call
    <2>2. QED
      BY <1>2, <1>3, <2>1 DEF FromCall
  <1>5. CASE settings.model.returns = "tuple"
    <2>1. Call(a) = List(tuple)
      BY <1>5 DEF Call
    <2>2. QED
      BY <1>5, <2>1 DEF FromCall, List
  <1>6. CASE settings.model.returns = "dict"
    <2>1. Call(a) = Object(dict)
      BY <1>6 DEF Call
    <2>2. /\ Object(dict).kind = "object" /\ Object(dict).fields = dict
          /\ DOMAIN dict = ToSet(outputs)
          /\ \A o \in ToSet(outputs) : dict[o] = value(o)
      BY DEF Object
    <2> HIDE DEF dict, value
    <2>3. QED
      BY <1>2, <2>1, <2>2 DEF FromCall
  <1>7. QED
    BY <1>3, <1>4, <1>5, <1>6

(* The k-th output of a session is the k-th that was requested. *)
LEMMA SessionRuns ==
    ASSUME IsModel(settings.model), NEW names, NEW arrays,
           ~Raised(RunSession(names, arrays)),
           DOMAIN arrays # {}, \A n \in DOMAIN arrays : Fed(arrays[n])
    PROVE  LET outputs == RunSession(names, arrays).outputs
           IN  \A k \in DOMAIN names : FromOutput(outputs[k], names[k])
  <1> DEFINE outputs == [k \in DOMAIN names |-> OutputOf(names[k], arrays)]
             result == RunSession(names, arrays)
  <1>1. /\ \E e : result = Failure(e) \/ result = [outputs |-> outputs]
        /\ result = Failure("ValueError") \/ result = Failure("InvalidArgument")
           \/ /\ result = [outputs |-> outputs]
              /\ ToSet(names) \subseteq ToSet(settings.model.outputs)
    BY DEF RunSession
  <1>2. /\ result.outputs = outputs
        /\ ToSet(names) \subseteq ToSet(settings.model.outputs)
    BY <1>1, FailureRaises
  <1> HIDE DEF result
  <1>3. ASSUME NEW k \in DOMAIN names
        PROVE  FromOutput(outputs[k], names[k])
    <2>1. names[k] \in ToSet(settings.model.outputs)
      BY <1>2 DEF ToSet
    <2>2. outputs[k] = OutputOf(names[k], arrays)
      OBVIOUS
    <2>3. QED
      BY <2>1, <2>2, OutputFed
  <1>4. QED
    BY <1>2, <1>3 DEF result

(* zip gives each key of the output map the output of that name. *)
LEMMA MapPredicted ==
    ASSUME IsOutputMap(settings.outputMap), settings.outputMap # Malformed,
           HasOutputMap, NEW outputs,
           \A k \in DOMAIN Requested : FromOutput(outputs[k], Requested[k])
    PROVE  FromOnnx(Mapped(outputs))
  <1> DEFINE map == settings.outputMap.pairs
             keys == {map[k].key : k \in DOMAIN map}
             place(key) == CHOOSE k \in DOMAIN map : map[k].key = key
             fields == [key \in keys |-> outputs[place(key)]]
  <1>1. \A k, l \in DOMAIN map : map[k].key = map[l].key => k = l
    BY DEF IsOutputMap, HasOutputMap
  <1>2. Requested = [k \in DOMAIN map |-> map[k].name]
    BY DEF Requested
  <1>3. Mapped(outputs) = Object(fields)
    BY DEF Mapped
  <1>4. ASSUME NEW k \in DOMAIN map
        PROVE  FromOutput(fields[map[k].key], map[k].name)
    <2>1. place(map[k].key) = k
      BY <1>1
    <2>2. fields[map[k].key] = outputs[k]
      BY <2>1
    <2>3. FromOutput(outputs[k], map[k].name)
      BY <1>2
    <2>4. QED
      BY <2>2, <2>3
  <1>5. DOMAIN fields = keys
    OBVIOUS
  <1> HIDE DEF fields
  <1>6. Object(fields).kind = "object" /\ Object(fields).fields = fields
    BY DEF Object
  <1>7. QED
    BY <1>3, <1>4, <1>5, <1>6 DEF FromOnnx

(* An output index that is in the range is left alone by the clamping. *)
LEMMA OutputSelected ==
    ASSUME IsModel(settings.model), settings.outputIndex \in Int, ~HasOutputMap
    PROVE  \E o : Requested = <<o>> /\ IsSelected(o)
  <1> DEFINE outputs == settings.model.outputs
             i == settings.outputIndex
  <1>1. CASE settings.outputName # Unset
    BY <1>1 DEF Requested, IsSelected
  <1>2. CASE settings.outputName = Unset
    <2>1. Requested = <<outputs[Clamp(i, Len(outputs)) + 1]>>
      BY <1>2 DEF Requested
    <2>2. DOMAIN outputs = 1 .. Len(outputs) /\ Len(outputs) \in Nat
      BY SequenceShape DEF IsModel
    <2>3. i + 1 \in DOMAIN outputs => Clamp(i, Len(outputs)) = i
      BY <2>2 DEF Clamp, Upper, Lower
    <2>4. QED
      BY <1>2, <2>1, <2>3 DEF IsSelected
  <1>3. QED
    BY <1>1, <1>2

------------------------------------------------------------------------------
(* What the client reads *)

Formatted ==
    IF predictions.kind = "object" THEN Json(predictions)
    ELSE IF WantsCsv THEN Csv(TableLines)
    ELSE IF settings.predictionsOnly THEN Json(predictions)
    ELSE Json(Object([predictions |-> predictions]))

(* The three forms of a response. *)
LEMMA FormattedCases ==
    /\ Formatted.status = 200
    /\ predictions.kind = "object" => Formatted = Json(predictions)
    /\ \/ Formatted = Json(predictions)
       \/ Formatted = Csv(TableLines)
       \/ Formatted = Json(Object([predictions |-> predictions]))
  BY DEF Formatted, Json, Csv

(* A list in the response has, item by item, the values of the prediction. *)
LEMMA ListsRead ==
    ASSUME NEW o, FromOutput(predictions, o), response = Formatted, NEW list \in Lists
    PROVE  LET items == ValuesOf(predictions)
           IN  /\ DOMAIN list = DOMAIN items
               /\ Len(list) = Len(items)
               /\ \A i \in DOMAIN items :
                      ToSet(ValuesOf(list[i])) = ToSet(ValuesOf(items[i]))
  <1> DEFINE items == ValuesOf(predictions)
  <1>1. predictions.kind # "object" /\ Even(predictions) /\ IsSequence(items)
    BY DEF FromOutput
  <1>2. CASE response = Json(predictions)
    <2>1. response.media = "json" /\ response.value = predictions
      BY <1>2 DEF Json
    <2>2. Lists = {items}
      BY <1>1, <2>1 DEF Lists
    <2>3. QED
      BY <2>2
  <1>3. CASE response = Json(Object([predictions |-> predictions]))
    <2> DEFINE f == [predictions |-> predictions]
    <2>1. DOMAIN f = {"predictions"} /\ f["predictions"] = predictions
      OBVIOUS
    <2> HIDE DEF f
    <2>2. response.media = "json" /\ response.value = Object(f)
      BY <1>3 DEF Json, f
    <2>3. Object(f).kind = "object" /\ Object(f).fields = f
      BY DEF Object
    <2>4. Lists = {ValuesOf(f[key]) : key \in DOMAIN f}
      BY <2>2, <2>3 DEF Lists
    <2>5. list = items
      BY <2>1, <2>4
    <2>6. QED
      BY <2>5
  <1>4. CASE response = Csv(TableLines)
    <2> DEFINE lines == TableLines
               read == [i \in DOMAIN lines |-> List(lines[i])]
               table == /\ predictions.kind = "list"
                        /\ items # << >>
                        /\ \A i \in DOMAIN items : items[i].kind = "list"
    <2>1. response.media = "csv" /\ response.lines = lines
      BY <1>4 DEF Csv
    <2>2. Lists = {read}
      BY <2>1 DEF Lists
    <2>3. lines = [i \in DOMAIN items |-> IF table THEN items[i].items ELSE <<items[i]>>]
      BY DEF TableLines
    <2>4. DOMAIN lines = DOMAIN items /\ DOMAIN read = DOMAIN items
      BY <2>3
    <2>5. DOMAIN items = 1 .. Len(items) /\ Len(items) \in Nat
      BY <1>1, SequenceShape
    <2>6. Len(read) = Len(items)
      BY <2>4, <2>5
    <2>7. ASSUME NEW i \in DOMAIN items
          PROVE  ToSet(ValuesOf(read[i])) = ToSet(ValuesOf(items[i]))
      <3>1. ValuesOf(read[i]) = lines[i]
        BY <2>4 DEF ValuesOf, List
      <3>2. CASE table
        BY <2>3, <3>1, <3>2 DEF ValuesOf
      <3>3. CASE ~table
        <4>1. lines[i] = <<items[i]>>
          BY <2>3, <3>3
        <4>2. items[i].kind # "list"
          <5>1. CASE predictions.kind = "list"
            <6>1. items = predictions.items /\ items # << >>
              BY <2>5, <5>1 DEF ValuesOf
            <6>2. QED
              BY <1>1, <3>3, <5>1, <6>1 DEF Even
          <5>2. CASE predictions.kind # "list"
            <6>1. items = <<predictions>>
              BY <5>2 DEF ValuesOf
            <6>2. items[i] = predictions
              BY <6>1, Singleton
            <6>3. QED
              BY <5>2, <6>2
          <5>3. QED
            BY <5>1, <5>2
        <4>3. QED
          BY <3>1, <4>1, <4>2 DEF ValuesOf
      <3>4. QED
        BY <3>2, <3>3
    <2>8. list = read
      BY <2>2
    <2> HIDE DEF read
    <2>9. QED
      BY <2>4, <2>6, <2>7, <2>8
  <1>5. QED
    BY <1>2, <1>3, <1>4, FormattedCases

------------------------------------------------------------------------------
(* The request from its body to its response *)

IsServed ==
    /\ IsModel(settings.model)
    /\ IsOutputMap(settings.outputMap)
    /\ settings.outputIndex \in Int

(* A refusal, or the predictions as they are formatted. *)
IsResponse ==
    \/ response \in {NoResponse, [status |-> 400], [status |-> 500]}
    \/ predictions # NoPredictions /\ response = Formatted

InferenceInv ==
    /\ ParsingInv
    /\ IsServed
    /\ loaded \in BOOLEAN
    /\ ~loaded => stage = "load"
    /\ loaded => ~(settings.type = "onnx" /\ settings.outputMap = Malformed)
    /\ predictions # NoPredictions => outcome = "predict" /\ Predicted(predictions)
    /\ IsResponse

(* What is served does not change. *)
LEMMA SameServed ==
    ASSUME settings' = settings
    PROVE  IsServed' <=> IsServed
  BY DEF IsServed, IsModel, IsOutputMap

(* The predictions stay what they are while the request does. *)
LEMMA SameOutput ==
    ASSUME UNCHANGED vars, NEW v, NEW o
    PROVE  FromOutput(v, o)' <=> FromOutput(v, o)
  <1>1. body' = body /\ settings' = settings /\ tensors' = tensors
    BY DEF vars
  <1>2. /\ Records' = Records /\ (Clear' <=> Clear) /\ (MultiInput' <=> MultiInput)
        /\ InputRecords' = InputRecords
    BY <1>1, SameRequest
  <1>3. /\ ByRecord' <=> ByRecord
        /\ Count' = Count
    BY <1>1, <1>2 DEF ByRecord, PerRecord, Count
  <1>4. ASSUME NEW c, NEW i
        PROVE  OfRecord(c, i)' <=> OfRecord(c, i)
    BY <1>1, <1>2 DEF OfRecord
  <1>5. QED
    BY <1>1, <1>3, <1>4 DEF FromOutput

(* So predictions that were right stay right. *)
LEMMA SamePrediction ==
    ASSUME UNCHANGED vars, NEW v, Predicted(v), predictions' = v
    PROVE  Predicted(predictions)'
  <1>1. settings' = settings
    BY DEF vars
  <1>2. \A u, o : FromOutput(u, o)' <=> FromOutput(u, o)
    BY SameOutput
  <1>3. QED
    BY <1>1, <1>2 DEF Predicted, FromOnnx, FromCall, HasOutputMap, IsSelected

(* Nor does the response that is due. *)
LEMMA SameFormat ==
    ASSUME UNCHANGED vars, predictions' = predictions
    PROVE  Formatted' = Formatted
  <1>1. body' = body /\ settings' = settings
    BY DEF vars
  <1>2. QED
    BY <1>1 DEF Formatted, WantsCsv, AcceptHeader, TableLines

(* InferenceInv holds at first. *)
LEMMA InferenceInitial ==
    ASSUME InferenceInit
    PROVE  InferenceInv
  <1>1. Init /\ loaded = FALSE /\ predictions = NoPredictions /\ response = NoResponse
    BY DEF InferenceInit
  <1>2. IsServed
    BY <1>1, ServedAssumption DEF Init, IsServed
  <1>3. stage = "load"
    BY <1>1 DEF Init
  <1>4. QED
    BY <1>1, <1>2, <1>3, ParsingInit DEF InferenceInv, IsResponse

(* A step that leaves the request and its predictions as they are. *)
LEMMA QuietStep ==
    ASSUME InferenceInv, UNCHANGED <<vars, predictions>>, loaded' = loaded, IsResponse'
    PROVE  InferenceInv'
  <1>1. ParsingInv'
    BY SameParse DEF InferenceInv
  <1>2. UNCHANGED vars /\ predictions' = predictions
    OBVIOUS
  <1>3. settings' = settings /\ stage' = stage /\ outcome' = outcome
    BY <1>2 DEF vars
  <1>4. IsServed' /\ (Predicted(predictions) => Predicted(predictions)')
    BY <1>2, <1>3, SameServed, SamePrediction DEF InferenceInv
  <1>5. QED
    BY <1>1, <1>2, <1>3, <1>4 DEF InferenceInv

(* A refusal answers and leaves the rest. *)
LEMMA RefuseStep ==
    ASSUME InferenceInv, NEW e, Refuse(e), UNCHANGED <<vars, loaded, predictions>>
    PROVE  InferenceInv'
  <1>1. IsResponse'
    BY DEF Refuse, IsResponse
  <1>2. QED
    BY <1>1, QuietStep

(* Once an adapter is constructed, its output map is a JSON object. *)
LEMMA LoadAdapterStep ==
    ASSUME InferenceInv, LoadAdapter
    PROVE  InferenceInv'
  <1>1. UNCHANGED <<vars, predictions>>
    BY DEF LoadAdapter
  <1>2. CASE loaded' = loaded /\ \E e : Refuse(e)
    BY <1>1, <1>2, RefuseStep
  <1>3. CASE /\ ~(settings.type = "onnx" /\ settings.outputMap = Malformed)
             /\ loaded' = TRUE /\ response' = response /\ response = NoResponse
    <2>1. ParsingInv'
      BY <1>1, SameParse DEF InferenceInv
    <2>2. settings' = settings /\ stage' = stage /\ outcome' = outcome
      BY <1>1 DEF vars
    <2>3. IsServed' /\ (Predicted(predictions) => Predicted(predictions)')
      BY <1>1, <2>2, SameServed, SamePrediction DEF InferenceInv
    <2>4. IsResponse'
      BY <1>3 DEF IsResponse
    <2>5. QED
      BY <1>1, <1>3, <2>1, <2>2, <2>3, <2>4 DEF InferenceInv
  <1>4. QED
    BY <1>2, <1>3 DEF LoadAdapter

(* The parser is done before there are predictions, and stays so. *)
LEMMA ParseStep ==
    ASSUME InferenceInv, Parse
    PROVE  InferenceInv'
  <1>1. loaded /\ Next /\ loaded' = loaded /\ predictions' = predictions
        /\ response' = response
    BY DEF Parse, served
  <1>2. CASE UNCHANGED vars
    <2>1. IsResponse'
      BY <1>1, <1>2, SameFormat DEF InferenceInv, IsResponse
    <2>2. QED
      BY <1>1, <1>2, <2>1, QuietStep
  <1>3. CASE ~ UNCHANGED vars
    <2>1. stage # "done"
      BY <1>1, <1>3 DEF Next, LoadCsv, LoadJson, LoadJsonl, LoadUnsupported,
         LoadMultiInput, Cast, Split, ValidateFeatureCount, LimitBatch, Done
    <2>2. outcome = "none" /\ predictions = NoPredictions
      BY <2>1 DEF InferenceInv, ParsingInv, TypeOK
    <2>3. ParsingInv'
      BY <1>1, ParsingStep DEF InferenceInv
    <2>4. settings' = settings
      BY <1>1 DEF Next, LoadCsv, LoadJson, LoadJsonl, LoadUnsupported,
         LoadMultiInput, Cast, Split, ValidateFeatureCount, LimitBatch, Done,
         Raise, Store, vars
    <2>5. IsServed'
      BY <2>4, SameServed DEF InferenceInv
    <2>6. IsResponse'
      BY <1>1, <2>2 DEF InferenceInv, IsResponse
    <2>7. QED
      BY <1>1, <2>2, <2>3, <2>4, <2>5, <2>6 DEF InferenceInv
  <1>4. QED
    BY <1>2, <1>3

(* Predictions that are what they should be may be returned. *)
LEMMA ReturnStep ==
    ASSUME InferenceInv, outcome = "predict", response = NoResponse,
           NEW v, Predicted(v), Return(v)
    PROVE  InferenceInv'
  <1>1. UNCHANGED vars /\ predictions' = v /\ loaded' = loaded /\ response' = response
    BY DEF Return
  <1>2. ParsingInv'
    BY <1>1, SameParse DEF InferenceInv
  <1>3. settings' = settings /\ stage' = stage /\ outcome' = outcome
    BY <1>1 DEF vars
  <1>4. Predicted(predictions)'
    BY <1>1, SamePrediction
  <1>5. IsServed'
    BY <1>3, SameServed DEF InferenceInv
  <1>6. IsResponse'
    BY <1>1 DEF IsResponse
  <1>7. QED
    BY <1>1, <1>2, <1>3, <1>4, <1>5, <1>6 DEF InferenceInv

(* ONNX returns the requested outputs. *)
LEMMA PredictOnnxStep ==
    ASSUME InferenceInv, PredictOnnx
    PROVE  InferenceInv'
  <1> DEFINE result == RunSession(Requested, BuildFeed)
  <1>1. settings.type = "onnx" /\ outcome = "predict" /\ response = NoResponse
    BY DEF PredictOnnx, Predicting
  <1>2. CASE \E e : Except(e)
    BY <1>2, RefuseStep DEF Except
  <1>3. CASE ~ \E e : Except(e)
    <2>1. /\ ~Raised(result)
          /\ IF HasOutputMap THEN Return(Mapped(result.outputs))
             ELSE Return(result.outputs[1])
      BY <1>3 DEF PredictOnnx
    <2>2. /\ ParsingInv /\ IsModel(settings.model) /\ IsOutputMap(settings.outputMap)
          /\ settings.outputIndex \in Int
      BY DEF InferenceInv, IsServed
    <2>3. settings.outputMap # Malformed
      <3>1. stage = "done"
        BY <1>1, <2>2 DEF ParsingInv, TypeOK
      <3>2. QED
        BY <1>1, <3>1 DEF InferenceInv
    <2>4. \A k \in DOMAIN Requested : FromOutput(result.outputs[k], Requested[k])
      <3>1. DOMAIN BuildFeed # {} /\ \A n \in DOMAIN BuildFeed : Fed(BuildFeed[n])
        BY <1>1, <2>2, FeedFed
      <3>2. QED
        BY <2>1, <2>2, <3>1, SessionRuns
    <2> HIDE DEF result
    <2>5. CASE HasOutputMap
      <3>1. FromOnnx(Mapped(result.outputs))
        BY <2>2, <2>3, <2>4, <2>5, MapPredicted
      <3>2. QED
        BY <1>1, <2>1, <2>5, <3>1, ReturnStep DEF Predicted
    <2>6. CASE ~HasOutputMap
      <3>1. PICK o : Requested = <<o>> /\ IsSelected(o)
        BY <2>2, <2>6, OutputSelected
      <3>2. FromOutput(result.outputs[1], o)
        BY <2>4, <3>1, Singleton
      <3>3. o \in ToSet(settings.model.outputs)
        BY <3>2 DEF FromOutput
      <3>4. Predicted(result.outputs[1])
        BY <1>1, <2>6, <3>1, <3>2, <3>3 DEF Predicted, FromOnnx
      <3>5. QED
        BY <1>1, <2>1, <2>6, <3>4, ReturnStep
    <2>7. QED
      BY <2>5, <2>6
  <1>4. QED
    BY <1>2, <1>3

(* The frameworks other than ONNX call the model with one array. *)
LEMMA CallStep ==
    ASSUME InferenceInv, settings.type # "onnx", outcome = "predict",
           response = NoResponse,
           NEW a, Fed(a), Return(Call(a)) \/ \E e : Except(e)
    PROVE  InferenceInv'
  <1>1. CASE \E e : Except(e)
    BY <1>1, RefuseStep DEF Except
  <1>2. CASE Return(Call(a))
    <2>1. FromCall(Call(a))
      BY CallPredicted DEF InferenceInv, IsServed
    <2>2. Predicted(Call(a))
      BY <2>1 DEF Predicted
    <2>3. QED
      BY <1>2, <2>2, ReturnStep
  <1>3. QED
    BY <1>1, <1>2

(* scikit-learn, PyTorch and TensorFlow do so. *)
LEMMA PredictOtherStep ==
    ASSUME InferenceInv, PredictSklearn \/ PredictPytorch \/ PredictTensorflow
    PROVE  InferenceInv'
  <1>1. settings.type # "onnx" /\ outcome = "predict" /\ response = NoResponse
    BY DEF PredictSklearn, PredictPytorch, PredictTensorflow, Predicting
  <1>2. /\ Fed(Features) /\ Fed(FloatsToFloat32(Features)) /\ Fed(ToFloat32(Features))
    BY <1>1, FeaturesFed DEF InferenceInv
  <1>3. CASE PredictSklearn
    <2>1. Return(Call(Features)) \/ \E e : Except(e)
      BY <1>3 DEF PredictSklearn
    <2>2. QED
      BY <1>1, <1>2, <2>1, CallStep
  <1>4. CASE PredictPytorch
    <2>1. Return(Call(FloatsToFloat32(Features))) \/ \E e : Except(e)
      BY <1>4 DEF PredictPytorch
    <2>2. QED
      BY <1>1, <1>2, <2>1, CallStep
  <1>5. CASE PredictTensorflow
    <2>1. Return(Call(ToFloat32(Features))) \/ \E e : Except(e)
      BY <1>5 DEF PredictTensorflow
    <2>2. QED
      BY <1>1, <1>2, <2>1, CallStep
  <1>6. QED
    BY <1>3, <1>4, <1>5

(* The response is made of the predictions. *)
LEMMA FormatOutputStep ==
    ASSUME InferenceInv, FormatOutput
    PROVE  InferenceInv'
  <1>1. /\ predictions # NoPredictions /\ response' = Formatted
        /\ UNCHANGED <<vars, loaded, predictions>>
    BY DEF FormatOutput, Formatted
  <1>2. IsResponse'
    BY <1>1, SameFormat DEF IsResponse
  <1>3. QED
    BY <1>1, <1>2, QuietStep

(* Every step preserves InferenceInv. *)
LEMMA InferenceStep ==
    ASSUME InferenceInv, [InferenceNext]_inferenceVars
    PROVE  InferenceInv'
  <1>1. CASE Answered \/ UNCHANGED inferenceVars
    <2>1. /\ UNCHANGED vars /\ loaded' = loaded /\ predictions' = predictions
          /\ response' = response
      BY <1>1 DEF Answered, inferenceVars, served
    <2>2. IsResponse'
      BY <2>1, SameFormat DEF InferenceInv, IsResponse
    <2>3. QED
      BY <2>1, <2>2, QuietStep
  <1>2. CASE RefuseBody
    BY <1>2, RefuseStep DEF RefuseBody
  <1>3. QED
    BY <1>1, <1>2, LoadAdapterStep, ParseStep, PredictOnnxStep, PredictOtherStep,
       FormatOutputStep DEF InferenceNext

(* The inductive invariant. *)
LEMMA Invariant ==
    InferenceSpec => []InferenceInv
  <1>1. InferenceInit => InferenceInv
    BY InferenceInitial
  <1>2. InferenceInv /\ [InferenceNext]_inferenceVars => InferenceInv'
    BY InferenceStep
  <1>3. QED
    BY <1>1, <1>2, PTL DEF InferenceSpec

------------------------------------------------------------------------------
(* Theorems *)

(* Every variable keeps its type; nothing is predicted before the body is  *)
(* parsed, and nothing answered with 200 that was not predicted.           *)
THEOREM InferenceTypeCorrect ==
    InferenceSpec => []InferenceTypeOK
  <1>1. ASSUME InferenceInv PROVE InferenceTypeOK
    <2>1. TypeOK /\ loaded \in BOOLEAN
      BY <1>1 DEF InferenceInv, ParsingInv
    <2>2. predictions.kind \in {"none", "prediction", "list", "object"}
      <3>1. NoPredictions.kind = "none"
        BY DEF NoPredictions
      <3>2. \A v, o : FromOutput(v, o) => v.kind \in {"prediction", "list"}
        BY DEF FromOutput
      <3>3. \A v : FromOnnx(v) => v.kind \in {"prediction", "list", "object"}
        BY <3>2 DEF FromOnnx
      <3>4. \A v : FromCall(v) => v.kind \in {"prediction", "list", "object"}
        BY <3>2 DEF FromCall
      <3>5. QED
        BY <1>1, <3>1, <3>3, <3>4 DEF InferenceInv, Predicted
    <2>3. /\ response.status \in {0, 200, 400, 500}
          /\ response.status = 200 => predictions # NoPredictions
      <3>1. Formatted.status = 200
        BY FormattedCases
      <3>2. QED
        BY <1>1, <3>1 DEF InferenceInv, IsResponse, NoResponse
    <2>4. predictions # NoPredictions => outcome = "predict"
      BY <1>1 DEF InferenceInv
    <2>5. QED
      BY <2>1, <2>2, <2>3, <2>4 DEF InferenceTypeOK
  <1>2. QED
    BY <1>1, Invariant, PTL

(* Of a body that says what it means, the model gets one row for each      *)
(* record, in their order, made of that record's values alone.             *)
THEOREM RowsAreRecords ==
    InferenceSpec => []OneRowPerRecord
  <1>1. InferenceInv => OneRowPerRecord
    BY ParsingProperties DEF InferenceInv
  <1>2. QED
    BY <1>1, Invariant, PTL

(* The id columns are split from the features of their record, and no      *)
(* value gets lost between the two.                                        *)
THEOREM IdsAreSplit ==
    InferenceSpec => []IdsSplitFromFeatures
  <1>1. InferenceInv => IdsSplitFromFeatures
    BY ParsingProperties DEF InferenceInv
  <1>2. QED
    BY <1>1, Invariant, PTL

(* No adapter is called with more records than MAX_RECORDS. *)
THEOREM RecordsAreBounded ==
    InferenceSpec => []RecordsBounded
  <1>1. InferenceInv => RecordsBounded
    BY ParsingProperties DEF InferenceInv
  <1>2. QED
    BY <1>1, Invariant, PTL

(* The i-th entry of every named input comes from the i-th record, whether *)
(* or not ONNX_DYNAMIC_BATCH compares their batch sizes.                   *)
THEOREM TensorsAreAligned ==
    InferenceSpec => []TensorsAligned
  <1>1. InferenceInv => TensorsAligned
    BY ParsingProperties DEF InferenceInv
  <1>2. QED
    BY <1>1, Invariant, PTL

(* A 200 is made of predictions. *)
LEMMA Answers ==
    ASSUME InferenceInv, response.status = 200
    PROVE  /\ predictions # NoPredictions /\ Predicted(predictions)
           /\ response = Formatted
           /\ outcome = "predict"
  BY DEF InferenceInv, IsResponse, NoResponse

(* Each field of an object of predictions is of one output. *)
LEMMA ObjectPredicted ==
    ASSUME NEW v, Predicted(v), v.kind = "object"
    PROVE  /\ settings.type # "onnx" =>
                  \A o \in DOMAIN v.fields : FromOutput(v.fields[o], o)
           /\ \A key \in DOMAIN v.fields : \E o : FromOutput(v.fields[key], o)
  <1>1. \A o : ~FromOutput(v, o)
    BY DEF FromOutput
  <1>2. CASE settings.type = "onnx"
    <2>1. FromOnnx(v) /\ HasOutputMap
      BY <1>1, <1>2 DEF Predicted, FromOnnx
    <2>2. ASSUME NEW key \in DOMAIN v.fields
          PROVE  \E o : FromOutput(v.fields[key], o)
      <3>1. PICK k \in DOMAIN settings.outputMap.pairs :
                key = settings.outputMap.pairs[k].key
        BY <2>1, <2>2 DEF FromOnnx
      <3>2. QED
        BY <2>1, <3>1 DEF FromOnnx
    <2>3. QED
      BY <1>2, <2>2
  <1>3. CASE settings.type # "onnx"
    <2>1. FromCall(v)
      BY <1>3 DEF Predicted
    <2>2. \A o \in DOMAIN v.fields : FromOutput(v.fields[o], o)
      BY <1>1, <2>1 DEF FromCall
    <2>3. QED
      BY <2>2
  <1>4. QED
    BY <1>2, <1>3

(* Predictions by name are JSON, as they are. *)
LEMMA ObjectsRead ==
    ASSUME predictions.kind = "object", response = Formatted
    PROVE  /\ response.value = predictions
           /\ Lists = {ValuesOf(predictions.fields[key]) :
                           key \in DOMAIN predictions.fields}
  <1>1. response.media = "json" /\ response.value = predictions
    BY FormattedCases DEF Json
  <1>2. QED
    BY <1>1 DEF Lists

(* Where a model goes record by record, every list that a client reads,    *)
(* JSON or CSV, has one item for each record of its body, in their order,  *)
(* each made from that record alone.                                       *)
THEOREM AnswersAreRecords ==
    InferenceSpec => []AnswerPerRecord
  <1>1. ASSUME InferenceInv PROVE AnswerPerRecord
    <2>1. ASSUME response.status = 200, ByRecord, NEW list \in Lists
          PROVE  /\ Len(list) = Count
                 /\ \A i \in 1 .. Count : \A p \in ToSet(ValuesOf(list[i])) :
                        \A c \in p.from : OfRecord(c, i)
      <3>1. Predicted(predictions) /\ response = Formatted
        BY <1>1, <2>1, Answers
      <3>2. ASSUME NEW v, NEW o, FromOutput(v, o)
            PROVE  /\ Len(ValuesOf(v)) = Count
                   /\ DOMAIN ValuesOf(v) = 1 .. Count
                   /\ \A i \in DOMAIN ValuesOf(v) :
                          \A p \in ToSet(ValuesOf(ValuesOf(v)[i])) :
                              \A c \in p.from : OfRecord(c, i)
        BY <2>1, <3>2, SequenceShape DEF FromOutput
      <3>3. CASE \E o : FromOutput(predictions, o)
        <4>1. PICK o : FromOutput(predictions, o)
          BY <3>3
        <4>2. /\ DOMAIN list = DOMAIN ValuesOf(predictions)
              /\ Len(list) = Len(ValuesOf(predictions))
              /\ \A i \in DOMAIN ValuesOf(predictions) :
                     ToSet(ValuesOf(list[i])) = ToSet(ValuesOf(ValuesOf(predictions)[i]))
          BY <2>1, <3>1, <4>1, ListsRead
        <4>3. QED
          BY <3>2, <4>1, <4>2
      <3>4. CASE predictions.kind = "object"
        <4>1. PICK key \in DOMAIN predictions.fields :
                  list = ValuesOf(predictions.fields[key])
          BY <2>1, <3>1, <3>4, ObjectsRead
        <4>2. \E o : FromOutput(predictions.fields[key], o)
          BY <3>1, <3>4, <4>1, ObjectPredicted
        <4>3. QED
          BY <3>2, <4>1, <4>2
      <3>5. settings.type # "onnx" => settings.model.returns # "tuple"
        BY <2>1 DEF ByRecord, PerRecord
      <3>6. QED
        BY <3>1, <3>3, <3>4, <3>5 DEF Predicted, FromOnnx, FromCall
    <2>2. QED
      BY <2>1 DEF AnswerPerRecord, ByRecord, Count, OfRecord
  <1>2. QED
    BY <1>1, Invariant, PTL

(* Under a key of the response is the output that the output map, or the   *)
(* model, gives that name; without keys, the output the settings select.   *)
THEOREM OutputsKeepNames ==
    InferenceSpec => []OutputsKeepTheirNames
  <1>1. ASSUME InferenceInv, response.status = 200 PROVE OutputsKeepTheirNames
    <2>1. Predicted(predictions) /\ response = Formatted
      BY <1>1, Answers
    <2>2. ASSUME NEW v, NEW o, FromOutput(v, o)
          PROVE  \A p \in Leaves(v) : p.output = o
      BY <2>2 DEF FromOutput, Leaves
    <2>3. CASE settings.type = "onnx" /\ HasOutputMap
      <3> DEFINE map == settings.outputMap.pairs
      <3>1. response.value = predictions
        BY <2>1, <2>3, ObjectsRead DEF Predicted, FromOnnx
      <3>2. \A k \in DOMAIN map :
                FromOutput(response.value.fields[map[k].key], map[k].name)
        BY <2>1, <2>3, <3>1 DEF Predicted, FromOnnx
      <3>3. \A k \in DOMAIN map : \A p \in Leaves(response.value.fields[map[k].key]) :
                p.output = map[k].name
        BY <2>2, <3>2
      <3>4. QED
        BY <2>3, <3>3 DEF OutputsKeepTheirNames
    <2>4. CASE settings.type = "onnx" /\ ~HasOutputMap
      <3>1. PICK o : IsSelected(o) /\ FromOutput(predictions, o)
        BY <2>1, <2>4 DEF Predicted, FromOnnx
      <3>2. ASSUME NEW list \in Lists, NEW i \in DOMAIN list,
                   NEW p \in ToSet(ValuesOf(list[i]))
            PROVE  p.output = o
        <4>1. /\ i \in DOMAIN ValuesOf(predictions)
              /\ p \in ToSet(ValuesOf(ValuesOf(predictions)[i]))
          BY <2>1, <3>1, <3>2, ListsRead
        <4>2. QED
          BY <3>1, <4>1 DEF FromOutput
      <3>3. QED
        BY <2>4, <3>1, <3>2 DEF OutputsKeepTheirNames, IsSelected
    <2>5. CASE settings.type # "onnx" /\ predictions.kind = "object"
      <3>1. response.value = predictions
        BY <2>1, <2>5, ObjectsRead
      <3>2. \A o \in DOMAIN response.value.fields :
                FromOutput(response.value.fields[o], o)
        BY <2>1, <2>5, <3>1, ObjectPredicted
      <3>3. \A o \in DOMAIN response.value.fields :
                \A p \in Leaves(response.value.fields[o]) : p.output = o
        BY <2>2, <3>2
      <3>4. QED
        BY <2>5, <3>3 DEF OutputsKeepTheirNames
    <2>6. CASE settings.type # "onnx" /\ predictions.kind # "object"
      BY <2>6 DEF OutputsKeepTheirNames
    <2>7. QED
      BY <2>3, <2>4, <2>5, <2>6
  <1>2. InferenceInv => OutputsKeepTheirNames
    BY <1>1 DEF OutputsKeepTheirNames
  <1>3. QED
    BY <1>2, Invariant, PTL

==============================================================================
