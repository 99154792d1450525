-------------------------- MODULE SageOrdersProofs --------------------------
(***************************************************************************)
(* What holds of the invoices for every set of order files, every customer *)
(* and article export, every likeness of names and every threshold.        *)
(***************************************************************************)
EXTENDS SageOrders, SequenceTheorems, FiniteSetTheorems, TLAPS

-----------------------------------------------------------------------------
(* Sequences whose elements have no type of their own *)

IsList(q) == q \in Seq(ToSet(q))

\* A list is a function on the places up to its length.
LEMMA ListIs ==
    ASSUME NEW q, IsList(q)
    PROVE  /\ Len(q) \in Nat /\ DOMAIN q = 1 .. Len(q) /\ q \in [1 .. Len(q) -> ToSet(q)]
           /\ q = <<>> <=> Len(q) = 0
           /\ \A i \in 1 .. Len(q) : q[i] \in ToSet(q)
           /\ \A x \in ToSet(q) : \E i \in 1 .. Len(q) : q[i] = x
  <1> DEFINE S == ToSet(q)
  <1>1. q \in Seq(S)
    BY DEF IsList
  <1> HIDE DEF S
  <1>2. Len(q) \in Nat /\ DOMAIN q = 1 .. Len(q) /\ q \in [1 .. Len(q) -> S]
    BY <1>1, LenProperties
  <1>3. q = <<>> <=> Len(q) = 0
    BY <1>1, EmptySeq
  <1>4. /\ \A i \in 1 .. Len(q) : q[i] \in ToSet(q)
        /\ \A x \in ToSet(q) : \E i \in 1 .. Len(q) : q[i] = x
    BY <1>2 DEF ToSet
  <1> QED
    BY <1>2, <1>3, <1>4 DEF S

\* Every sequence is a list.
LEMMA SequenceIsList ==
    ASSUME NEW S, NEW q \in Seq(S)
    PROVE  IsList(q)
  <1>1. Len(q) \in Nat /\ q \in [1 .. Len(q) -> S] /\ DOMAIN q = 1 .. Len(q)
    BY LenProperties
  <1>2. \A i \in 1 .. Len(q) : q[i] \in ToSet(q)
    BY <1>1 DEF ToSet
  <1>3. q \in [1 .. Len(q) -> ToSet(q)]
    BY <1>1, <1>2
  <1> QED
    BY <1>1, <1>3 DEF IsList

\* So is every function on the places up to a number.
LEMMA FunctionIsList ==
    ASSUME NEW n \in Nat, NEW q, DOMAIN q = 1 .. n, q = [i \in 1 .. n |-> q[i]]
    PROVE  IsList(q) /\ Len(q) = n
  <1> DEFINE S == ToSet(q)
  <1>1. \A i \in 1 .. n : q[i] \in S
    BY DEF ToSet
  <1> HIDE DEF S
  <1>2. q \in [1 .. n -> S]
    BY <1>1
  <1>3. q \in Seq(S) /\ Len(q) = n
    BY <1>2
  <1> QED
    BY <1>3 DEF IsList, S

\* A list with one more element.
LEMMA ListGrows ==
    ASSUME NEW q, IsList(q), NEW x
    PROVE  /\ IsList(Append(q, x)) /\ Len(Append(q, x)) = Len(q) + 1
           /\ \A i \in 1 .. Len(q) : Append(q, x)[i] = q[i]
           /\ Append(q, x)[Len(q) + 1] = x
           /\ Append(q, x) # <<>>
           /\ ToSet(Append(q, x)) = ToSet(q) \cup {x}
  <1> DEFINE S == ToSet(q) \cup {x}
             r == Append(q, x)
  <1>1. q \in Seq(S) /\ x \in S /\ Len(q) \in Nat
    <2>1. Len(q) \in Nat /\ q \in [1 .. Len(q) -> ToSet(q)]
      BY ListIs
    <2>2. q \in [1 .. Len(q) -> S]
      BY <2>1
    <2> QED
      BY <2>1, <2>2
  <1> HIDE DEF S
  <1>2. /\ r \in Seq(S) /\ Len(r) = Len(q) + 1
        /\ \A i \in 1 .. Len(q) : r[i] = q[i]
        /\ r[Len(q) + 1] = x
    BY <1>1, AppendProperties
  <1> HIDE DEF r
  <1>3. IsList(r) /\ r # <<>>
    BY <1>1, <1>2, SequenceIsList, EmptySeq
  <1>4. DOMAIN r = 1 .. Len(q) + 1 /\ DOMAIN q = 1 .. Len(q)
    BY <1>2, <1>3, ListIs
  <1>5. ToSet(r) = ToSet(q) \cup {x}
    <2>1. \A i \in 1 .. Len(q) + 1 : i \in 1 .. Len(q) \/ i = Len(q) + 1
      BY <1>1
    <2>2. \A i \in 1 .. Len(q) : i \in 1 .. Len(q) + 1
      BY <1>1
    <2>3. Len(q) + 1 \in 1 .. Len(q) + 1
      BY <1>1
    <2> QED
      BY <1>2, <1>4, <2>1, <2>2, <2>3, Zenon DEF ToSet
  <1> QED
    BY <1>2, <1>3, <1>5 DEF r

\* A list with one element changed.
LEMMA ListChanges ==
    ASSUME NEW q, IsList(q), NEW n \in 1 .. Len(q), NEW x
    PROVE  /\ IsList([q EXCEPT ![n] = x]) /\ Len([q EXCEPT ![n] = x]) = Len(q)
           /\ \A i \in 1 .. Len(q) : [q EXCEPT ![n] = x][i] = IF i = n THEN x ELSE q[i]
  <1> DEFINE S == ToSet(q) \cup {x}
  <1>1. q \in Seq(S) /\ x \in S
    <2>1. Len(q) \in Nat /\ q \in [1 .. Len(q) -> ToSet(q)]
      BY ListIs
    <2>2. q \in [1 .. Len(q) -> S]
      BY <2>1
    <2> QED
      BY <2>1, <2>2
  <1> HIDE DEF S
  <1>2. /\ [q EXCEPT ![n] = x] \in Seq(S) /\ Len([q EXCEPT ![n] = x]) = Len(q)
        /\ \A i \in 1 .. Len(q) : [q EXCEPT ![n] = x][i] = IF i = n THEN x ELSE q[i]
    BY <1>1, ExceptSeq
  <1>3. IsList([q EXCEPT ![n] = x])
    BY <1>2, SequenceIsList
  <1> QED
    BY <1>2, <1>3

\* One list after another.
LEMMA ListsConcatenate ==
    ASSUME NEW q, IsList(q), NEW r, IsList(r)
    PROVE  /\ IsList(q \o r) /\ Len(q \o r) = Len(q) + Len(r)
           /\ \A i \in 1 .. Len(q) + Len(r) :
                 (q \o r)[i] = IF i <= Len(q) THEN q[i] ELSE r[i - Len(q)]
           /\ ToSet(q \o r) = ToSet(q) \cup ToSet(r)
  <1> DEFINE S == ToSet(q) \cup ToSet(r)
             w == q \o r
  <1>1. q \in Seq(S) /\ r \in Seq(S)
    <2>1. Len(q) \in Nat /\ q \in [1 .. Len(q) -> ToSet(q)]
      BY ListIs
    <2>2. Len(r) \in Nat /\ r \in [1 .. Len(r) -> ToSet(r)]
      BY ListIs
    <2>3. q \in [1 .. Len(q) -> S] /\ r \in [1 .. Len(r) -> S]
      BY <2>1, <2>2
    <2> QED
      BY <2>1, <2>2, <2>3
  <1> HIDE DEF S
  <1>2. /\ w \in Seq(S) /\ Len(w) = Len(q) + Len(r)
        /\ \A i \in 1 .. Len(q) + Len(r) : w[i] = IF i <= Len(q) THEN q[i] ELSE r[i - Len(q)]
    BY <1>1, ConcatProperties
  <1> HIDE DEF w
  <1>3. /\ Len(q) \in Nat /\ Len(r) \in Nat
        /\ DOMAIN q = 1 .. Len(q) /\ DOMAIN r = 1 .. Len(r) /\ DOMAIN w = 1 .. Len(q) + Len(r)
    BY <1>2, ListIs, SequenceIsList
  <1>4. ToSet(w) = ToSet(q) \cup ToSet(r)
    <2>1. ASSUME NEW y \in ToSet(w) PROVE y \in ToSet(q) \cup ToSet(r)
      <3>1. PICK i \in 1 .. Len(q) + Len(r) : w[i] = y
        BY <1>3, <2>1 DEF ToSet
      <3>2. CASE i <= Len(q)
        <4>1. i \in 1 .. Len(q) /\ q[i] = y
          BY <1>2, <1>3, <3>1, <3>2
        <4> QED
          BY <1>3, <4>1 DEF ToSet
      <3>3. CASE ~(i <= Len(q))
        <4>1. i - Len(q) \in 1 .. Len(r) /\ r[i - Len(q)] = y
          BY <1>2, <1>3, <3>1, <3>3
        <4> QED
          BY <1>3, <4>1 DEF ToSet
      <3> QED
        BY <3>2, <3>3
    <2>2. ASSUME NEW y \in ToSet(q) PROVE y \in ToSet(w)
      <3>1. PICK i \in 1 .. Len(q) : q[i] = y
        BY <1>3, <2>2 DEF ToSet
      <3>2. i \in 1 .. Len(q) + Len(r) /\ w[i] = y
        BY <1>2, <1>3, <3>1
      <3> QED
        BY <1>3, <3>2 DEF ToSet
    <2>3. ASSUME NEW y \in ToSet(r) PROVE y \in ToSet(w)
      <3>1. PICK i \in 1 .. Len(r) : r[i] = y
        BY <1>3, <2>3 DEF ToSet
      <3>2. Len(q) + i \in 1 .. Len(q) + Len(r) /\ w[Len(q) + i] = y
        BY <1>2, <1>3, <3>1
      <3> QED
        BY <1>3, <3>2 DEF ToSet
    <2> QED
      BY <2>1, <2>2, <2>3
  <1> QED
    BY <1>2, <1>4, SequenceIsList DEF w

-----------------------------------------------------------------------------
(* Numbers in increasing order *)

\* A finite set of numbers has one enumeration in increasing order, which leaves nothing
\* out: the place of a number is how many are not above it.
LEMMA AscendingIs ==
    ASSUME NEW S \in SUBSET Nat, IsFiniteSet(S)
    PROVE  /\ Cardinality(S) \in Nat
           /\ Ascending(S) \in [1 .. Cardinality(S) -> S]
           /\ \A i, j \in 1 .. Cardinality(S) : i < j => Ascending(S)[i] < Ascending(S)[j]
           /\ \A x \in S : \E i \in 1 .. Cardinality(S) : Ascending(S)[i] = x
  <1> DEFINE c == Cardinality(S)
             Below(x) == {k \in S : k <= x}
             rank == [x \in S |-> Cardinality(Below(x))]
             Increasing(s) == \A i, j \in 1 .. c : i < j => s[i] < s[j]
  <1>1. c \in Nat /\ IsFiniteSet(1 .. c) /\ Cardinality(1 .. c) = c
    BY FS_CardinalityType, FS_Interval
  <1>2. \A x \in S : /\ IsFiniteSet(Below(x)) /\ Cardinality(Below(x)) \in 1 .. c
    <2> TAKE x \in S
    <2>1. Below(x) \in SUBSET S
      OBVIOUS
    <2>2. IsFiniteSet(Below(x)) /\ Cardinality(Below(x)) <= c
      BY <2>1, FS_Subset
    <2>3. x \in Below(x)
      OBVIOUS
    <2>4. Cardinality(Below(x)) \in Nat /\ Cardinality(Below(x)) # 0
      BY <2>2, <2>3, FS_CardinalityType, FS_EmptySet
    <2> QED
      BY <1>1, <2>2, <2>4
  <1>3. \A x, y \in S : x < y => rank[x] < rank[y]
    <2> SUFFICES ASSUME NEW x \in S, NEW y \in S, x < y PROVE rank[x] < rank[y]
      OBVIOUS
    <2>0. x \in Nat /\ y \in Nat /\ \A k \in S : k \in Nat
      OBVIOUS
    <2>1. Below(x) \in SUBSET Below(y) /\ y \in Below(y) /\ y \notin Below(x)
      <3>1. \A k \in S : k <= x => k <= y
        BY <2>0
      <3>2. y <= y /\ ~(y <= x)
        BY <2>0
      <3> QED
        BY <3>1, <3>2, Zenon
    <2>2. /\ Cardinality(Below(x)) <= Cardinality(Below(y))
          /\ Cardinality(Below(x)) # Cardinality(Below(y))
      BY <1>2, <2>1, FS_Subset
    <2>3. rank[x] = Cardinality(Below(x)) /\ rank[y] = Cardinality(Below(y))
      OBVIOUS
    <2>4. Cardinality(Below(x)) \in Nat /\ Cardinality(Below(y)) \in Nat
      BY <1>1, <1>2
    <2> HIDE DEF rank, Below
    <2> QED
      BY <2>2, <2>3, <2>4
  <1> HIDE DEF Below
  <1>4. rank \in [S -> 1 .. c]
    BY <1>2
  <1> HIDE DEF rank
  <1>5. \A x, y \in S : rank[x] = rank[y] => x = y
    <2>1. \A x, y \in S : x \in Nat /\ y \in Nat
      OBVIOUS
    <2>2. \A x \in S : rank[x] \in 1 .. c
      BY <1>4
    <2> QED
      BY <1>1, <1>3, <2>1, <2>2
  <1>6. rank \in Surjection(S, 1 .. c)
    BY <1>1, <1>4, <1>5, FS_Injection DEF Injection, IsInjective
  <1>7. \A i \in 1 .. c : \E x \in S : rank[x] = i
    BY <1>6 DEF Surjection
  <1> DEFINE enum == [i \in 1 .. c |-> CHOOSE x \in S : rank[x] = i]
  <1>8. \A i \in 1 .. c : enum[i] \in S /\ rank[enum[i]] = i
    BY <1>7
  <1>9. enum \in [1 .. c -> S]
    BY <1>8
  <1> HIDE DEF enum
  <1>10. Increasing(enum)
    <2> SUFFICES ASSUME NEW i \in 1 .. c, NEW j \in 1 .. c, i < j PROVE enum[i] < enum[j]
      OBVIOUS
    <2>1. enum[i] \in Nat /\ enum[j] \in Nat
      BY <1>8
    <2>2. enum[i] # enum[j]
      BY <1>8, <1>1
    <2>3. enum[j] < enum[i] => j < i
      BY <1>3, <1>8
    <2>4. i \in Nat /\ j \in Nat /\ ~(j < i)
      BY <1>1
    <2> QED
      BY <2>1, <2>2, <2>3, <2>4
  <1>11. Ascending(S) \in [1 .. c -> S] /\ Increasing(Ascending(S))
    BY <1>9, <1>10 DEF Ascending
  <1> DEFINE a == Ascending(S)
  <1>12. \A i, j \in 1 .. c : a[i] = a[j] => i = j
    <2> SUFFICES ASSUME NEW i \in 1 .. c, NEW j \in 1 .. c, a[i] = a[j] PROVE i = j
      OBVIOUS
    <2>1. a[i] \in Nat
      BY <1>11
    <2> QED
      BY <1>1, <1>11, <2>1
  <1>13. a \in Surjection(1 .. c, S)
    BY <1>1, <1>11, <1>12, FS_Injection DEF Injection, IsInjective
  <1> QED
    BY <1>1, <1>11, <1>13 DEF Surjection

\* The enumeration as a sequence: it is as long as the set is large, has each number of
\* the set once, and nothing else.
LEMMA AscendingSequence ==
    ASSUME NEW S \in SUBSET Nat, IsFiniteSet(S)
    PROVE  /\ Ascending(S) \in Seq(S) /\ Len(Ascending(S)) = Cardinality(S)
           /\ DOMAIN Ascending(S) = 1 .. Len(Ascending(S))
           /\ ToSet(Ascending(S)) = S
           /\ \A i, j \in 1 .. Len(Ascending(S)) : i < j => Ascending(S)[i] < Ascending(S)[j]
           /\ \A i, j \in 1 .. Len(Ascending(S)) : Ascending(S)[i] = Ascending(S)[j] => i = j
  <1> DEFINE a == Ascending(S)
             c == Cardinality(S)
  <1>1. /\ c \in Nat /\ a \in [1 .. c -> S]
        /\ \A i, j \in 1 .. c : i < j => a[i] < a[j]
        /\ \A x \in S : \E i \in 1 .. c : a[i] = x
    BY AscendingIs
  <1> HIDE DEF a, c
  <1>2. a \in Seq(S) /\ Len(a) = c /\ DOMAIN a = 1 .. c
    BY <1>1
  <1>3. ToSet(a) = S
    BY <1>1, <1>2 DEF ToSet
  <1>4. \A i, j \in 1 .. c : a[i] = a[j] => i = j
    <2> SUFFICES ASSUME NEW i \in 1 .. c, NEW j \in 1 .. c, a[i] = a[j] PROVE i = j
      OBVIOUS
    <2>1. a[i] \in S /\ a[j] \in S
      BY <1>1
    <2>2. a[i] \in Nat /\ a[j] \in Nat
      BY <2>1
    <2>3. (i < j => a[i] < a[j]) /\ (j < i => a[j] < a[i])
      BY <1>1
    <2> QED
      BY <1>1, <2>2, <2>3
  <1> QED
    BY <1>1, <1>2, <1>3, <1>4 DEF a, c

\* A set of numbers that is not empty has a least one.
LEMMA LeastIs ==
    ASSUME NEW S \in SUBSET Nat, S # {}, IsFiniteSet(S)
    PROVE  \E m \in S : \A y \in S : m <= y
  <1>1. /\ Cardinality(S) \in Nat /\ Ascending(S) \in [1 .. Cardinality(S) -> S]
        /\ \A i, j \in 1 .. Cardinality(S) : i < j => Ascending(S)[i] < Ascending(S)[j]
        /\ \A x \in S : \E i \in 1 .. Cardinality(S) : Ascending(S)[i] = x
    BY AscendingIs
  <1> DEFINE a == Ascending(S)
             c == Cardinality(S)
  <1> HIDE DEF a, c
  <1>2. c # 0
    BY FS_EmptySet DEF c
  <1>3. 1 \in 1 .. c
    BY <1>1, <1>2 DEF c
  <1>4. a[1] \in S
    BY <1>1, <1>3 DEF a, c
  <1>5. ASSUME NEW y \in S PROVE a[1] <= y
    <2>1. PICK i \in 1 .. c : a[i] = y
      BY <1>1 DEF a, c
    <2>2. i = 1 \/ 1 < i
      BY <1>1 DEF c
    <2>3. 1 < i => a[1] < a[i]
      BY <1>1, <1>3 DEF a, c
    <2>4. a[1] \in Nat /\ y \in Nat
      BY <1>4
    <2> QED
      BY <2>1, <2>2, <2>3, <2>4
  <1> QED
    BY <1>4, <1>5

-----------------------------------------------------------------------------
(* The orders while they are read *)

OrderFields == {"name", "lines", "cp", "city", "country", "number"}

IsOrder(o) == DOMAIN o = OrderFields /\ o.name \in Names /\ IsList(o.lines)

OrdersType ==
    /\ file \in Files /\ pos \in Nat \ {0}
    /\ IsList(orders) /\ \A k \in 1 .. Len(orders) : IsOrder(orders[k])
    /\ open => orders # <<>>

\* A new order has its name and no line.
LEMMA NewOrderIs ==
    ASSUME NEW n \in Names, NEW a
    PROVE  IsOrder(NewOrder(n, a)) /\ NewOrder(n, a).name = n /\ NewOrder(n, a).lines = <<>>
  <1>1. IsList(<<>>)
    BY EmptySeq, SequenceIsList
  <1> QED
    BY <1>1 DEF NewOrder, IsOrder, OrderFields

\* What the reader does to an order: a name, an address or one more line.
Renamed(o, n)     == [o EXCEPT !.name = n]
Readdressed(o, a) == [NewOrder(o.name, ParseAddress(a)) EXCEPT !.lines = o.lines]
Line(c)           == [row |-> pos, ref |-> Row.ref, columns |-> c]

LEMMA OrderChanges ==
    ASSUME NEW o, IsOrder(o)
    PROVE  /\ \A n \in Names : IsOrder(Renamed(o, n)) /\ Renamed(o, n).lines = o.lines
           /\ \A a : IsOrder(Readdressed(o, a)) /\ Readdressed(o, a).lines = o.lines
           /\ \A c : IsOrder(WithLine(o, c)) /\ WithLine(o, c).lines = Append(o.lines, Line(c))
  <1>1. ASSUME NEW n \in Names
        PROVE  IsOrder(Renamed(o, n)) /\ Renamed(o, n).lines = o.lines
    BY DEF IsOrder, OrderFields, Renamed
  <1>2. ASSUME NEW a
        PROVE  IsOrder(Readdressed(o, a)) /\ Readdressed(o, a).lines = o.lines
    <2> DEFINE p == ParseAddress(a)
    <2> HIDE DEF p
    <2>1. IsOrder([NewOrder(o.name, p) EXCEPT !.lines = o.lines])
      BY DEF IsOrder, OrderFields, NewOrder
    <2>2. [NewOrder(o.name, p) EXCEPT !.lines = o.lines].lines = o.lines
      BY DEF NewOrder
    <2> QED
      BY <2>1, <2>2 DEF Readdressed, p
  <1>3. ASSUME NEW c
        PROVE  IsOrder(WithLine(o, c)) /\ WithLine(o, c).lines = Append(o.lines, Line(c))
    <2>1. IsList(Append(o.lines, Line(c)))
      BY ListGrows DEF IsOrder
    <2>2. WithLine(o, c) = [o EXCEPT !.lines = Append(o.lines, Line(c))]
      BY DEF WithLine, Line
    <2> HIDE DEF Line
    <2> QED
      BY <2>1, <2>2 DEF IsOrder, OrderFields
  <1> QED
    BY <1>1, <1>2, <1>3

\* The rows of a file are numbered from 1.
LEMMA FileIs ==
    ASSUME OrdersType
    PROVE  /\ Len(file) \in Nat /\ DOMAIN file = 1 .. Len(file)
           /\ \A K : /\ RowsOf(K) \in SUBSET Nat /\ IsFiniteSet(RowsOf(K))
                     /\ \A i \in RowsOf(K) : i \in 1 .. Len(file) /\ file[i].kind \in K
           /\ Heads \in SUBSET (1 .. Len(file)) /\ IsFiniteSet(Heads)
           /\ \A h : Products(h) \in SUBSET (1 .. Len(file))
  <1>1. IsList(file)
    BY SageOrdersAssumption DEF OrdersType, IsList
  <1>2. Len(file) \in Nat /\ DOMAIN file = 1 .. Len(file)
    BY <1>1, ListIs
  <1>3. IsFiniteSet(1 .. Len(file))
    BY <1>2, FS_Interval
  <1>4. ASSUME NEW K
        PROVE  /\ RowsOf(K) \in SUBSET (1 .. Len(file))
               /\ \A i \in RowsOf(K) : file[i].kind \in K
    BY <1>2 DEF RowsOf
  <1>5. \A K : RowsOf(K) \in SUBSET (1 .. Len(file)) /\ IsFiniteSet(RowsOf(K))
    BY <1>3, <1>4, FS_Subset
  <1>6. Heads \in SUBSET (1 .. Len(file)) /\ \A h : Products(h) \in SUBSET (1 .. Len(file))
    BY <1>4 DEF Heads, Products
  <1>7. IsFiniteSet(Heads)
    BY <1>3, <1>6, FS_Subset
  <1> QED
    BY <1>2, <1>4, <1>5, <1>6, <1>7

\* The row that is read, and the name in it.
LEMMA RowIs ==
    ASSUME OrdersType, pos <= Len(file)
    PROVE  /\ pos \in 1 .. Len(file) /\ pos \in DOMAIN file /\ pos \in Nat /\ pos + 1 \in Nat \ {0}
           /\ Row.kind \in {"client", "line"} => Row.client \in Names
           /\ \A K : pos \in RowsOf(K) <=> Row.kind \in K
  <1>1. pos \in 1 .. Len(file) /\ pos \in DOMAIN file /\ pos \in Nat /\ pos + 1 \in Nat \ {0}
    BY FileIs DEF OrdersType
  <1>2. Row.kind \in {"client", "line"} => Row.client \in Names
    BY <1>1 DEF Row, Names, OrdersType
  <1>3. \A K : pos \in RowsOf(K) <=> Row.kind \in K
    BY <1>1 DEF Row, RowsOf
  <1> QED
    BY <1>1, <1>2, <1>3

\* What a step of the reader does to the orders: nothing, a new one at the end, or the
\* last one changed.
Opens(o)   == orders' = Append(orders, o)
Changes(o) == orders # <<>> /\ orders' = [orders EXCEPT ![Len(orders)] = o]
LastOne    == orders[Len(orders)]

LEMMA LastOneIs ==
    ASSUME OrdersType, orders # <<>>
    PROVE  Len(orders) \in Nat \ {0} /\ Len(orders) \in 1 .. Len(orders) /\ IsOrder(LastOne)
  <1>1. Len(orders) \in Nat /\ Len(orders) # 0
    BY ListIs DEF OrdersType
  <1> QED
    BY <1>1 DEF OrdersType, LastOne

\* None of these makes an order anything else.
LEMMA OrdersStayTyped ==
    ASSUME OrdersType, file' = file, pos' \in Nat \ {0},
           open' => open \/ orders' # <<>>,
           \/ orders' = orders
           \/ \E o : IsOrder(o) /\ (Opens(o) \/ Changes(o))
    PROVE  OrdersType'
  <1>1. IsList(orders) /\ Len(orders) \in Nat
    BY ListIs DEF OrdersType
  <1>2. CASE orders' = orders
    BY <1>2 DEF OrdersType, IsList, IsOrder
  <1>3. ASSUME NEW o, IsOrder(o), Opens(o)
        PROVE  OrdersType'
    <2>1. /\ IsList(orders') /\ Len(orders') = Len(orders) + 1 /\ orders' # <<>>
          /\ \A i \in 1 .. Len(orders) : orders'[i] = orders[i]
          /\ orders'[Len(orders) + 1] = o
      BY <1>1, <1>3, ListGrows DEF Opens
    <2>2. \A k \in 1 .. Len(orders) + 1 : IsOrder(orders'[k])
      <3> TAKE k \in 1 .. Len(orders) + 1
      <3>1. k \in 1 .. Len(orders) \/ k = Len(orders) + 1
        BY <1>1
      <3> QED
        BY <1>3, <2>1, <3>1 DEF OrdersType
    <2> QED
      BY <2>1, <2>2 DEF OrdersType, IsOrder, IsList
  <1>4. ASSUME NEW o, IsOrder(o), Changes(o)
        PROVE  OrdersType'
    <2>1. Len(orders) \in 1 .. Len(orders) /\ orders # <<>>
      BY <1>4, LastOneIs DEF Changes
    <2>2. /\ IsList(orders') /\ Len(orders') = Len(orders)
          /\ \A i \in 1 .. Len(orders) : orders'[i] = IF i = Len(orders) THEN o ELSE orders[i]
      <3> DEFINE n == Len(orders)
      <3>1. orders' = [orders EXCEPT ![n] = o]
        BY <1>4 DEF Changes
      <3>2. n \in 1 .. Len(orders)
        BY <2>1
      <3> HIDE DEF n
      <3>3. /\ IsList([orders EXCEPT ![n] = o]) /\ Len([orders EXCEPT ![n] = o]) = Len(orders)
            /\ \A i \in 1 .. Len(orders) :
                  [orders EXCEPT ![n] = o][i] = IF i = n THEN o ELSE orders[i]
        BY <1>1, <3>2, ListChanges
      <3> QED
        BY <3>1, <3>3, Zenon DEF n
    <2>3. orders' # <<>>
      BY <2>1, <2>2, <1>1, ListIs
    <2>4. \A k \in 1 .. Len(orders) : IsOrder(orders'[k])
      BY <1>4, <2>2 DEF OrdersType
    <2> QED
      BY <2>2, <2>3, <2>4 DEF OrdersType, IsOrder, IsList
  <1> QED
    BY <1>2, <1>3, <1>4

\* Changing the last of a list is changing the one just put there.
LEMMA ChangeTheNewOne ==
    ASSUME NEW q, IsList(q), NEW x, NEW y
    PROVE  [Append(q, x) EXCEPT ![Len(Append(q, x))] = y] = Append(q, y)
  <1> DEFINE r == Append(q, x)
             t == Append(q, y)
             n == Len(q)
  <1>1. /\ n \in Nat /\ IsList(r) /\ Len(r) = n + 1 /\ IsList(t) /\ Len(t) = n + 1
        /\ \A i \in 1 .. n : r[i] = q[i] /\ t[i] = q[i]
        /\ t[n + 1] = y
    BY ListGrows, ListIs
  <1>2. DOMAIN r = 1 .. n + 1 /\ DOMAIN t = 1 .. n + 1 /\ t = [i \in 1 .. n + 1 |-> t[i]]
    <2> HIDE DEF r, t, n
    <2> QED
      BY <1>1, ListIs
  <1>3. \A i \in 1 .. n + 1 : (IF i = n + 1 THEN y ELSE r[i]) = t[i]
    <2> TAKE i \in 1 .. n + 1
    <2>1. i \in 1 .. n \/ i = n + 1
      BY <1>1
    <2> HIDE DEF r, t
    <2> QED
      BY <1>1, <2>1
  <1> HIDE DEF r, t, n
  <1>4. [r EXCEPT ![n + 1] = y] = [i \in 1 .. n + 1 |-> IF i = n + 1 THEN y ELSE r[i]]
    BY <1>2
  <1>5. [r EXCEPT ![n + 1] = y] = t
    BY <1>2, <1>3, <1>4
  <1> QED
    BY <1>1, <1>5 DEF r, t

\* The steps of the Taylorman reader, one by one.
LEMMA BlockStepIs ==
    ASSUME OrdersType
    PROVE  /\ \A kind : Reads(kind) => /\ pos <= Len(file) /\ Taylorman /\ Row.kind = kind
                                       /\ pos' = pos + 1 /\ file' = file
           /\ ReadClient => /\ open' = open /\ columns' = columns
                            /\ \/ ~open /\ orders' = orders
                               \/ open /\ Changes(Renamed(LastOne, Row.client))
           /\ ReadAddress => /\ open' = open /\ columns' = columns
                             /\ \/ ~open /\ orders' = orders
                                \/ open /\ Changes(Readdressed(LastOne, Row.address))
           /\ ReadProduct =>
                /\ open' = open /\ columns' = IF Row.mentions THEN pos ELSE columns
                /\ IF open /\ columns # 0 /\ Row.ref.text /\ ~Row.mentions
                   THEN Changes(WithLine(LastOne, columns)) ELSE orders' = orders
  <1>1. \A kind : Reads(kind) => /\ pos <= Len(file) /\ Taylorman /\ Row.kind = kind
                                 /\ pos' = pos + 1 /\ file' = file
    BY DEF Reads
  <1>2. open => orders # <<>>
    BY DEF OrdersType
  <1>3. ASSUME ReadClient
        PROVE  /\ open' = open /\ columns' = columns
               /\ \/ ~open /\ orders' = orders
                  \/ open /\ Changes(Renamed(LastOne, Row.client))
    BY <1>2, <1>3 DEF ReadClient, LastOrder, Changes, Renamed, LastOne
  <1>4. ASSUME ReadAddress
        PROVE  /\ open' = open /\ columns' = columns
               /\ \/ ~open /\ orders' = orders
                  \/ open /\ Changes(Readdressed(LastOne, Row.address))
    BY <1>2, <1>4 DEF ReadAddress, LastOrder, Changes, Readdressed, LastOne
  <1>5. ASSUME ReadProduct
        PROVE  /\ open' = open /\ columns' = IF Row.mentions THEN pos ELSE columns
               /\ IF open /\ columns # 0 /\ Row.ref.text /\ ~Row.mentions
                  THEN Changes(WithLine(LastOne, columns)) ELSE orders' = orders
    BY <1>2, <1>5 DEF ReadProduct, LastOrder, Changes, LastOne
  <1> QED
    BY <1>1, <1>3, <1>4, <1>5

\* The step of the table reader: a row with a client opens an order, a row with a
\* reference adds a line to the last one.
LEMMA LineStepIs ==
    ASSUME OrdersType, ReadLine
    PROVE  /\ pos <= Len(file) /\ ~Taylorman /\ pos' = pos + 1 /\ file' = file
           /\ open' = open /\ columns' = columns
           /\ LET new == NewOrder(Row.client, Row.address)
              IN  \/ Row.kind # "line" /\ orders' = orders
                  \/ /\ Row.kind = "line" /\ Row.client = <<>>
                     /\ IF orders # <<>> /\ Row.ref.text
                        THEN Changes(WithLine(LastOne, 0)) ELSE orders' = orders
                  \/ /\ Row.kind = "line" /\ Row.client # <<>>
                     /\ IF Row.ref.text THEN Opens(WithLine(new, 0)) ELSE Opens(new)
  <1> DEFINE new == NewOrder(Row.client, Row.address)
             read == IF Row.client = <<>> THEN orders ELSE Append(orders, new)
  <1>1. /\ pos <= Len(file) /\ ~Taylorman /\ pos' = pos + 1 /\ file' = file
        /\ open' = open /\ columns' = columns
        /\ IF Row.kind # "line" THEN orders' = orders
           ELSE orders' = IF read = <<>> \/ ~Row.ref.text THEN read
                          ELSE [read EXCEPT ![Len(read)] = WithLine(@, 0)]
    BY DEF ReadLine
  <1>2. CASE Row.kind # "line"
    BY <1>1, <1>2
  <1>3. CASE Row.kind = "line" /\ Row.client = <<>>
    <2>1. read = orders
      BY <1>3
    <2>2. orders' = IF orders = <<>> \/ ~Row.ref.text THEN orders
                    ELSE [orders EXCEPT ![Len(orders)] = WithLine(@, 0)]
      BY <1>1, <1>3, <2>1
    <2> QED
      BY <1>1, <1>3, <2>2 DEF Changes, LastOne
  <1>4. CASE Row.kind = "line" /\ Row.client # <<>>
    <2>1. read = Append(orders, new)
      BY <1>4
    <2> HIDE DEF new
    <2>2. /\ IsList(orders) /\ read # <<>> /\ Len(read) = Len(orders) + 1
          /\ read[Len(orders) + 1] = new
      BY <2>1, ListGrows DEF OrdersType
    <2>3. orders' = IF ~Row.ref.text THEN read
                    ELSE [read EXCEPT ![Len(read)] = WithLine(new, 0)]
      BY <1>1, <1>4, <2>2
    <2> DEFINE new0 == WithLine(new, 0)
    <2> HIDE DEF read, new0
    <2>4. [Append(orders, new) EXCEPT ![Len(Append(orders, new))] = new0] = Append(orders, new0)
      BY <2>2, ChangeTheNewOne
    <2>5. orders' = IF ~Row.ref.text THEN Append(orders, new) ELSE Append(orders, new0)
      BY <2>1, <2>3, <2>4, Zenon DEF new0
    <2> QED
      BY <1>1, <1>4, <2>5 DEF Opens, new, new0
  <1> QED
    BY <1>1, <1>2, <1>3, <1>4

\* Every step of the reader leaves orders.
LEMMA ReadKeepsType == OrdersType /\ Read => OrdersType' /\ file' = file
  <1> SUFFICES ASSUME OrdersType, Read PROVE OrdersType' /\ file' = file
    OBVIOUS
  <1>0. orders # <<>> => IsOrder(LastOne)
    BY LastOneIs
  <1>1. CASE ReadTitle \/ SkipAmount \/ ReadHeader
    <2>1. pos <= Len(file) /\ pos' = pos + 1 /\ file' = file /\ orders' = orders
      BY <1>1, BlockStepIs DEF ReadTitle, SkipAmount, ReadHeader
    <2>2. pos' \in Nat \ {0}
      BY <2>1, RowIs
    <2>3. open' => open \/ orders' # <<>>
      BY <1>1 DEF ReadTitle, SkipAmount, ReadHeader
    <2> QED
      BY <2>1, <2>2, <2>3, OrdersStayTyped
  <1>2. CASE ReadNumber
    <2> DEFINE new == NewOrder(<<>>, NoAddress)
    <2>1. pos <= Len(file) /\ pos' = pos + 1 /\ file' = file /\ orders' = Append(orders, new)
      BY <1>2, BlockStepIs DEF ReadNumber
    <2>2. pos' \in Nat \ {0}
      BY <2>1, RowIs
    <2>3. IsOrder(new)
      BY NewOrderIs DEF Names
    <2>4. orders' # <<>>
      BY <2>1, ListGrows DEF OrdersType
    <2> QED
      BY <2>1, <2>2, <2>3, <2>4, OrdersStayTyped DEF Opens
  <1>3. CASE ReadClient
    <2>1. pos <= Len(file) /\ pos' = pos + 1 /\ file' = file /\ Row.kind = "client"
      BY <1>3, BlockStepIs DEF ReadClient
    <2>2. pos' \in Nat \ {0} /\ Row.client \in Names
      BY <2>1, RowIs
    <2>3. /\ open' = open
          /\ \/ ~open /\ orders' = orders
             \/ open /\ Changes(Renamed(LastOne, Row.client))
      BY <1>3, BlockStepIs
    <2>4. open => IsOrder(Renamed(LastOne, Row.client))
      BY <1>0, <2>2, OrderChanges DEF OrdersType
    <2> QED
      BY <2>1, <2>2, <2>3, <2>4, OrdersStayTyped
  <1>4. CASE ReadAddress
    <2>1. pos <= Len(file) /\ pos' = pos + 1 /\ file' = file
      BY <1>4, BlockStepIs DEF ReadAddress
    <2>2. pos' \in Nat \ {0}
      BY <2>1, RowIs
    <2>3. /\ open' = open
          /\ \/ ~open /\ orders' = orders
             \/ open /\ Changes(Readdressed(LastOne, Row.address))
      BY <1>4, BlockStepIs
    <2>4. open => IsOrder(Readdressed(LastOne, Row.address))
      BY <1>0, OrderChanges DEF OrdersType
    <2> QED
      BY <2>1, <2>2, <2>3, <2>4, OrdersStayTyped
  <1>5. CASE ReadProduct
    <2>1. pos <= Len(file) /\ pos' = pos + 1 /\ file' = file
      BY <1>5, BlockStepIs DEF ReadProduct
    <2>2. pos' \in Nat \ {0}
      BY <2>1, RowIs
    <2>3. open' = open /\ (orders' = orders \/ Changes(WithLine(LastOne, columns)))
      BY <1>5, BlockStepIs
    <2>4. orders # <<>> => IsOrder(WithLine(LastOne, columns))
      BY <1>0, OrderChanges
    <2> QED
      BY <2>1, <2>2, <2>3, <2>4, OrdersStayTyped DEF Changes
  <1>6. CASE ReadLine
    <2> DEFINE new == NewOrder(Row.client, Row.address)
    <2>1. /\ pos <= Len(file) /\ pos' = pos + 1 /\ file' = file /\ open' = open
          /\ \/ orders' = orders \/ Changes(WithLine(LastOne, 0))
             \/ Row.kind = "line" /\ (Opens(WithLine(new, 0)) \/ Opens(new))
      BY <1>6, LineStepIs
    <2>2. pos' \in Nat \ {0} /\ (Row.kind = "line" => Row.client \in Names)
      BY <2>1, RowIs
    <2>3. Row.kind = "line" => IsOrder(new) /\ IsOrder(WithLine(new, 0))
      BY <2>2, NewOrderIs, OrderChanges
    <2>4. orders # <<>> => IsOrder(WithLine(LastOne, 0))
      BY <1>0, OrderChanges
    <2> HIDE DEF new
    <2>5. \/ orders' = orders
          \/ \E o : IsOrder(o) /\ (Opens(o) \/ Changes(o))
      BY <2>1, <2>3, <2>4 DEF Changes
    <2> QED
      BY <2>1, <2>2, <2>5, OrdersStayTyped
  <1>7. CASE EndOfFile
    BY <1>7 DEF EndOfFile, OrdersType, IsOrder, IsList
  <1> QED
    BY <1>1, <1>2, <1>3, <1>4, <1>5, <1>6, <1>7 DEF Read

-----------------------------------------------------------------------------
(* The invoices, made from the orders one by one *)

\* Nothing is made before the file is read, each invoice is that of its order, and the
\* file is written when all are there.
Course ==
    /\ OrdersType
    /\ IsList(invoices) /\ Len(invoices) <= Len(orders)
    /\ \A k \in 1 .. Len(invoices) : invoices[k] = Invoice(orders[k])
    /\ pc = "read" => invoices = <<>>
    /\ Written => Len(invoices) = Len(orders)

\* In the initial states nothing is read or made.
LEMMA CourseInit == Init => Course
  <1> SUFFICES ASSUME Init PROVE Course
    OBVIOUS
  <1>1. IsList(<<>>) /\ Len(<<>>) = 0
    BY EmptySeq, SequenceIsList
  <1>2. OrdersType
    BY <1>1 DEF Init, OrdersType
  <1> QED
    BY <1>1, <1>2 DEF Init, Course, Written

\* Reading makes no invoice, making, writing and answering change no order.
LEMMA CourseStep == Course /\ [Next]_vars => Course'
  <1> SUFFICES ASSUME Course, [Next]_vars PROVE Course'
    OBVIOUS
  <1>1. CASE UNCHANGED vars
    BY <1>1 DEF vars, Course, OrdersType, IsOrder, IsList, Written
  <1>2. CASE Read
    <2>1. /\ pc = "read" /\ invoices' = invoices
          /\ pc' \in {"read", "make", "refused"}
      BY <1>2 DEF Read, Reads, ReadTitle, SkipAmount, ReadNumber, ReadClient, ReadAddress,
                  ReadHeader, ReadProduct, ReadLine, EndOfFile
    <2>2. OrdersType' /\ invoices = <<>>
      BY <1>2, <2>1, ReadKeepsType DEF Course
    <2>3. IsList(<<>>) /\ Len(<<>>) = 0 /\ Len(orders') \in Nat
      BY <2>2, EmptySeq, SequenceIsList, ListIs DEF OrdersType, IsList
    <2> QED
      BY <2>1, <2>2, <2>3 DEF Course, Written
  <1>3. CASE MakeInvoice
    <2> DEFINE i == Invoice(orders[Len(invoices) + 1])
               n == Len(invoices)
    <2>1. /\ UNCHANGED <<file, pos, open, orders, pc>> /\ pc = "make"
          /\ invoices' = Append(invoices, i) /\ n < Len(orders)
      BY <1>3 DEF MakeInvoice
    <2>2. OrdersType'
      BY <2>1 DEF Course, OrdersType, IsOrder, IsList
    <2> HIDE DEF i
    <2>3. /\ IsList(invoices') /\ Len(invoices') = n + 1 /\ n \in Nat
          /\ \A k \in 1 .. n : invoices'[k] = invoices[k]
          /\ invoices'[n + 1] = i
      BY <2>1, ListGrows, ListIs DEF Course
    <2>4. n + 1 <= Len(orders)
      BY <2>1, <2>3, ListIs DEF Course, OrdersType
    <2>5. \A k \in 1 .. n + 1 : invoices'[k] = Invoice(orders[k])
      <3> TAKE k \in 1 .. n + 1
      <3>1. k \in 1 .. n \/ k = n + 1
        BY <2>3
      <3> QED
        BY <2>3, <3>1 DEF Course, i
    <2>6. pc' # "read" /\ ~Written'
      BY <2>1 DEF Written
    <2> QED
      BY <2>1, <2>2, <2>3, <2>4, <2>5, <2>6 DEF Course, IsList
  <1>4. CASE WriteFile \/ Answer
    <2>1. /\ UNCHANGED <<file, pos, open, orders, invoices>> /\ pc # "read" /\ pc' # "read"
          /\ Written' => Len(invoices) = Len(orders)
      BY <1>4 DEF WriteFile, Answer, Course, Written
    <2> QED
      BY <2>1 DEF Course, OrdersType, IsOrder, IsList
  <1> QED
    BY <1>1, <1>2, <1>3, <1>4 DEF Next

-----------------------------------------------------------------------------
(* The VAT of an order and the lines of its invoice *)

ArticleLine(o, n) ==
    [no |-> n, row |-> o.lines[n].row, article |-> FindArticle(o.lines[n].ref), mention |-> "",
     rate |-> IF VatFor(o).exempt THEN 0 ELSE RateOf(FindArticle(o.lines[n].ref))]

LastLine(o) ==
    [no |-> Len(o.lines) + 1, row |-> 0, article |-> 0, mention |-> VatFor(o).mention, rate |-> 0]

HasMention(o) == VatFor(o).mention # ""

\* How many lines an invoice has.
Size(o) == IF HasMention(o) THEN Len(o.lines) + 1 ELSE Len(o.lines)

\* What the line of an article says.
LEMMA ArticleLineSays ==
    ASSUME NEW o, NEW n
    PROVE  /\ ArticleLine(o, n).no = n /\ ArticleLine(o, n).mention = ""
           /\ ArticleLine(o, n).row = o.lines[n].row
           /\ ArticleLine(o, n).article = FindArticle(o.lines[n].ref)
  BY Zenon DEF ArticleLine

\* Its rate is that of its article, unless the order is exempt.
LEMMA ArticleLineRate ==
    ASSUME NEW o, NEW n
    PROVE  ArticleLine(o, n).rate =
             IF VatFor(o).exempt THEN 0 ELSE RateOf(ArticleLine(o, n).article)
  <1>1. ArticleLine(o, n).rate =
          IF VatFor(o).exempt THEN 0 ELSE RateOf(FindArticle(o.lines[n].ref))
    BY Zenon DEF ArticleLine
  <1>2. ArticleLine(o, n).article = FindArticle(o.lines[n].ref)
    BY Zenon DEF ArticleLine
  <1> QED
    BY <1>1, <1>2, Zenon

\* What the line of the mention says.
LEMMA LastLineSays ==
    ASSUME NEW o, NEW l, l = LastLine(o)
    PROVE  /\ l.no = Len(o.lines) + 1 /\ l.mention = VatFor(o).mention
           /\ l.row = 0 /\ l.article = 0 /\ l.rate = 0
  BY DEF LastLine

\* An invoice has a line for each line of its order and, when the VAT needs one, the
\* mention behind them.
LEMMA InvoiceLinesAre ==
    ASSUME NEW o, IsOrder(o)
    PROVE  /\ Len(o.lines) \in Nat /\ DOMAIN o.lines = 1 .. Len(o.lines)
           /\ IsList(Invoice(o).lines)
           /\ Len(Invoice(o).lines) = Size(o) /\ DOMAIN Invoice(o).lines = 1 .. Size(o)
           /\ \A n \in 1 .. Len(o.lines) : Invoice(o).lines[n] = ArticleLine(o, n)
           /\ HasMention(o) => Invoice(o).lines[Len(o.lines) + 1] = LastLine(o)
  <1> DEFINE a == ArticleLines(o)
             e == MentionLine(o)
             m == Len(o.lines)
  <1>1. m \in Nat /\ DOMAIN o.lines = 1 .. m
    BY ListIs DEF IsOrder
  <1>2. a = [n \in 1 .. m |-> ArticleLine(o, n)]
    BY <1>1 DEF ArticleLines, ArticleLine
  <1>3. /\ DOMAIN a = 1 .. m /\ a = [n \in 1 .. m |-> a[n]]
        /\ \A n \in 1 .. m : a[n] = ArticleLine(o, n)
    BY <1>2, Zenon
  <1>4. e = IF HasMention(o) THEN <<LastLine(o)>> ELSE <<>>
    BY Zenon DEF MentionLine, LastLine, HasMention
  <1>5. Invoice(o).lines = a \o e
    BY DEF Invoice
  <1> HIDE DEF a, m, e
  <1>6. IsList(a) /\ Len(a) = m
    BY <1>1, <1>3, FunctionIsList
  <1>7. CASE HasMention(o)
    <2> DEFINE x == LastLine(o)
    <2>1. e = <<x>> /\ Size(o) = m + 1
      BY <1>4, <1>7 DEF Size, m
    <2> HIDE DEF x
    <2>2. IsList(e) /\ Len(e) = 1 /\ e[1] = x
      <3>1. <<x>> \in Seq({x}) /\ Len(<<x>>) = 1 /\ <<x>>[1] = x
        OBVIOUS
      <3> QED
        BY <2>1, <3>1, SequenceIsList
    <2>3. /\ IsList(a \o e) /\ Len(a \o e) = m + 1
          /\ \A n \in 1 .. m + 1 : (a \o e)[n] = IF n <= m THEN a[n] ELSE e[n - m]
      BY <1>6, <2>2, ListsConcatenate
    <2>4. DOMAIN (a \o e) = 1 .. m + 1
      BY <2>3, ListIs
    <2>5. ASSUME NEW n \in 1 .. m PROVE (a \o e)[n] = ArticleLine(o, n)
      <3>1. n \in 1 .. m + 1 /\ n <= m
        BY <1>1
      <3>2. (a \o e)[n] = a[n]
        BY <2>3, <3>1
      <3> QED
        BY <1>3, <3>2
    <2>6. (a \o e)[m + 1] = x
      <3>1. m + 1 \in 1 .. m + 1 /\ ~(m + 1 <= m) /\ (m + 1) - m = 1
        BY <1>1
      <3> QED
        BY <2>2, <2>3, <3>1
    <2> QED
      BY <1>1, <1>5, <2>1, <2>3, <2>4, <2>5, <2>6 DEF m, x
  <1>8. CASE ~HasMention(o)
    <2>1. e = <<>> /\ Size(o) = m
      BY <1>4, <1>8 DEF Size, m
    <2>2. IsList(e) /\ Len(e) = 0
      BY <2>1, EmptySeq, SequenceIsList
    <2>3. /\ IsList(a \o e) /\ Len(a \o e) = m
          /\ \A n \in 1 .. m : (a \o e)[n] = a[n]
      BY <1>1, <1>6, <2>2, ListsConcatenate
    <2>4. DOMAIN (a \o e) = 1 .. m
      BY <2>3, ListIs
    <2>5. \A n \in 1 .. m : (a \o e)[n] = ArticleLine(o, n)
      BY <1>3, <2>3
    <2> QED
      BY <1>1, <1>5, <1>8, <2>1, <2>3, <2>4, <2>5 DEF m
  <1> QED
    BY <1>7, <1>8

\* The region whose mention an invoice without a given mode has.
Mentioned(country, cp) ==
    IF country \in Missed /\ cp \notin OverseasCodes THEN "HORSCEE" ELSE RegionOf(country, cp)

\* Spelling by spelling, regime_client finds the region of the country, but for those
\* its tables lack.
LEMMA RegimeIs ==
    ASSUME NEW country, NEW cp
    PROVE  RegimeOf(country, cp) = Mentioned(country, cp)
  <1> DEFINE c == NormCountry(country)
  <1>1. \/ country = "PAYS-BAS" /\ c = "PAYS BAS"
        \/ country = "NOUVELLE-CALEDONIE" /\ c = "NOUVELLE CALEDONIE"
        \/ country \notin {"PAYS-BAS", "NOUVELLE-CALEDONIE"} /\ c = country
    BY DEF NormCountry
  <1>2. NameOf(country) = "FRANCE" <=> c \in {"FRANCE", "FR", "FRA"}
    BY DEF NameOf
  <1>3. NameOf(country) = "ITALIE" <=> c \in {"ITALIE", "IT", "ITA", "ITALY"}
    BY DEF NameOf
  <1>4. NameOf(country) = "PAYS-BAS" <=> c \in {"PAYS BAS", "NL", "NLD", "NETHERLANDS"}
    BY DEF NameOf
  <1>5. NameOf(country) = "MARTINIQUE" <=> c \in {"MARTINIQUE", "MTQ", "MQ"}
    BY DEF NameOf
  <1> DEFINE name == NameOf(country)
  <1>6. /\ name = "FRANCE" <=> c \in {"FRANCE", "FR", "FRA"}
        /\ name = "ITALIE" <=> c \in {"ITALIE", "IT", "ITA", "ITALY"}
        /\ name = "PAYS-BAS" <=> c \in {"PAYS BAS", "NL", "NLD", "NETHERLANDS"}
        /\ name = "MARTINIQUE" <=> c \in {"MARTINIQUE", "MTQ", "MQ"}
    BY <1>2, <1>3, <1>4, <1>5
  <1>7. RegimeOf(country, cp) =
           IF cp \in OverseasCodes \/ c \in {"MARTINIQUE", "MTQ", "NOUVELLE CALEDONIE"}
           THEN "OUTREMER"
           ELSE IF c \in {"FRANCE", "FR", ""} THEN "FRANCE"
           ELSE IF c \in {"ITALIE", "IT", "PAYS-BAS", "NL"} THEN "CEE" ELSE "HORSCEE"
    BY DEF RegimeOf, OverseasCountries, EuCountries
  <1>8. RegionOf(country, cp) =
           CASE cp \in OverseasCodes \/ name = "MARTINIQUE" \/ c = "NOUVELLE CALEDONIE"
                  -> "OUTREMER"
             [] cp \notin OverseasCodes /\ (country = "" \/ name = "FRANCE") -> "FRANCE"
             [] cp \notin OverseasCodes /\ name \in {"ITALIE", "PAYS-BAS"} -> "CEE"
             [] OTHER -> "HORSCEE"
    BY DEF RegionOf
  <1> HIDE DEF c, name
  <1>9. CASE cp \in OverseasCodes
    BY <1>7, <1>8, <1>9 DEF Mentioned
  <1>10. CASE cp \notin OverseasCodes /\ country \in Missed
    <2>1. c \in {"FRA", "ITA", "ITALY", "PAYS BAS", "NLD", "NETHERLANDS", "MQ"}
      BY <1>1, <1>10 DEF Missed
    <2> QED
      BY <1>7, <1>10, <2>1 DEF Mentioned
  <1>11. CASE cp \notin OverseasCodes /\ country \notin Missed
    <2>1. c \notin {"FRA", "ITA", "ITALY", "PAYS BAS", "NLD", "NETHERLANDS", "MQ", "PAYS-BAS"}
      BY <1>1, <1>11 DEF Missed
    <2>2. country = "" <=> c = ""
      BY <1>1
    <2>3. /\ name = "FRANCE" <=> c \in {"FRANCE", "FR"}
          /\ name \in {"ITALIE", "PAYS-BAS"} <=> c \in {"ITALIE", "IT", "NL"}
          /\ name = "MARTINIQUE" <=> c \in {"MARTINIQUE", "MTQ"}
      BY <1>6, <2>1
    <2>4. CASE c \in {"MARTINIQUE", "MTQ", "NOUVELLE CALEDONIE"}
      <3>1. RegimeOf(country, cp) = "OUTREMER"
        BY <1>7, <2>4
      <3>2. name = "MARTINIQUE" \/ c = "NOUVELLE CALEDONIE"
        BY <2>3, <2>4
      <3>3. name \notin {"FRANCE", "ITALIE", "PAYS-BAS"} /\ country # ""
        BY <2>2, <2>3, <2>4
      <3>4. RegionOf(country, cp) = "OUTREMER"
        BY <1>8, <1>11, <3>2, <3>3
      <3> QED
        BY <1>11, <3>1, <3>4 DEF Mentioned
    <2>5. CASE c \in {"FRANCE", "FR", ""}
      BY <1>7, <1>8, <1>11, <2>2, <2>3, <2>5 DEF Mentioned
    <2>6. CASE c \in {"ITALIE", "IT", "NL"}
      BY <1>7, <1>8, <1>11, <2>2, <2>3, <2>6 DEF Mentioned
    <2>7. CASE c \notin {"MARTINIQUE", "MTQ", "NOUVELLE CALEDONIE", "FRANCE", "FR", "",
                          "ITALIE", "IT", "NL"}
      <3>1. RegimeOf(country, cp) = "HORSCEE"
        BY <1>7, <1>11, <2>1, <2>7
      <3>2. RegionOf(country, cp) = "HORSCEE"
        BY <1>8, <1>11, <2>2, <2>3, <2>7
      <3> QED
        BY <1>11, <3>1, <3>2 DEF Mentioned
    <2> QED
      BY <2>4, <2>5, <2>6, <2>7
  <1> QED
    BY <1>9, <1>10, <1>11

\* The two ways the code finds the region of an address, regime_client for the VAT mode
\* and est_dom for the mention, agree on the mention.
LEMMA DefaultMentionIs ==
    ASSUME NEW country, NEW cp, NEW region, region = Mentioned(country, cp)
    PROVE  MentionOf(DefaultMode(country, cp), country, cp) =
               IF region = "FRANCE" THEN "" ELSE region
  <1>0. region = RegimeOf(country, cp)
    BY RegimeIs
  <1>1. CASE IsOverseas(country, cp)
    <2>1. region = "OUTREMER"
      BY <1>0, <1>1 DEF IsOverseas, RegimeOf
    <2>2. DefaultMode(country, cp) = "HORS CEE"
      BY <1>1 DEF DefaultMode
    <2> QED
      BY <1>1, <2>1, <2>2 DEF MentionOf, Exempt
  <1>2. CASE ~IsOverseas(country, cp)
    <2>1. region \in {"FRANCE", "CEE", "HORSCEE"}
      BY <1>0, <1>2 DEF IsOverseas, RegimeOf
    <2>2. DefaultMode(country, cp) = ModeOf(region)
      BY <1>0, <1>2 DEF DefaultMode
    <2> QED
      BY <1>2, <2>1, <2>2 DEF MentionOf, Exempt, ModeOf
  <1> QED
    BY <1>1, <1>2

\* Without a mode of its own the customer's VAT has the mention of its region; a mention
\* means no VAT, and a known mode without VAT has a category and a reason.
LEMMA VatForIs ==
    ASSUME NEW o
    PROVE  LET card   == MatchClient(o)
               region == Mentioned(Preferred(card, o, "country"), Preferred(card, o, "cp"))
               v      == VatFor(o)
           IN  /\ ~(card # 0 /\ CardRows[card].mode # "") =>
                     v.mention = IF region = "FRANCE" THEN "" ELSE region
               /\ v.mention # "" => v.exempt
               /\ v.exempt /\ v.mode \in Categorised => v.category /\ v.reason
  <1> DEFINE card    == MatchClient(o)
             country == Preferred(card, o, "country")
             cp      == Preferred(card, o, "cp")
             region  == Mentioned(country, cp)
             given   == card # 0 /\ CardRows[card].mode # ""
             mode    == IF given THEN CardRows[card].mode ELSE DefaultMode(country, cp)
             v       == VatFor(o)
  <1>1. v = VatOf(mode, country, cp)
    BY DEF VatFor
  <1>2. ~given => mode = DefaultMode(country, cp)
    OBVIOUS
  <1> HIDE DEF card, country, cp, given, mode, v
  <1>3. /\ v.mention = MentionOf(mode, country, cp) /\ v.mode = mode
        /\ v.exempt <=> Exempt(mode)
        /\ v.category <=> mode \in Categorised
        /\ v.reason <=> mode \in Categorised \ {"LOCAL"}
    BY <1>1, Zenon DEF VatOf
  <1>4. ~given => v.mention = IF region = "FRANCE" THEN "" ELSE region
    BY <1>2, <1>3, DefaultMentionIs
  <1>5. MentionOf(mode, country, cp) # "" => Exempt(mode)
    BY DEF MentionOf
  <1>6. Exempt(mode) => mode # "LOCAL"
    BY DEF Exempt
  <1> QED
    BY <1>3, <1>4, <1>5, <1>6, Zenon DEF v, card, country, cp, given

\* The invoice of any order has the mention its region asks for, as its last line, and
\* VAT exactly when it has none.
LEMMA InvoiceHasItsMention ==
    ASSUME NEW o, IsOrder(o), NEW i, i = Invoice(o)
    PROVE  LET region == Mentioned(i.country, Preferred(i.card, o, "cp"))
               given  == i.card # 0 /\ CardRows[i.card].mode # ""
           IN  /\ ~given => i.vat.mention = IF region = "FRANCE" THEN "" ELSE region
               /\ \A n \in DOMAIN i.lines :
                    /\ i.lines[n].no = n
                    /\ i.lines[n].mention # "" <=> n = Len(i.lines) /\ i.vat.mention # ""
                    /\ i.lines[n].rate = IF i.vat.exempt THEN 0 ELSE RateOf(i.lines[n].article)
               /\ i.vat.exempt /\ i.vat.mode \in Categorised => i.vat.category /\ i.vat.reason
  <1> DEFINE v == VatFor(o)
             m == Len(o.lines)
  <1>1. /\ i.card = MatchClient(o) /\ i.vat = v
        /\ i.country = Preferred(MatchClient(o), o, "country")
    BY DEF Invoice
  <1>2. HasMention(o) => v.exempt
    BY VatForIs DEF HasMention
  <1>3. /\ m \in Nat /\ Len(i.lines) = Size(o) /\ DOMAIN i.lines = 1 .. Size(o)
        /\ \A n \in 1 .. m : i.lines[n] = ArticleLine(o, n)
        /\ HasMention(o) => i.lines[m + 1] = LastLine(o)
    BY InvoiceLinesAre
  <1>4. Size(o) = IF HasMention(o) THEN m + 1 ELSE m
    BY DEF Size
  <1>5. ASSUME NEW n \in DOMAIN i.lines
        PROVE  /\ i.lines[n].no = n
               /\ i.lines[n].mention # "" <=> n = Len(i.lines) /\ HasMention(o)
               /\ i.lines[n].rate = IF v.exempt THEN 0 ELSE RateOf(i.lines[n].article)
    <2>1. n \in 1 .. Size(o) /\ Len(i.lines) = Size(o)
      BY <1>3
    <2>2. CASE n \in 1 .. m
      <3>1. i.lines[n] = ArticleLine(o, n)
        BY <1>3, <2>2
      <3>2. ~(n = m + 1)
        BY <1>3, <2>2
      <3>3. ~(n = Len(i.lines) /\ HasMention(o))
        BY <1>4, <2>1, <3>2
      <3>4. /\ i.lines[n].no = n /\ i.lines[n].mention = ""
            /\ i.lines[n].rate = IF v.exempt THEN 0 ELSE RateOf(i.lines[n].article)
        <4>1. ArticleLine(o, n).no = n /\ ArticleLine(o, n).mention = ""
          BY ArticleLineSays
        <4>2. ArticleLine(o, n).rate =
                IF v.exempt THEN 0 ELSE RateOf(ArticleLine(o, n).article)
          BY ArticleLineRate
        <4> QED
          BY <3>1, <4>1, <4>2, Zenon
      <3> QED
        BY <3>3, <3>4
    <2>3. CASE n \notin 1 .. m
      <3>1. n = m + 1 /\ HasMention(o)
        BY <1>3, <1>4, <2>1, <2>3
      <3>2. i.lines[n] = LastLine(o) /\ n = Len(i.lines)
        BY <1>3, <1>4, <2>1, <3>1
      <3>3. /\ i.lines[n].no = n /\ i.lines[n].mention = v.mention /\ i.lines[n].rate = 0
        BY <3>1, <3>2, LastLineSays
      <3> QED
        BY <1>2, <3>1, <3>2, <3>3, Zenon DEF HasMention
    <2> QED
      BY <2>2, <2>3
  <1>6. HasMention(o) <=> i.vat.mention # ""
    BY <1>1 DEF HasMention
  <1>7. \A n \in DOMAIN i.lines :
          /\ i.lines[n].no = n
          /\ i.lines[n].mention # "" <=> n = Len(i.lines) /\ i.vat.mention # ""
          /\ i.lines[n].rate = IF i.vat.exempt THEN 0 ELSE RateOf(i.lines[n].article)
    BY <1>1, <1>5, <1>6
  <1> DEFINE region == Mentioned(i.country, Preferred(i.card, o, "cp"))
             given  == i.card # 0 /\ CardRows[i.card].mode # ""
  <1>8. ~given => i.vat.mention = IF region = "FRANCE" THEN "" ELSE region
    BY <1>1, VatForIs
  <1>9. i.vat.exempt /\ i.vat.mode \in Categorised => i.vat.category /\ i.vat.reason
    BY <1>1, VatForIs
  <1> QED
    BY <1>7, <1>8, <1>9

\* The course of every behaviour, and the mention of every invoice it makes: on the
\* last line, the one of the region the invoice goes to, for every customer export.
THEOREM CourseHolds == Spec => []Course
  <1>1. Init => Course
    BY CourseInit
  <1>2. Course /\ [Next]_vars => Course'
    BY CourseStep
  <1> QED
    BY <1>1, <1>2, PTL DEF Spec

\* What Course says of one invoice.
LEMMA CourseSays ==
    ASSUME Course
    PROVE  /\ DOMAIN invoices = 1 .. Len(invoices)
           /\ \A k \in DOMAIN invoices : /\ k \in 1 .. Len(orders) /\ IsOrder(orders[k])
                                         /\ invoices[k] = Invoice(orders[k])
  <1>1. /\ Len(invoices) \in Nat /\ DOMAIN invoices = 1 .. Len(invoices)
        /\ Len(orders) \in Nat
    BY ListIs DEF Course, OrdersType
  <1> QED
    BY <1>1 DEF Course, OrdersType

\* MentionMatchesRegion holds in every reachable state.
THEOREM MentionMatchesRegionHolds == Spec => []MentionMatchesRegion
  <1>1. Course => MentionMatchesRegion
    <2> SUFFICES ASSUME Course, NEW k \in DOMAIN invoices
                 PROVE  LET o      == orders[k]
                            i      == invoices[k]
                            cp     == Preferred(i.card, o, "cp")
                            region == IF i.country \in Missed /\ cp \notin OverseasCodes
                                      THEN "HORSCEE" ELSE RegionOf(i.country, cp)
                            given  == i.card # 0 /\ CardRows[i.card].mode # ""
                        IN  /\ ~given => i.vat.mention = IF region = "FRANCE" THEN "" ELSE region
                            /\ \A n \in DOMAIN i.lines :
                                 /\ i.lines[n].no = n
                                 /\ i.lines[n].mention # "" <=> n = Len(i.lines) /\ i.vat.mention # ""
                                 /\ i.lines[n].rate =
                                      IF i.vat.exempt THEN 0 ELSE RateOf(i.lines[n].article)
                            /\ i.vat.exempt /\ i.vat.mode \in Categorised =>
                                 i.vat.category /\ i.vat.reason
      BY DEF MentionMatchesRegion
    <2> QED
      BY CourseSays, InvoiceHasItsMention DEF Mentioned
  <1> QED
    BY <1>1, CourseHolds, PTL

-----------------------------------------------------------------------------
(* The article of a line *)

\* The article export has a row whose field is the key, which is not blank.
Listed(field, key) == key # "" /\ \E r \in ToSet(ArticleRows) : r[field] = key

\* The lookup gives a row that has the key, and no row only when there is none.
LEMMA FirstArticleIs ==
    ASSUME NEW field, NEW key, NEW a, a = FirstArticle(field, key)
    PROVE  \/ a = 0 /\ ~Listed(field, key)
           \/ a # 0 /\ ArticleRows[a][field] = key /\ Listed(field, key)
  <1> DEFINE hits == {i \in 1 .. Len(ArticleRows) : ArticleRows[i][field] = key}
  <1>1. IsList(ArticleRows)
    BY SageOrdersAssumption DEF IsList
  <1>2. Len(ArticleRows) \in Nat /\ DOMAIN ArticleRows = 1 .. Len(ArticleRows)
    BY <1>1, ListIs
  <1>3. CASE key = ""
    BY <1>3 DEF FirstArticle, Listed
  <1>4. CASE key # ""
    <2>1. a = IF hits # {} THEN Min(hits) ELSE 0
      BY <1>4 DEF FirstArticle, SelectInSeq
    <2> HIDE DEF hits
    <2>2. CASE hits = {}
      <3>1. a = 0
        BY <2>1, <2>2
      <3>2. ~\E r \in ToSet(ArticleRows) : r[field] = key
        BY <1>1, <2>2, ListIs DEF hits
      <3> QED
        BY <3>1, <3>2 DEF Listed
    <2>3. CASE hits # {}
      <3>1. hits \in SUBSET Nat /\ IsFiniteSet(hits)
        <4>1. hits \in SUBSET (1 .. Len(ArticleRows)) /\ IsFiniteSet(1 .. Len(ArticleRows))
          BY <1>2, FS_Interval DEF hits
        <4>2. IsFiniteSet(hits)
          BY <4>1, FS_Subset
        <4> QED
          BY <4>1, <4>2, <1>2
      <3>2. PICK m \in hits : \A y \in hits : m <= y
        BY <2>3, <3>1, LeastIs
      <3>3. Min(hits) \in hits
        BY <3>2 DEF Min
      <3>4. a \in 1 .. Len(ArticleRows) /\ ArticleRows[a][field] = key
        BY <2>1, <2>3, <3>3 DEF hits
      <3>5. a # 0 /\ ArticleRows[a] \in ToSet(ArticleRows)
        BY <1>1, <1>2, <3>4, ListIs
      <3> QED
        BY <1>4, <3>4, <3>5 DEF Listed
    <2> QED
      BY <2>2, <2>3
  <1> QED
    BY <1>3, <1>4

\* The article of a reference is one of its own colour whenever the export has it, and
\* otherwise one of the same reference.
LEMMA FindArticleIs ==
    ASSUME NEW ref, NEW a, a = FindArticle(ref)
    PROVE  \/ a = 0 /\ ~Listed("base", ref.base)
           \/ a # 0 /\ ArticleRows[a].full = ref.full
           \/ a # 0 /\ ArticleRows[a].base = ref.base /\ ~Listed("full", ref.full)
  <1> DEFINE full == FirstArticle("full", ref.full)
             base == FirstArticle("base", ref.base)
  <1>1. a = IF full # 0 THEN full ELSE base
    BY DEF FindArticle
  <1>2. \/ full = 0 /\ ~Listed("full", ref.full)
        \/ full # 0 /\ ArticleRows[full]["full"] = ref.full
    BY FirstArticleIs
  <1>3. \/ base = 0 /\ ~Listed("base", ref.base)
        \/ base # 0 /\ ArticleRows[base]["base"] = ref.base
    BY FirstArticleIs
  <1> HIDE DEF full, base
  <1> QED
    BY <1>1, <1>2, <1>3

\* OwnColourFirst holds in every reachable state, for every article export.
THEOREM OwnColourFirstHolds == Spec => []OwnColourFirst
  <1>1. Course => OwnColourFirst
    <2> SUFFICES ASSUME Course, NEW k \in DOMAIN invoices, NEW n \in DOMAIN orders[k].lines
                 PROVE  LET ref     == orders[k].lines[n].ref
                            article == invoices[k].lines[n].article
                        IN  \/ article = 0 /\ ~Listed("base", ref.base)
                            \/ article # 0 /\ ArticleRows[article].full = ref.full
                            \/ /\ article # 0 /\ ArticleRows[article].base = ref.base
                               /\ ~Listed("full", ref.full)
      BY DEF OwnColourFirst, Listed
    <2> DEFINE ref == orders[k].lines[n].ref
    <2>1. IsOrder(orders[k]) /\ invoices[k] = Invoice(orders[k])
      BY CourseSays
    <2>2. invoices[k].lines[n] = ArticleLine(orders[k], n)
      BY <2>1, InvoiceLinesAre
    <2>3. invoices[k].lines[n].article = FindArticle(ref)
      <3>1. ArticleLine(orders[k], n).article = FindArticle(ref)
        BY ArticleLineSays
      <3> QED
        BY <2>2, <3>1, Zenon
    <2> HIDE DEF ref
    <2> QED
      BY <2>3, FindArticleIs DEF ref
  <1> QED
    BY <1>1, CourseHolds, PTL

-----------------------------------------------------------------------------
(* The customer of an order *)

\* The elements of a list are finitely many.
LEMMA ListIsFinite ==
    ASSUME NEW q, IsList(q)
    PROVE  IsFiniteSet(ToSet(q)) /\ Cardinality(ToSet(q)) <= Len(q)
  <1>1. /\ Len(q) \in Nat /\ q \in [1 .. Len(q) -> ToSet(q)]
        /\ \A x \in ToSet(q) : \E i \in 1 .. Len(q) : q[i] = x
    BY ListIs
  <1>2. q \in Surjection(1 .. Len(q), ToSet(q))
    BY <1>1 DEF Surjection
  <1>3. IsFiniteSet(1 .. Len(q)) /\ Cardinality(1 .. Len(q)) = Len(q)
    BY <1>1, FS_Interval
  <1> QED
    BY <1>2, <1>3, FS_Surjection

\* A finite set of numbers that is not empty has a greatest one.
LEMMA GreatestIs ==
    ASSUME NEW S \in SUBSET Nat, S # {}, IsFiniteSet(S)
    PROVE  \E m \in S : \A y \in S : y <= m
  <1>1. /\ Cardinality(S) \in Nat /\ Ascending(S) \in [1 .. Cardinality(S) -> S]
        /\ \A i, j \in 1 .. Cardinality(S) : i < j => Ascending(S)[i] < Ascending(S)[j]
        /\ \A x \in S : \E i \in 1 .. Cardinality(S) : Ascending(S)[i] = x
    BY AscendingIs
  <1> DEFINE a == Ascending(S)
             c == Cardinality(S)
  <1> HIDE DEF a, c
  <1>2. c # 0
    BY FS_EmptySet DEF c
  <1>3. c \in 1 .. c
    BY <1>1, <1>2 DEF c
  <1>4. a[c] \in S
    BY <1>1, <1>3 DEF a, c
  <1>5. ASSUME NEW y \in S PROVE y <= a[c]
    <2>1. PICK i \in 1 .. c : a[i] = y
      BY <1>1 DEF a, c
    <2>2. i = c \/ i < c
      BY <1>1 DEF c
    <2>3. i < c => a[i] < a[c]
      BY <1>1, <1>3 DEF a, c
    <2>4. a[c] \in Nat /\ y \in Nat
      BY <1>4
    <2> QED
      BY <2>1, <2>2, <2>3, <2>4
  <1> QED
    BY <1>4, <1>5

\* Of finitely many things with scores, one is the first of the best.
LEMMA FirstBestExists ==
    ASSUME NEW S \in SUBSET Nat, S # {}, IsFiniteSet(S), NEW s \in [S -> Nat]
    PROVE  \E m \in S : \A d \in S : IF d < m THEN s[d] < s[m] ELSE s[d] <= s[m]
  <1> DEFINE scores == {s[d] : d \in S}
  <1>1. s \in Surjection(S, scores)
    BY DEF Surjection
  <1>2. IsFiniteSet(scores)
    BY <1>1, FS_Surjection
  <1>3. scores \in SUBSET Nat /\ scores # {}
    OBVIOUS
  <1>4. PICK top \in scores : \A y \in scores : y <= top
    <2> HIDE DEF scores
    <2> QED
      BY <1>2, <1>3, GreatestIs
  <1> DEFINE best == {d \in S : s[d] = top}
  <1>5. best \in SUBSET S /\ best # {} /\ best \in SUBSET Nat
    BY <1>4
  <1>6. IsFiniteSet(best)
    BY <1>5, FS_Subset
  <1>7. PICK m \in best : \A d \in best : m <= d
    <2> HIDE DEF best
    <2> QED
      BY <1>5, <1>6, LeastIs
  <1>8. m \in S /\ s[m] = top /\ top \in Nat /\ m \in Nat
    BY <1>3, <1>4, <1>7
  <1>9. ASSUME NEW d \in S PROVE IF d < m THEN s[d] < s[m] ELSE s[d] <= s[m]
    <2>1. s[d] \in Nat /\ d \in Nat /\ s[d] <= top
      BY <1>4
    <2>2. d < m => s[d] # top
      <3> SUFFICES ASSUME d < m, s[d] = top PROVE FALSE
        OBVIOUS
      <3>1. m <= d
        BY <1>7
      <3> QED
        BY <1>8, <2>1, <3>1
    <2> QED
      BY <1>8, <2>1, <2>2
  <1> QED
    BY <1>8, <1>9

\* The customers are rows of the export, and finitely many.
LEMMA ClientsAre ==
    /\ Clients \in SUBSET Nat /\ IsFiniteSet(Clients) /\ 0 \notin Clients
    /\ \A c \in Clients : CardRows[c] \in ToSet(CardRows)
  <1>1. IsList(CardRows)
    BY SageOrdersAssumption DEF IsList
  <1>2. /\ Len(CardRows) \in Nat /\ DOMAIN CardRows = 1 .. Len(CardRows)
        /\ \A c \in 1 .. Len(CardRows) : CardRows[c] \in ToSet(CardRows)
    BY <1>1, ListIs
  <1>3. Clients \in SUBSET (1 .. Len(CardRows))
    BY <1>2 DEF Clients
  <1>4. IsFiniteSet(Clients)
    <2>1. IsFiniteSet(1 .. Len(CardRows))
      BY <1>2, FS_Interval
    <2> QED
      BY <1>3, <2>1, FS_Subset
  <1>5. Clients \in SUBSET Nat /\ 0 \notin Clients
    BY <1>2, <1>3
  <1> QED
    BY <1>2, <1>3, <1>4, <1>5

\* The words of a name are finitely many.
LEMMA WordsAre ==
    ASSUME NEW a, IsList(a), NEW b, IsList(b)
    PROVE  /\ IsFiniteSet(Words(a)) /\ Cardinality(Words(a)) \in Nat
           /\ IsFiniteSet(Words(a) \cap Words(b))
           /\ Cardinality(Words(a) \cap Words(b)) \in Nat
  <1>1. Words(a) \in SUBSET ToSet(a) /\ (Words(a) \cap Words(b)) \in SUBSET ToSet(a)
    BY DEF Words
  <1>2. IsFiniteSet(ToSet(a))
    BY ListIsFinite
  <1>3. IsFiniteSet(Words(a)) /\ IsFiniteSet(Words(a) \cap Words(b))
    BY <1>1, <1>2, FS_Subset
  <1> QED
    BY <1>3, FS_CardinalityType

\* A quotient is the greatest number that fits.
LEMMA QuotientIs ==
    ASSUME NEW n \in Nat, NEW d \in Nat \ {0}
    PROVE  n \div d \in Nat /\ d * (n \div d) <= n
  OBVIOUS

\* The overlap of two names is a number; if it is not zero they have words in common,
\* and one word in common weighs no more than one among MinWords.
LEMMA OverlapIs ==
    ASSUME NEW a, IsList(a), NEW b, IsList(b)
    PROVE  LET common == Cardinality(Words(a) \cap Words(b))
           IN  /\ Overlap(a, b) \in Nat
               /\ Words(a) \cap Words(b) = {} => Overlap(a, b) = 0
               /\ common < 2 => MinWords * Overlap(a, b) <= 100
  <1> DEFINE common == Cardinality(Words(a) \cap Words(b))
             least  == Smaller(Cardinality(Words(a)), Cardinality(Words(b)))
             over   == Larger(MinWords, least)
             o      == Overlap(a, b)
  <1>1. /\ common \in Nat /\ Cardinality(Words(a)) \in Nat /\ Cardinality(Words(b)) \in Nat
        /\ MinWords \in Nat \ {0}
    BY WordsAre, SageOrdersAssumption
  <1>2. over \in Nat \ {0} /\ MinWords <= over
    BY <1>1 DEF Larger, Smaller
  <1>3. Words(a) \cap Words(b) = {} => common = 0
    BY FS_EmptySet
  <1>4. o = IF Words(a) = {} \/ Words(b) = {} THEN 0 ELSE (100 * common) \div over
    BY DEF Overlap
  <1> HIDE DEF o, over, common
  <1>5. CASE Words(a) = {} \/ Words(b) = {}
    BY <1>1, <1>4, <1>5 DEF o, common
  <1>6. CASE ~(Words(a) = {} \/ Words(b) = {})
    <2>1. o = (100 * common) \div over
      BY <1>4, <1>6
    <2>2. 100 * common \in Nat
      BY <1>1
    <2>3. o \in Nat /\ over * o <= 100 * common
      BY <1>2, <2>1, <2>2, QuotientIs
    <2>4. common = 0 => o = 0
      <3> HAVE common = 0
      <3>1. over * o <= 0
        BY <2>3
      <3> QED
        BY <1>2, <2>3, <3>1
    <2>5. common < 2 => MinWords * o <= 100
      <3> HAVE common < 2
      <3>1. 100 * common <= 100
        BY <1>1
      <3>2. MinWords * o <= over * o
        BY <1>1, <1>2, <2>3
      <3>3. MinWords * o \in Nat /\ over * o \in Nat /\ 100 * common \in Nat
        BY <1>1, <1>2, <2>3
      <3> QED
        BY <2>3, <3>1, <3>2, <3>3
    <2> QED
      BY <1>3, <2>3, <2>4, <2>5 DEF o, common
  <1> QED
    BY <1>5, <1>6

\* What the address adds to a score.
LEMMA BonusIs ==
    ASSUME NEW o, NEW c
    PROVE  AddressBonus(o, c) \in Nat
  <1> DEFINE cp     == o.cp # "" /\ o.cp = c.cp
             city   == o.city # "" /\ o.city = c.city
             number == o.number # "" /\ o.number = c.number
  <1>1. AddressBonus(o, c) = (IF cp THEN 20 ELSE 0) + (IF city THEN 15 ELSE 0)
                               + (IF number THEN 10 ELSE 0)
    BY DEF AddressBonus
  <1> HIDE DEF cp, city, number
  <1> QED
    BY <1>1

\* A score is a number; that of an order that reaches the threshold has one of the
\* reasons of AttachedForAReason.
LEMMA ScoreIs ==
    ASSUME NEW o, IsOrder(o), NEW c \in ToSet(CardRows)
    PROVE  /\ Score(o, c) \in Nat
           /\ Score(o, c) >= Threshold /\ 100 < Threshold * MinWords =>
                \/ Ratio(Norm(o.name), Norm(c.name)) + AddressBonus(o, c) >= Threshold
                \/ OneBeginsOther(o.name, c.name)
                \/ Cardinality(Words(o.name) \cap Words(c.name)) >= 2
                \/ Words(o.name) \cap Words(c.name) # {} /\ AddressBonus(o, c) > 0
  <1> DEFINE ratio  == Ratio(Norm(o.name), Norm(c.name))
             over   == Overlap(o.name, c.name)
             bonus  == AddressBonus(o, c)
             begins == OneBeginsOther(o.name, c.name)
             common == Cardinality(Words(o.name) \cap Words(c.name))
             none   == Words(o.name) \cap Words(c.name) = {}
             score  == Score(o, c)
  <1>1. o.name \in Names /\ IsList(o.name) /\ IsList(c.name)
    BY SageOrdersAssumption DEF IsOrder, IsList
  <1>2. ratio \in Nat /\ Threshold \in Nat /\ MinWords \in Nat \ {0}
    BY <1>1, SageOrdersAssumption
  <1>3. bonus \in Nat /\ common \in Nat
    BY <1>1, BonusIs, WordsAre
  <1>4. over \in Nat /\ (none => over = 0) /\ (common < 2 => MinWords * over <= 100)
    BY <1>1, OverlapIs
  <1>5. \/ score = 0 + bonus
        \/ score = Larger(Larger(ratio, over), IF begins THEN 85 ELSE 0) + bonus
    BY DEF Score, ScoreClient
  <1> HIDE DEF ratio, over, bonus, begins, common, none, score
  <1>6. \/ score = bonus \/ score = ratio + bonus \/ score = over + bonus
        \/ begins /\ score = 85 + bonus
    <2>1. CASE begins
      BY <1>2, <1>3, <1>4, <1>5, <2>1 DEF Larger
    <2>2. CASE ~begins
      BY <1>2, <1>3, <1>4, <1>5, <2>2 DEF Larger
    <2> QED
      BY <2>1, <2>2
  <1>7. score \in Nat
    BY <1>2, <1>3, <1>4, <1>6
  <1>8. ASSUME score >= Threshold, 100 < Threshold * MinWords
        PROVE  \/ ratio + bonus >= Threshold \/ begins \/ common >= 2
               \/ ~none /\ bonus > 0
    <2>1. CASE score = bonus \/ score = ratio + bonus
      BY <1>2, <1>3, <1>8, <2>1
    <2>2. CASE score = over + bonus
      <3> SUFFICES ASSUME common < 2, none \/ bonus = 0
                   PROVE  ratio + bonus >= Threshold
        BY <1>3
      <3>1. CASE none
        BY <1>2, <1>3, <1>4, <1>8, <2>2, <3>1
      <3>2. CASE bonus = 0
        <4>1. over >= Threshold /\ MinWords * over <= 100
          BY <1>3, <1>4, <1>8, <2>2, <3>2
        <4>2. MinWords * Threshold <= MinWords * over
          BY <1>2, <1>4, <4>1
        <4>3. MinWords * Threshold = Threshold * MinWords
          BY <1>2
        <4>4. MinWords * Threshold \in Nat /\ MinWords * over \in Nat
          BY <1>2, <1>4
        <4> QED
          BY <1>8, <4>1, <4>2, <4>3, <4>4
      <3> QED
        BY <3>1, <3>2
    <2> QED
      BY <1>6, <2>1, <2>2
  <1> QED
    BY <1>7, <1>8 DEF ratio, bonus, begins, common, none, score

\* The lookup gives the first of the best customers, and none when nobody reaches the
\* threshold.
LEMMA MatchClientIs ==
    ASSUME NEW o, IsOrder(o), NEW c, c = MatchClient(o)
    PROVE  \/ c = 0 /\ \A d \in Clients : Score(o, CardRows[d]) < Threshold
           \/ /\ c # 0 /\ c \in Clients /\ Score(o, CardRows[c]) >= Threshold
              /\ \A d \in Clients : Score(o, CardRows[d]) <= Score(o, CardRows[c])
  <1> DEFINE s    == [d \in Clients |-> Score(o, CardRows[d])]
             best == {d \in Clients : IsFirstBest(o, d)}
  <1>1. /\ Clients \in SUBSET Nat /\ IsFiniteSet(Clients) /\ 0 \notin Clients
        /\ Threshold \in Nat
    BY ClientsAre, SageOrdersAssumption
  <1>2. s \in [Clients -> Nat]
    BY ClientsAre, ScoreIs
  <1>3. c = IF best = {} THEN 0 ELSE CHOOSE d \in best : TRUE
    BY DEF MatchClient
  <1>4. \A d \in Clients : s[d] = Score(o, CardRows[d])
    OBVIOUS
  <1>5. \A m \in Clients :
          m \in best <=> /\ s[m] >= Threshold
                         /\ \A d \in Clients : IF d < m THEN s[d] < s[m] ELSE s[d] <= s[m]
    BY <1>4 DEF IsFirstBest
  <1>6. best \in SUBSET Clients
    OBVIOUS
  <1> HIDE DEF s, best
  <1>7. CASE best = {}
    <2>1. c = 0
      BY <1>3, <1>7
    <2>2. ASSUME NEW d \in Clients PROVE s[d] < Threshold
      <3>1. Clients # {}
        OBVIOUS
      <3>2. PICK m \in Clients :
              \A e \in Clients : IF e < m THEN s[e] < s[m] ELSE s[e] <= s[m]
        BY <1>1, <1>2, <3>1, FirstBestExists
      <3>3. ~(s[m] >= Threshold)
        BY <1>5, <1>7, <3>2
      <3>4. s[d] \in Nat /\ s[m] \in Nat /\ s[d] <= s[m]
        BY <1>2, <3>2
      <3> QED
        BY <1>1, <3>3, <3>4
    <2> QED
      BY <1>4, <2>1, <2>2
  <1>8. CASE best # {}
    <2>1. c \in best
      BY <1>3, <1>8
    <2>2. c \in Clients /\ c # 0
      BY <1>1, <1>6, <2>1
    <2>3. /\ s[c] >= Threshold
          /\ \A d \in Clients : IF d < c THEN s[d] < s[c] ELSE s[d] <= s[c]
      BY <1>5, <2>1, <2>2
    <2>4. \A d \in Clients : s[d] <= s[c]
      BY <1>2, <2>2, <2>3
    <2> QED
      BY <1>4, <2>2, <2>3, <2>4
  <1> QED
    BY <1>7, <1>8

\* AttachedForAReason holds in every reachable state, for every customer export and every
\* likeness of names, if one word among MinWords does not reach the threshold.
THEOREM AttachedForAReasonHolds ==
    ASSUME 100 < Threshold * MinWords
    PROVE  Spec => []AttachedForAReason
  <1>1. Course => AttachedForAReason
    <2> SUFFICES ASSUME Course, NEW k \in DOMAIN invoices
                 PROVE  LET o == orders[k]
                            c == CardRows[invoices[k].card]
                        IN  IF invoices[k].card = 0
                            THEN \A d \in Clients : Score(o, CardRows[d]) < Threshold
                            ELSE /\ \/ Ratio(Norm(o.name), Norm(c.name)) + AddressBonus(o, c)
                                         >= Threshold
                                    \/ OneBeginsOther(o.name, c.name)
                                    \/ Cardinality(Words(o.name) \cap Words(c.name)) >= 2
                                    \/ /\ Words(o.name) \cap Words(c.name) # {}
                                       /\ AddressBonus(o, c) > 0
                                 /\ \A d \in Clients : Score(o, CardRows[d]) <= Score(o, c)
      BY DEF AttachedForAReason
    <2> DEFINE o == orders[k]
               c == invoices[k].card
    <2>1. IsOrder(o) /\ invoices[k] = Invoice(o)
      BY CourseSays
    <2>2. c = MatchClient(o)
      BY <2>1 DEF Invoice
    <2> HIDE DEF o, c
    <2>3. CASE c = 0
      BY <2>1, <2>2, <2>3, MatchClientIs DEF o, c
    <2>4. CASE c # 0
      <3>1. /\ c \in Clients /\ Score(o, CardRows[c]) >= Threshold
            /\ \A d \in Clients : Score(o, CardRows[d]) <= Score(o, CardRows[c])
        BY <2>1, <2>2, <2>4, MatchClientIs
      <3>2. CardRows[c] \in ToSet(CardRows)
        BY <3>1, ClientsAre
      <3> QED
        BY <2>1, <2>4, <3>1, <3>2, ScoreIs DEF o, c
    <2> QED
      BY <2>3, <2>4
  <1> QED
    BY <1>1, CourseHolds, PTL

-----------------------------------------------------------------------------
(* What the sender reads *)

\* The lines of a list that are not shown are no more than those that are left.
LEMMA HiddenAreCounted ==
    ASSUME NEW w, IsList(w), NEW n \in Nat, n <= Len(w), NEW F \in SUBSET ToSet(w)
    PROVE  Cardinality(F \ ToSet(SubSeq(w, 1, n))) <= Len(w) - n
  <1> DEFINE places == (n + 1) .. Len(w)
             rest   == {w[i] : i \in places}
             hidden == F \ ToSet(SubSeq(w, 1, n))
             tail   == [i \in places |-> w[i]]
  <1>1. /\ Len(w) \in Nat /\ w \in Seq(ToSet(w))
        /\ \A x \in ToSet(w) : \E i \in 1 .. Len(w) : w[i] = x
    BY ListIs DEF IsList
  <1>2. \A i \in 1 .. n : w[i] \in ToSet(SubSeq(w, 1, n))
    <2> DEFINE s == SubSeq(w, 1, n)
    <2>1. DOMAIN s = 1 .. n /\ \A i \in 1 .. n : s[i] = w[i]
      BY <1>1
    <2> HIDE DEF s
    <2>2. \A i \in 1 .. n : s[i] \in ToSet(s)
      BY <2>1 DEF ToSet
    <2> QED
      BY <2>1, <2>2 DEF s
  <1>3. hidden \in SUBSET rest
    <2> SUFFICES ASSUME NEW x \in hidden PROVE x \in rest
      OBVIOUS
    <2>1. PICK i \in 1 .. Len(w) : w[i] = x
      BY <1>1
    <2>2. i \notin 1 .. n
      BY <1>2, <2>1
    <2>3. i \in places
      BY <1>1, <2>2
    <2> QED
      BY <2>1, <2>3
  <1>4. IsFiniteSet(places) /\ Cardinality(places) = Len(w) - n
    <2> DEFINE m == n + 1
               k == Len(w)
    <2>1. m \in Int /\ k \in Int /\ (m > k => k - n = 0) /\ (~(m > k) => k - m + 1 = k - n)
      BY <1>1
    <2> HIDE DEF m, k
    <2>2. IsFiniteSet(m .. k) /\ Cardinality(m .. k) = IF m > k THEN 0 ELSE k - m + 1
      BY <2>1, FS_Interval
    <2>3. Cardinality(m .. k) = k - n
      BY <2>1, <2>2
    <2> QED
      BY <2>2, <2>3 DEF m, k
  <1>5. tail \in Surjection(places, rest)
    BY DEF Surjection
  <1> HIDE DEF places, rest, hidden, tail
  <1>6. IsFiniteSet(rest) /\ Cardinality(rest) <= Len(w) - n
    BY <1>4, <1>5, FS_Surjection
  <1>7. IsFiniteSet(hidden) /\ Cardinality(hidden) <= Cardinality(rest)
    BY <1>3, <1>6, FS_Subset
  <1>8. Cardinality(hidden) \in Nat /\ Cardinality(rest) \in Nat
    BY <1>6, <1>7, FS_CardinalityType
  <1> QED
    BY <1>1, <1>6, <1>7, <1>8 DEF hidden

\* A section names each of its items.
LEMMA SectionIs ==
    ASSUME NEW heading, NEW kind, NEW items, IsList(items)
    PROVE  /\ IsList(Section(heading, kind, items))
           /\ \A x \in ToSet(items) : Item(kind, x) \in ToSet(Section(heading, kind, items))
  <1> DEFINE first  == Item(heading, 0)
             others == [n \in DOMAIN items |-> Item(kind, items[n])]
             size   == Len(items)
  <1>1. /\ size \in Nat /\ DOMAIN items = 1 .. size /\ (items = <<>> <=> size = 0)
        /\ \A x \in ToSet(items) : \E i \in 1 .. size : items[i] = x
    BY ListIs
  <1>2. CASE items = <<>>
    <2>1. Section(heading, kind, items) = <<>> /\ ToSet(items) = {}
      BY <1>1, <1>2 DEF Section
    <2> QED
      BY <2>1, EmptySeq, SequenceIsList
  <1>3. CASE items # <<>>
    <2>1. Section(heading, kind, items) = <<first>> \o others
      BY <1>3 DEF Section
    <2>2. /\ DOMAIN others = 1 .. size /\ others = [n \in 1 .. size |-> others[n]]
          /\ \A n \in 1 .. size : others[n] = Item(kind, items[n])
      BY <1>1
    <2> HIDE DEF first, others, size
    <2>3. IsList(others) /\ Len(others) = size
      BY <1>1, <2>2, FunctionIsList
    <2>4. IsList(<<first>>)
      <3>1. <<first>> \in Seq({first})
        OBVIOUS
      <3> QED
        BY <3>1, SequenceIsList
    <2>5. /\ IsList(<<first>> \o others)
          /\ ToSet(<<first>> \o others) = ToSet(<<first>>) \cup ToSet(others)
      BY <2>3, <2>4, ListsConcatenate
    <2>6. \A x \in ToSet(items) : Item(kind, x) \in ToSet(others)
      <3> TAKE x \in ToSet(items)
      <3>1. PICK i \in 1 .. size : items[i] = x
        BY <1>1
      <3>2. others[i] = Item(kind, x) /\ others[i] \in ToSet(others)
        BY <2>2, <2>3, <3>1, ListIs
      <3> QED
        BY <3>2
    <2> QED
      BY <2>1, <2>5, <2>6
  <1> QED
    BY <1>2, <1>3

\* The warnings name each customer and each article of the report, and say when there
\* are unknown countries.
LEMMA WarningsAre ==
    ASSUME IsList(missing.clients), IsList(missing.articles)
    PROVE  /\ IsList(Warnings)
           /\ \A k \in ToSet(missing.clients) : Item("client", k) \in ToSet(Warnings)
           /\ \A r \in ToSet(missing.articles) : Item("article", r) \in ToSet(Warnings)
           /\ missing.countries # {} => Item("countries", 0) \in ToSet(Warnings)
  <1> DEFINE a == Section("clients", "client", missing.clients)
             b == Section("articles", "article", missing.articles)
             x == Item("countries", 0)
             c == IF missing.countries = {} THEN <<>> ELSE <<x>>
  <1>1. /\ IsList(a) /\ \A k \in ToSet(missing.clients) : Item("client", k) \in ToSet(a)
        /\ IsList(b) /\ \A r \in ToSet(missing.articles) : Item("article", r) \in ToSet(b)
    BY SectionIs
  <1>2. Warnings = (a \o b) \o c
    BY DEF Warnings
  <1> HIDE DEF a, b, x
  <1>3. IsList(c) /\ (missing.countries # {} => x \in ToSet(c))
    <2>1. CASE missing.countries = {}
      BY <2>1, EmptySeq, SequenceIsList
    <2>2. CASE missing.countries # {}
      <3>1. c = <<x>>
        BY <2>2
      <3>2. <<x>> \in Seq({x}) /\ DOMAIN <<x>> = 1 .. 1 /\ <<x>>[1] = x
        OBVIOUS
      <3>3. x \in ToSet(<<x>>)
        BY <3>2 DEF ToSet
      <3> QED
        BY <3>1, <3>2, <3>3, SequenceIsList
    <2> QED
      BY <2>1, <2>2
  <1> HIDE DEF c
  <1>4. IsList(a \o b) /\ ToSet(a \o b) = ToSet(a) \cup ToSet(b)
    BY <1>1, ListsConcatenate
  <1>5. /\ IsList((a \o b) \o c)
        /\ ToSet((a \o b) \o c) = (ToSet(a) \cup ToSet(b)) \cup ToSet(c)
    BY <1>3, <1>4, ListsConcatenate
  <1> QED
    BY <1>1, <1>2, <1>3, <1>5 DEF x

\* The rows of the lines without an article are in the report of an order.
LEMMA UnfoundIs ==
    ASSUME NEW o, IsOrder(o)
    PROVE  /\ IsList(Unfound(o))
           /\ \A n \in DOMAIN o.lines :
                 FindArticle(o.lines[n].ref) = 0 => o.lines[n].row \in ToSet(Unfound(o))
  <1> DEFINE S      == {n \in DOMAIN o.lines : FindArticle(o.lines[n].ref) = 0}
             places == Ascending(S)
             rows   == [n \in DOMAIN places |-> o.lines[places[n]].row]
  <1>1. Len(o.lines) \in Nat /\ DOMAIN o.lines = 1 .. Len(o.lines)
    BY ListIs DEF IsOrder
  <1>2. S \in SUBSET (1 .. Len(o.lines)) /\ S \in SUBSET Nat
    BY <1>1
  <1>3. IsFiniteSet(S)
    <2> DEFINE m == Len(o.lines)
    <2> HIDE DEF m, S
    <2>1. m \in Int
      BY <1>1 DEF m
    <2>2. IsFiniteSet(1 .. m)
      BY <2>1, FS_Interval
    <2> QED
      BY <1>2, <2>2, FS_Subset DEF m
  <1> HIDE DEF S
  <1>4. /\ Len(places) \in Nat /\ DOMAIN places = 1 .. Len(places)
        /\ \A n \in S : \E i \in 1 .. Len(places) : places[i] = n
    <2>1. /\ Ascending(S) \in Seq(S) /\ DOMAIN Ascending(S) = 1 .. Len(Ascending(S))
          /\ ToSet(Ascending(S)) = S
      BY <1>2, <1>3, AscendingSequence
    <2> HIDE DEF places
    <2>2. IsList(places)
      BY <2>1, SequenceIsList DEF places
    <2> QED
      BY <2>1, <2>2, ListIs DEF places
  <1> HIDE DEF places
  <1>5. /\ DOMAIN rows = 1 .. Len(places) /\ rows = [n \in 1 .. Len(places) |-> rows[n]]
        /\ \A n \in 1 .. Len(places) : rows[n] = o.lines[places[n]].row
    BY <1>4
  <1>6. Unfound(o) = rows
    BY DEF Unfound, places, S
  <1> HIDE DEF rows
  <1>7. IsList(rows) /\ Len(rows) = Len(places)
    BY <1>4, <1>5, FunctionIsList
  <1>8. ASSUME NEW n \in DOMAIN o.lines, FindArticle(o.lines[n].ref) = 0
        PROVE  o.lines[n].row \in ToSet(rows)
    <2>1. n \in S
      BY <1>8 DEF S
    <2>2. PICK i \in 1 .. Len(places) : places[i] = n
      BY <1>4, <2>1
    <2>3. rows[i] = o.lines[n].row /\ rows[i] \in ToSet(rows)
      BY <1>5, <1>7, <2>2, ListIs
    <2> QED
      BY <2>3
  <1> QED
    BY <1>6, <1>7, <1>8

\* Everything of invoice k that is to be checked in Sage is in the report.
Covered(report, k, i) ==
    /\ i.card = 0 => k \in ToSet(report.clients)
    /\ \A l \in ToSet(i.lines) : l.row # 0 /\ l.article = 0 => l.row \in ToSet(report.articles)
    /\ i.country # "" /\ ~IsKnown(i.country) => report.countries # {}

\* The report covers every invoice, and the sender reads the first of its warnings and
\* the number of the others.
Reported ==
    /\ IsList(missing.clients) /\ IsList(missing.articles)
    /\ \A k \in DOMAIN invoices : Covered(missing, k, invoices[k])
    /\ pc = "answered" =>
         LET n == Smaller(MaxWarningLines, Len(Warnings))
         IN  caption.shown = SubSeq(Warnings, 1, n) /\ caption.more = Len(Warnings) - n

\* A line of an invoice without an article is in the report of its order.
LEMMA UnfoundCovers ==
    ASSUME NEW o, IsOrder(o), NEW l \in ToSet(Invoice(o).lines), l.row # 0, l.article = 0
    PROVE  l.row \in ToSet(Unfound(o))
  <1> DEFINE lines == Invoice(o).lines
             m     == Len(o.lines)
             size  == Size(o)
  <1>1. /\ m \in Nat /\ DOMAIN o.lines = 1 .. m
        /\ IsList(lines) /\ Len(lines) = size
        /\ \A n \in 1 .. m : lines[n] = ArticleLine(o, n)
        /\ HasMention(o) => lines[m + 1] = LastLine(o)
    BY InvoiceLinesAre
  <1>2. size = IF HasMention(o) THEN m + 1 ELSE m
    BY DEF Size
  <1> HIDE DEF lines, m, size
  <1>3. PICK n \in 1 .. size : lines[n] = l
    <2>1. \A x \in ToSet(lines) : \E n \in 1 .. Len(lines) : lines[n] = x
      BY <1>1, ListIs
    <2> QED
      BY <1>1, <2>1 DEF lines
  <1>4. n \in 1 .. m \/ (HasMention(o) /\ n = m + 1)
    <2> CASE HasMention(o)
      BY <1>1, <1>2, <1>3
    <2> CASE ~HasMention(o)
      BY <1>1, <1>2, <1>3
    <2> QED
      OBVIOUS
  <1>5. CASE n \in 1 .. m
    <2>1. l = ArticleLine(o, n)
      BY <1>1, <1>3, <1>5
    <2>2. /\ ArticleLine(o, n).row = o.lines[n].row
          /\ ArticleLine(o, n).article = FindArticle(o.lines[n].ref)
      BY Zenon DEF ArticleLine
    <2>3. l.row = o.lines[n].row /\ FindArticle(o.lines[n].ref) = 0
      BY <2>1, <2>2, Zenon
    <2>4. n \in DOMAIN o.lines
      BY <1>1, <1>5
    <2> QED
      BY <2>3, <2>4, UnfoundIs
  <1>6. CASE HasMention(o) /\ n = m + 1
    <2>1. l = LastLine(o)
      BY <1>1, <1>3, <1>6
    <2> QED
      BY <2>1, LastLineSays
  <1> QED
    BY <1>4, <1>5, <1>6

\* What fabriquer adds to the report covers the invoice it makes.
LEMMA AddedIsCovered ==
    ASSUME NEW o, IsOrder(o), NEW k, NEW i, i = Invoice(o), NEW report,
           i.card = 0 => k \in ToSet(report.clients),
           ToSet(Unfound(o)) \subseteq ToSet(report.articles),
           i.country = "" \/ IsKnown(i.country) \/ i.country \in report.countries
    PROVE  Covered(report, k, i)
  <1>1. \A l \in ToSet(i.lines) : l.row # 0 /\ l.article = 0 => l.row \in ToSet(report.articles)
    BY UnfoundCovers
  <1>2. i.country # "" /\ ~IsKnown(i.country) => report.countries # {}
    OBVIOUS
  <1> QED
    BY <1>1, <1>2 DEF Covered

\* A longer report still covers an invoice.
LEMMA StillCovered ==
    ASSUME NEW report, NEW longer, NEW k, NEW i, Covered(report, k, i),
           ToSet(report.clients) \subseteq ToSet(longer.clients),
           ToSet(report.articles) \subseteq ToSet(longer.articles),
           report.countries \subseteq longer.countries
    PROVE  Covered(longer, k, i)
  BY DEF Covered

\* At the start there is nothing to report.
LEMMA ReportedInit == Init => Reported
  <1> SUFFICES ASSUME Init PROVE Reported
    OBVIOUS
  <1>1. IsList(<<>>) /\ DOMAIN <<>> = {}
    <2>1. IsList(<<>>) /\ Len(<<>>) = 0
      BY EmptySeq, SequenceIsList
    <2>2. DOMAIN <<>> = 1 .. 0
      BY <2>1, ListIs
    <2> QED
      BY <2>1, <2>2
  <1>2. missing.clients = <<>> /\ missing.articles = <<>> /\ invoices = <<>> /\ pc # "answered"
    BY DEF Init
  <1> QED
    BY <1>1, <1>2 DEF Reported

\* Every step keeps the report complete.
LEMMA ReportedStep == Course /\ Reported /\ [Next]_vars => Reported'
  <1> SUFFICES ASSUME Course, Reported, [Next]_vars PROVE Reported'
    OBVIOUS
  <1>1. CASE UNCHANGED vars
    BY <1>1 DEF vars, Reported, Covered, IsList, Warnings, Section, Item
  <1>2. CASE Read \/ WriteFile
    <2>1. UNCHANGED <<invoices, missing>> /\ pc' # "answered"
      BY <1>2 DEF Read, Reads, ReadTitle, SkipAmount, ReadNumber, ReadClient, ReadAddress,
                  ReadHeader, ReadProduct, ReadLine, EndOfFile, WriteFile
    <2> QED
      BY <2>1 DEF Reported, Covered, IsList
  <1>3. CASE MakeInvoice
    <2> DEFINE n == Len(invoices)
               o == orders[n + 1]
               i == Invoice(o)
    <2>1. pc' # "answered" /\ n < Len(orders) /\ invoices' = Append(invoices, i)
      BY <1>3 DEF MakeInvoice
    <2>1a. missing' = [clients   |-> IF i.card = 0 THEN Append(missing.clients, n + 1)
                                     ELSE missing.clients,
                       articles  |-> missing.articles \o Unfound(o),
                       countries |-> IF i.country = "" \/ IsKnown(i.country)
                                     THEN missing.countries
                                     ELSE missing.countries \cup {i.country}]
      BY <1>3 DEF MakeInvoice
    <2>2. IsOrder(o)
      <3>1. n \in Nat /\ Len(orders) \in Nat /\ n < Len(orders)
        BY <2>1, ListIs DEF Course, OrdersType
      <3> HIDE DEF n
      <3>2. n + 1 \in 1 .. Len(orders)
        BY <3>1
      <3> QED
        BY <3>2 DEF Course, OrdersType
    <2> HIDE DEF o
    <2>3. /\ IsList(missing'.clients) /\ ToSet(missing.clients) \subseteq ToSet(missing'.clients)
          /\ i.card = 0 => n + 1 \in ToSet(missing'.clients)
      <3> DEFINE card == i.card
                 m    == missing.clients
      <3>1. missing'.clients = IF card = 0 THEN Append(m, n + 1) ELSE m
        BY <2>1a
      <3>2. IsList(m)
        BY DEF Reported
      <3> HIDE DEF card, i, n, m
      <3>3. CASE card = 0
        BY <3>1, <3>2, <3>3, ListGrows DEF card, m
      <3>4. CASE card # 0
        BY <3>1, <3>2, <3>4 DEF card, m
      <3> QED
        BY <3>3, <3>4
    <2>4. /\ IsList(missing'.articles)
          /\ ToSet(missing'.articles) = ToSet(missing.articles) \cup ToSet(Unfound(o))
      <3>1. missing'.articles = missing.articles \o Unfound(o)
        BY <2>1a
      <3>2. IsList(missing.articles) /\ IsList(Unfound(o))
        BY <2>2, UnfoundIs DEF Reported
      <3> QED
        BY <3>1, <3>2, ListsConcatenate
    <2>5. /\ missing.countries \subseteq missing'.countries
          /\ i.country = "" \/ IsKnown(i.country) \/ i.country \in missing'.countries
      <3>1. missing'.countries = IF i.country = "" \/ IsKnown(i.country) THEN missing.countries
                                 ELSE missing.countries \cup {i.country}
        BY <2>1a
      <3> HIDE DEF i
      <3> QED
        BY <3>1
    <2>6. Covered(missing', n + 1, i)
      BY <2>2, <2>3, <2>4, <2>5, AddedIsCovered
    <2>7. /\ IsList(invoices') /\ Len(invoices') = n + 1 /\ n \in Nat
          /\ \A k \in 1 .. n : invoices'[k] = invoices[k]
          /\ invoices'[n + 1] = i
      <3>1. IsList(invoices) /\ n \in Nat
        BY ListIs DEF Course
      <3> HIDE DEF i
      <3> QED
        BY <2>1, <3>1, ListGrows
    <2>8. DOMAIN invoices' = 1 .. n + 1 /\ DOMAIN invoices = 1 .. n
      <3>1. IsList(invoices)
        BY DEF Course
      <3> QED
        BY <2>7, <3>1, ListIs
    <2>9. ASSUME NEW k \in DOMAIN invoices' PROVE Covered(missing', k, invoices'[k])
      <3>1. CASE k = n + 1
        BY <2>6, <2>7, <3>1
      <3>2. CASE k # n + 1
        <4>1. k \in 1 .. n
          BY <2>7, <2>8, <2>9, <3>2
        <4>2. Covered(missing, k, invoices[k]) /\ invoices'[k] = invoices[k]
          BY <2>7, <2>8, <4>1 DEF Reported
        <4> QED
          BY <2>3, <2>4, <2>5, <4>2, StillCovered
      <3> QED
        BY <3>1, <3>2
    <2> QED
      BY <2>1, <2>3, <2>4, <2>9 DEF Reported, Covered, IsList
  <1>4. CASE Answer
    <2> DEFINE n == Smaller(MaxWarningLines, Len(Warnings))
    <2>1. /\ UNCHANGED <<invoices, missing>>
          /\ caption'.shown = SubSeq(Warnings, 1, n) /\ caption'.more = Len(Warnings) - n
      BY <1>4 DEF Answer
    <2>2. Warnings' = Warnings
      BY <2>1 DEF Warnings, Section, Item
    <2> QED
      BY <2>1, <2>2 DEF Reported, Covered, IsList
  <1> QED
    BY <1>1, <1>2, <1>3, <1>4 DEF Next

\* NothingHidden holds in every reachable state: for every order file, and however many
\* lines of warnings the caption has room for, what is not in it is counted.
THEOREM NothingHiddenHolds == Spec => []NothingHidden
  <1>1. Course /\ Reported => NothingHidden
    <2> SUFFICES ASSUME Course, Reported, pc = "answered"
                 PROVE  NothingHidden
      BY DEF NothingHidden
    <2> DEFINE F == {Item("client", k) : k \in {k \in DOMAIN invoices : invoices[k].card = 0}}
               A == {Item("article", i) : i \in
                       {i \in DOMAIN file : \E k \in DOMAIN invoices :
                          \E l \in ToSet(invoices[k].lines) : l.row = i /\ l.article = 0}}
               C == IF \E k \in DOMAIN invoices :
                          invoices[k].country # "" /\ ~IsKnown(invoices[k].country)
                    THEN {Item("countries", 0)} ELSE {}
               w == Warnings
               n == Smaller(MaxWarningLines, Len(w))
    <2>1. /\ IsList(w)
          /\ \A k \in ToSet(missing.clients) : Item("client", k) \in ToSet(w)
          /\ \A r \in ToSet(missing.articles) : Item("article", r) \in ToSet(w)
          /\ missing.countries # {} => Item("countries", 0) \in ToSet(w)
      BY WarningsAre DEF Reported
    <2>2. F \subseteq ToSet(w)
      BY <2>1 DEF Reported, Covered
    <2>3. A \subseteq ToSet(w)
      <3> SUFFICES ASSUME NEW i \in DOMAIN file, NEW k \in DOMAIN invoices,
                          NEW l \in ToSet(invoices[k].lines), l.row = i, l.article = 0
                   PROVE  Item("article", i) \in ToSet(w)
        OBVIOUS
      <3>1. i # 0
        <4>1. IsList(file)
          BY SageOrdersAssumption DEF Course, OrdersType, IsList
        <4>2. Len(file) \in Nat /\ DOMAIN file = 1 .. Len(file)
          BY <4>1, ListIs
        <4> QED
          BY <4>2
      <3>2. i \in ToSet(missing.articles)
        BY <3>1 DEF Reported, Covered
      <3> QED
        BY <2>1, <3>2
    <2>4. C \subseteq ToSet(w)
      <3>1. CASE \E k \in DOMAIN invoices :
                    invoices[k].country # "" /\ ~IsKnown(invoices[k].country)
        <4>1. missing.countries # {}
          BY <3>1 DEF Reported, Covered
        <4> QED
          BY <2>1, <4>1
      <3>2. CASE ~\E k \in DOMAIN invoices :
                    invoices[k].country # "" /\ ~IsKnown(invoices[k].country)
        BY <3>2
      <3> QED
        BY <3>1, <3>2
    <2>5. caption.shown = SubSeq(w, 1, n) /\ caption.more = Len(w) - n
      BY DEF Reported
    <2>6. (F \cup A) \cup C \in SUBSET ToSet(w)
      BY <2>2, <2>3, <2>4
    <2> HIDE DEF F, A, C, w
    <2>7. n \in Nat /\ n <= Len(w)
      BY <2>1, ListIs, SageOrdersAssumption DEF Smaller
    <2> HIDE DEF n
    <2>8. Cardinality(((F \cup A) \cup C) \ ToSet(SubSeq(w, 1, n))) <= Len(w) - n
      BY <2>1, <2>6, <2>7, HiddenAreCounted
    <2> QED
      BY <2>5, <2>8 DEF NothingHidden, F, A, C
  <1>2. Init => Course /\ Reported
    BY CourseInit, ReportedInit
  <1>3. (Course /\ Reported) /\ [Next]_vars => (Course /\ Reported)'
    BY CourseStep, ReportedStep
  <1> QED
    BY <1>1, <1>2, <1>3, PTL DEF Spec

-----------------------------------------------------------------------------
(* Which lines each order has while the file is read *)

NoMentions == ~(\E i \in RowsOf({"product"}) : file[i].mentions)

HeadsTo(p) == {h \in Heads : h < p}

\* The columns a line of the order of h is read with are those of its own table.
OwnColumns(l, h) ==
    \/ ~Taylorman
    \/ /\ l.columns \in RowsOf({"header"}) /\ h < l.columns
       /\ ~Between(l.columns, l.row, {"header"})

\* An order has the products of its head that come before row p, in the order of the file.
Collected(o, h, p) ==
    /\ \A n \in DOMAIN o.lines :
          o.lines[n].row \in Products(h) /\ o.lines[n].row < p /\ OwnColumns(o.lines[n], h)
    /\ \A i \in Products(h) : i < p => \E n \in DOMAIN o.lines : o.lines[n].row = i
    /\ \A m, n \in DOMAIN o.lines : m < n => o.lines[m].row < o.lines[n].row

\* An order is open from its number to the next title, and columns are in use from a
\* header to the next title or number.
Tables(isopen, cols, p) ==
    Taylorman =>
        /\ isopen <=> \E h \in HeadsTo(p) : ~Between(h, p, {"number", "title"})
        /\ cols # 0 => /\ cols \in RowsOf({"header"}) /\ cols < p
                       /\ ~Between(cols, p, {"number", "title"}) /\ ~Between(cols, p, {"header"})
        /\ cols = 0 => \A c \in RowsOf({"header"}) : c < p => Between(c, p, {"number", "title"})

Kept ==
    NoMentions =>
        /\ pc \in {"make", "written", "answered"} => pos > Len(file)
        /\ Len(orders) = Cardinality(HeadsTo(pos))
        /\ \A h \in HeadsTo(pos) : Collected(orders[PlaceOf(h)], h, pos)
        /\ Tables(open, columns, pos)

\* The heads before a row, and the place of each.
LEMMA HeadsAre ==
    ASSUME OrdersType, NEW p \in Nat
    PROVE  /\ HeadsTo(p) \in SUBSET Nat /\ IsFiniteSet(HeadsTo(p))
           /\ Cardinality(HeadsTo(p)) \in Nat
           /\ \A h \in HeadsTo(p) : h \in Heads /\ h < p /\ PlaceOf(h) \in 1 .. Cardinality(HeadsTo(p))
           /\ \A h \in HeadsTo(p) :
                 PlaceOf(h) = Cardinality(HeadsTo(p)) <=> \A g \in HeadsTo(p) : g <= h
           /\ p \notin Heads => HeadsTo(p + 1) = HeadsTo(p)
           /\ p \in Heads => /\ HeadsTo(p + 1) = HeadsTo(p) \cup {p}
                             /\ Cardinality(HeadsTo(p + 1)) = Cardinality(HeadsTo(p)) + 1
                             /\ PlaceOf(p) = Cardinality(HeadsTo(p)) + 1
  <1> DEFINE T == HeadsTo(p)
             Upto(h) == {g \in Heads : g <= h}
  <1>1. Heads \in SUBSET Nat /\ IsFiniteSet(Heads)
    <2>1. Heads \in SUBSET (1 .. Len(file)) /\ IsFiniteSet(Heads) /\ Len(file) \in Nat
      BY FileIs
    <2> QED
      BY <2>1
  <1>2. T \in SUBSET Heads /\ T \in SUBSET Nat /\ \A h \in Heads : h \in T <=> h < p
    BY <1>1 DEF HeadsTo
  <1>3. IsFiniteSet(T)
    BY <1>1, <1>2, FS_Subset
  <1>4. Cardinality(T) \in Nat
    BY <1>3, FS_CardinalityType
  <1>5. \A h : PlaceOf(h) = Cardinality(Upto(h))
    BY DEF PlaceOf
  <1>6. ASSUME NEW h \in T
        PROVE  /\ PlaceOf(h) \in 1 .. Cardinality(T)
               /\ PlaceOf(h) = Cardinality(T) <=> \A g \in T : g <= h
    <2> DEFINE U == Upto(h)
    <2>1. \A g \in Heads : g \in U <=> g <= h
      OBVIOUS
    <2>2. U \in SUBSET T /\ h \in U
      <3>1. h \in Heads /\ h \in Nat /\ h < p /\ \A g \in Heads : g \in Nat
        BY <1>1, <1>2
      <3>2. h <= h /\ \A g \in Heads : g <= h => g < p
        BY <3>1
      <3>3. U \in SUBSET Heads
        OBVIOUS
      <3> HIDE DEF U, T
      <3> QED
        BY <1>2, <2>1, <3>1, <3>2, <3>3
    <2> HIDE DEF U, T
    <2>3. IsFiniteSet(U) /\ Cardinality(U) <= Cardinality(T)
          /\ (Cardinality(T) = Cardinality(U) => T = U)
      BY <1>3, <2>2, FS_Subset
    <2>4. Cardinality(U) \in Nat /\ Cardinality(U) # 0
      BY <2>2, <2>3, FS_CardinalityType, FS_EmptySet
    <2>5. (\A g \in T : g <= h) => T = U
      BY <1>2, <2>1, <2>2
    <2>6. T = U => \A g \in T : g <= h
      BY <1>2, <2>1
    <2>7. PlaceOf(h) = Cardinality(U)
      BY <1>5 DEF U
    <2> QED
      BY <1>4, <2>3, <2>4, <2>5, <2>6, <2>7
  <1>a. \A h \in Heads : (h < p + 1 <=> h < p \/ h = p) /\ (h <= p <=> h < p \/ h = p)
    <2>1. \A h \in Heads : h \in Nat
      BY <1>1
    <2> QED
      BY <2>1
  <1>b. HeadsTo(p + 1) = {h \in Heads : h < p \/ h = p}
    BY <1>a, Zenon DEF HeadsTo
  <1>c. Upto(p) = {h \in Heads : h < p \/ h = p}
    BY <1>a, Zenon
  <1>7. ASSUME p \notin Heads PROVE HeadsTo(p + 1) = HeadsTo(p)
    BY <1>b, <1>7, Zenon DEF HeadsTo
  <1>8. ASSUME p \in Heads
        PROVE  /\ HeadsTo(p + 1) = T \cup {p}
               /\ Cardinality(T \cup {p}) = Cardinality(T) + 1
               /\ PlaceOf(p) = Cardinality(T) + 1
    <2>1. HeadsTo(p + 1) = T \cup {p}
      BY <1>b, <1>8, Zenon DEF HeadsTo
    <2>2. Upto(p) = T \cup {p}
      BY <1>c, <1>8, Zenon DEF HeadsTo
    <2>3. p \notin T
      BY <1>2
    <2> HIDE DEF T
    <2>4. Cardinality(T \cup {p}) = Cardinality(T) + 1
      BY <1>3, <2>3, FS_AddElement
    <2> QED
      BY <1>5, <2>1, <2>2, <2>4
  <1> QED
    BY <1>2, <1>3, <1>4, <1>6, <1>7, <1>8

\* Reading a row that is no product of h leaves the order of h complete.
LEMMA CollectNothing ==
    ASSUME OrdersType, NEW h, NEW o, Collected(o, h, pos), pos \notin Products(h),
           NEW q, q.lines = o.lines
    PROVE  Collected(q, h, pos + 1)
  <1> DEFINE L == o.lines
             P == Products(h)
             D == DOMAIN L
  <1>1. P \in SUBSET Nat /\ pos \in Nat
    <2>1. P \in SUBSET (1 .. Len(file)) /\ Len(file) \in Nat
      BY FileIs
    <2> QED
      BY <2>1 DEF OrdersType
  <1>2. /\ \A n \in D : L[n].row \in P /\ L[n].row < pos /\ OwnColumns(L[n], h)
        /\ \A i \in P : i < pos => \E n \in D : L[n].row = i
        /\ \A m, n \in D : m < n => L[m].row < L[n].row
    BY DEF Collected
  <1> HIDE DEF L, P, D
  <1>3. \A n \in D : L[n].row < pos + 1
    <2> TAKE n \in D
    <2>1. L[n].row \in Nat /\ L[n].row < pos
      BY <1>1, <1>2
    <2> QED
      BY <1>1, <2>1
  <1>4. \A i \in P : i < pos + 1 => \E n \in D : L[n].row = i
    BY <1>1, <1>2 DEF P
  <1> QED
    BY <1>2, <1>3, <1>4 DEF L, P, D, Collected

\* Reading a product of h and putting it at the end of the order of h does too.
LEMMA CollectLine ==
    ASSUME OrdersType, NEW h, NEW o, IsList(o.lines), Collected(o, h, pos),
           pos \in Products(h), NEW l, l.row = pos, OwnColumns(l, h),
           NEW q, q.lines = Append(o.lines, l)
    PROVE  Collected(q, h, pos + 1)
  <1> DEFINE L == o.lines
             M == q.lines
             P == Products(h)
             m == Len(L)
  <1>1. P \in SUBSET Nat /\ pos \in Nat
    <2>1. P \in SUBSET (1 .. Len(file)) /\ Len(file) \in Nat
      BY FileIs
    <2> QED
      BY <2>1 DEF OrdersType
  <1>2. m \in Nat /\ DOMAIN L = 1 .. m
    BY ListIs
  <1>3. /\ \A n \in 1 .. m : L[n].row \in P /\ L[n].row < pos /\ OwnColumns(L[n], h)
        /\ \A i \in P : i < pos => \E n \in 1 .. m : L[n].row = i
        /\ \A a, b \in 1 .. m : a < b => L[a].row < L[b].row
    BY <1>2 DEF Collected
  <1>4. /\ IsList(M) /\ Len(M) = m + 1
        /\ \A n \in 1 .. m : M[n] = L[n]
        /\ M[m + 1] = l
    BY ListGrows
  <1>5. DOMAIN M = 1 .. m + 1
    <2> HIDE DEF M
    <2> QED
      BY <1>4, ListIs
  <1> HIDE DEF L, M, P, m
  <1>6. \A n \in 1 .. m + 1 : n \in 1 .. m \/ n = m + 1
    BY <1>2
  <1>7. \A n \in 1 .. m + 1 : M[n].row \in P /\ M[n].row < pos + 1 /\ OwnColumns(M[n], h)
    <2> TAKE n \in 1 .. m + 1
    <2>1. CASE n \in 1 .. m
      <3>1. M[n] = L[n] /\ L[n].row \in P /\ L[n].row < pos /\ OwnColumns(L[n], h)
        BY <1>3, <1>4, <2>1
      <3>2. L[n].row \in Nat
        BY <1>1, <3>1
      <3> QED
        BY <1>1, <3>1, <3>2
    <2>2. CASE n = m + 1
      BY <1>1, <1>4, <2>2 DEF P
    <2> QED
      BY <1>6, <2>1, <2>2
  <1>8. \A i \in P : i < pos + 1 => \E n \in 1 .. m + 1 : M[n].row = i
    <2> SUFFICES ASSUME NEW i \in P, i < pos + 1 PROVE \E n \in 1 .. m + 1 : M[n].row = i
      OBVIOUS
    <2>1. CASE i < pos
      <3>1. PICK n \in 1 .. m : L[n].row = i
        BY <1>3, <2>1
      <3>2. n \in 1 .. m + 1 /\ M[n].row = i
        BY <1>2, <1>4, <3>1
      <3> QED
        BY <3>2
    <2>2. CASE i = pos
      <3>1. m + 1 \in 1 .. m + 1 /\ M[m + 1].row = i
        BY <1>2, <1>4, <2>2
      <3> QED
        BY <3>1
    <2> QED
      BY <1>1, <2>1, <2>2
  <1>9. \A a, b \in 1 .. m + 1 : a < b => M[a].row < M[b].row
    <2> SUFFICES ASSUME NEW a \in 1 .. m + 1, NEW b \in 1 .. m + 1, a < b
                 PROVE  M[a].row < M[b].row
      OBVIOUS
    <2>1. a \in 1 .. m
      BY <1>2
    <2>2. CASE b \in 1 .. m
      BY <1>3, <1>4, <2>1, <2>2
    <2>3. CASE b = m + 1
      BY <1>3, <1>4, <2>1, <2>3
    <2> QED
      BY <1>6, <2>2, <2>3
  <1> QED
    BY <1>5, <1>7, <1>8, <1>9 DEF M, P, Collected

\* A new order has nothing yet.
LEMMA CollectedNone ==
    ASSUME OrdersType, NEW q, q.lines = <<>>, pos \in Heads
    PROVE  Collected(q, pos, pos)
  <1>1. DOMAIN q.lines = {}
    <2>1. IsList(<<>>) /\ Len(<<>>) = 0
      BY EmptySeq, SequenceIsList
    <2>2. DOMAIN <<>> = 1 .. 0
      BY <2>1, ListIs
    <2> QED
      BY <2>2
  <1>2. pos \in Nat /\ Products(pos) \in SUBSET Nat
    <2>1. Products(pos) \in SUBSET (1 .. Len(file)) /\ Len(file) \in Nat
      BY FileIs
    <2> QED
      BY <2>1 DEF OrdersType
  <1>3. \A i \in Products(pos) : ~(i < pos)
    BY <1>2 DEF Products
  <1> QED
    BY <1>1, <1>3 DEF Collected

Ends == {"number", "title"}

\* What is between a row and the next one to read.
LEMMA BetweenGrows ==
    ASSUME OrdersType, pos <= Len(file), NEW h \in Nat, NEW K
    PROVE  /\ h < pos => (Between(h, pos + 1, K) <=> Between(h, pos, K) \/ Row.kind \in K)
           /\ ~(h < pos) => ~Between(h, pos + 1, K)
  <1> DEFINE R == RowsOf(K)
  <1>1. R \in SUBSET Nat /\ pos \in Nat
    BY FileIs, RowIs
  <1>2. pos \in R <=> Row.kind \in K
    BY RowIs
  <1>3. \A j : Between(h, j, K) <=> \E k \in R : h < k /\ k < j
    BY DEF Between
  <1> HIDE DEF R
  <1>4. \A k \in R : k < pos + 1 <=> k < pos \/ k = pos
    BY <1>1
  <1>5. h < pos => (Between(h, pos + 1, K) <=> Between(h, pos, K) \/ pos \in R)
    BY <1>3, <1>4
  <1>6. ASSUME ~(h < pos) PROVE ~Between(h, pos + 1, K)
    BY <1>1, <1>3, <1>6
  <1> QED
    BY <1>2, <1>5, <1>6

\* Which rows open an order, in either format.
LEMMA HeadsRead ==
    ASSUME OrdersType, pos <= Len(file)
    PROVE  /\ Taylorman => (pos \in Heads <=> Row.kind = "number")
           /\ ~Taylorman => (pos \in Heads <=> Row.kind = "line" /\ Row.client # <<>>)
  <1>1. /\ pos \in RowsOf({"number"}) <=> Row.kind = "number"
        /\ pos \in RowsOf({"line"}) <=> Row.kind = "line"
    BY RowIs
  <1> QED
    BY <1>1 DEF Heads, Row

\* What each kind of row does to the open order and to the columns in use.
LEMMA TablesStep ==
    ASSUME OrdersType, pos <= Len(file), Tables(open, columns, pos), NEW isopen, NEW cols,
           Taylorman => \/ Row.kind = "title" /\ ~isopen /\ cols = 0
                        \/ Row.kind = "number" /\ isopen /\ cols = 0
                        \/ Row.kind = "header" /\ (isopen <=> open) /\ cols = pos
                        \/ /\ Row.kind \notin {"title", "number", "header"}
                           /\ (isopen <=> open) /\ cols = columns
    PROVE  Tables(isopen, cols, pos + 1)
  <1> SUFFICES ASSUME Taylorman
               PROVE  /\ isopen <=> \E h \in HeadsTo(pos + 1) : ~Between(h, pos + 1, Ends)
                      /\ cols # 0 => /\ cols \in RowsOf({"header"}) /\ cols < pos + 1
                                     /\ ~Between(cols, pos + 1, Ends)
                                     /\ ~Between(cols, pos + 1, {"header"})
                      /\ cols = 0 => \A c \in RowsOf({"header"}) :
                                        c < pos + 1 => Between(c, pos + 1, Ends)
    BY DEF Tables, Ends
  <1> DEFINE ends == Row.kind \in Ends
             head == Row.kind = "header"
             H    == RowsOf({"header"})
             B(h) == Between(h, pos, Ends)
             C(h) == Between(h, pos + 1, Ends)
  <1>1. /\ open <=> \E h \in HeadsTo(pos) : ~B(h)
        /\ columns # 0 => /\ columns \in H /\ columns < pos
                          /\ ~B(columns) /\ ~Between(columns, pos, {"header"})
        /\ columns = 0 => \A c \in H : c < pos => B(c)
    BY DEF Tables, Ends
  <1>2. pos \in Nat /\ H \in SUBSET Nat /\ (pos \in H <=> head)
    BY FileIs, RowIs
  <1>3. \A h \in Nat : /\ h < pos => (C(h) <=> B(h) \/ ends)
                       /\ ~(h < pos) => ~C(h)
    BY BetweenGrows
  <1>4. \A h \in Nat : /\ h < pos => (Between(h, pos + 1, {"header"})
                                        <=> Between(h, pos, {"header"}) \/ head)
                       /\ ~(h < pos) => ~Between(h, pos + 1, {"header"})
    BY BetweenGrows
  <1>5. pos \in Heads <=> Row.kind = "number"
    BY HeadsRead
  <1>6. /\ \A h \in HeadsTo(pos) : h \in Nat /\ h < pos
        /\ pos \notin Heads => HeadsTo(pos + 1) = HeadsTo(pos)
        /\ pos \in Heads => pos \in HeadsTo(pos + 1)
    BY <1>2, HeadsAre
  <1>7. ~(pos < pos) /\ pos < pos + 1 /\ \A c \in H : c < pos + 1 <=> c < pos \/ c = pos
    BY <1>2
  <1>8. CASE Row.kind = "title" /\ ~isopen /\ cols = 0
    <2>1. ends /\ ~head /\ pos \notin Heads
      BY <1>5, <1>8 DEF Ends
    <2> HIDE DEF ends, head, B, C, H
    <2>2. \A h \in HeadsTo(pos + 1) : C(h)
      BY <1>3, <1>6, <2>1
    <2>3. \A c \in H : c < pos + 1 => C(c)
      BY <1>2, <1>3, <1>7, <2>1
    <2> QED
      BY <1>8, <2>2, <2>3 DEF C, H
  <1>9. CASE Row.kind = "number" /\ isopen /\ cols = 0
    <2>1. ends /\ ~head /\ pos \in Heads
      BY <1>5, <1>9 DEF Ends
    <2> HIDE DEF ends, head, B, C, H
    <2>2. pos \in HeadsTo(pos + 1) /\ ~C(pos)
      BY <1>2, <1>3, <1>6, <1>7, <2>1
    <2>3. \A c \in H : c < pos + 1 => C(c)
      BY <1>2, <1>3, <1>7, <2>1
    <2> QED
      BY <1>9, <2>2, <2>3 DEF C, H
  <1>10. CASE Row.kind = "header" /\ (isopen <=> open) /\ cols = pos
    <2>1. ~ends /\ head /\ pos \notin Heads
      BY <1>5, <1>10 DEF Ends
    <2>2. pos # 0
      BY DEF OrdersType
    <2> HIDE DEF ends, head, B, C, H
    <2>3. isopen <=> \E h \in HeadsTo(pos + 1) : ~C(h)
      BY <1>1, <1>3, <1>6, <1>10, <2>1
    <2>4. pos \in H /\ ~C(pos) /\ ~Between(pos, pos + 1, {"header"})
      BY <1>2, <1>3, <1>4, <1>7, <2>1
    <2> QED
      BY <1>7, <1>10, <2>2, <2>3, <2>4 DEF C, H
  <1>11. CASE Row.kind \notin {"title", "number", "header"} /\ (isopen <=> open) /\ cols = columns
    <2>1. ~ends /\ ~head /\ pos \notin Heads
      BY <1>5, <1>11 DEF Ends
    <2> HIDE DEF ends, head, B, C, H
    <2>2. isopen <=> \E h \in HeadsTo(pos + 1) : ~C(h)
      BY <1>1, <1>3, <1>6, <1>11, <2>1
    <2>3. cols # 0 => /\ cols \in H /\ cols < pos + 1 /\ ~C(cols)
                      /\ ~Between(cols, pos + 1, {"header"})
      BY <1>1, <1>2, <1>3, <1>4, <1>7, <1>11, <2>1
    <2>4. cols = 0 => \A c \in H : c < pos + 1 => C(c)
      BY <1>1, <1>2, <1>3, <1>7, <1>11, <2>1
    <2> QED
      BY <2>2, <2>3, <2>4 DEF C, H
  <1> QED
    BY <1>8, <1>9, <1>10, <1>11

\* The product the Taylorman reader is at belongs to the last head, if its order is open
\* and a header has been read since; then its columns are those of its table.
LEMMA ProductBelongs ==
    ASSUME OrdersType, pos <= Len(file), Tables(open, columns, pos), Taylorman,
           NEW h \in HeadsTo(pos)
    PROVE  /\ pos \in Products(h) <=>
                /\ Row.kind = "product" /\ Row.ref.text /\ open /\ columns # 0
                /\ \A g \in HeadsTo(pos) : g <= h
           /\ pos \in Products(h) => OwnColumns(Line(columns), h)
  <1> DEFINE H    == RowsOf({"header"})
             E    == RowsOf(Ends)
             B(x) == \E k \in E : x < k /\ k < pos
             good == Row.kind = "product" /\ Row.ref.text
             last == \A g \in HeadsTo(pos) : g <= h
  <1>1. /\ pos \in Nat /\ H \in SUBSET Nat /\ E \in SUBSET Nat
        /\ h \in Nat /\ h < pos /\ \A g \in HeadsTo(pos) : g \in Nat /\ g < pos /\ g \in E
        /\ \A g \in E : g \notin H
    <2>1. pos \in Nat /\ H \in SUBSET Nat /\ E \in SUBSET Nat
      BY FileIs, RowIs
    <2>2. \A g \in HeadsTo(pos) : g \in Nat /\ g < pos /\ g \in RowsOf({"number"})
      BY <2>1, HeadsAre DEF Heads
    <2>3. \A g \in RowsOf({"number"}) : g \in E
      BY DEF RowsOf, Ends
    <2>4. \A g \in E : g \notin H
      BY DEF RowsOf, Ends
    <2> QED
      BY <2>1, <2>2, <2>3, <2>4
  <1>2. /\ open <=> \E g \in HeadsTo(pos) : ~B(g)
        /\ columns # 0 => /\ columns \in H /\ columns < pos
                          /\ ~B(columns) /\ ~\E k \in H : columns < k /\ k < pos
        /\ columns = 0 => \A c \in H : c < pos => B(c)
    BY DEF Tables, Ends, Between
  <1>3. pos \in Products(h) <=> good /\ ~B(h) /\ \E k \in H : h < k /\ k < pos
    <2>1. pos \in RowsOf({"product"}) <=> Row.kind = "product"
      BY RowIs
    <2> QED
      BY <1>1, <2>1 DEF Products, Between, Ends, Row
  <1>4. OwnColumns(Line(columns), h) <=>
          columns \in H /\ h < columns /\ ~\E k \in H : columns < k /\ k < pos
    BY DEF OwnColumns, Line, Between
  <1> HIDE DEF good, H, E
  <1>5. ASSUME pos \in Products(h)
        PROVE  good /\ open /\ columns # 0 /\ last /\ OwnColumns(Line(columns), h)
    <2>1. good /\ ~B(h)
      BY <1>3, <1>5
    <2>2. open
      BY <1>2, <2>1
    <2>3. last
      <3> SUFFICES ASSUME NEW g \in HeadsTo(pos), ~(g <= h) PROVE FALSE
        OBVIOUS
      <3>1. g \in E /\ h < g /\ g < pos
        BY <1>1
      <3> QED
        BY <2>1, <3>1
    <2>4. PICK c \in H : h < c /\ c < pos
      BY <1>3, <1>5
    <2>5. ~B(c)
      <3> SUFFICES ASSUME NEW k \in E, c < k, k < pos PROVE FALSE
        OBVIOUS
      <3>1. h < k
        BY <1>1, <2>4
      <3> QED
        BY <2>1, <3>1
    <2>6. columns # 0
      BY <1>2, <2>4, <2>5
    <2>7. h < columns
      <3> SUFFICES ASSUME ~(h < columns) PROVE FALSE
        OBVIOUS
      <3>1. columns \in Nat /\ c \in Nat /\ columns \in H /\ h \in Nat
        BY <1>1, <1>2, <2>6
      <3>2. columns < c
        BY <2>4, <3>1
      <3> QED
        BY <1>2, <2>4, <2>6, <3>2
    <2> QED
      BY <1>2, <1>4, <2>1, <2>2, <2>3, <2>6, <2>7
  <1>6. ASSUME good, open, columns # 0, last
        PROVE  pos \in Products(h)
    <2>1. PICK g \in HeadsTo(pos) : ~B(g)
      BY <1>2, <1>6
    <2>2. g = h
      <3> SUFFICES ASSUME g # h PROVE FALSE
        OBVIOUS
      <3>1. g < h
        BY <1>1, <1>6
      <3>2. h \in E
        BY <1>1
      <3> QED
        BY <1>1, <2>1, <3>1, <3>2
    <2>3. columns \in H /\ columns < pos /\ ~B(columns) /\ columns \in Nat
      BY <1>1, <1>2, <1>6
    <2>4. h < columns
      <3>1. h \in E /\ h # columns
        BY <1>1, <2>3
      <3>2. ~(columns < h)
        BY <1>1, <2>3, <3>1
      <3> QED
        BY <1>1, <2>3, <3>1, <3>2
    <2> QED
      BY <1>3, <1>6, <2>1, <2>2, <2>3, <2>4
  <1> QED
    BY <1>5, <1>6 DEF good

\* The line the table reader is at belongs to the last head, or is one.
LEMMA LineBelongs ==
    ASSUME OrdersType, pos <= Len(file), ~Taylorman
    PROVE  /\ \A h \in HeadsTo(pos) :
                 pos \in Products(h) <=>
                   /\ Row.kind = "line" /\ Row.ref.text /\ pos \notin Heads
                   /\ \A g \in HeadsTo(pos) : g <= h
           /\ pos \in Heads => (pos \in Products(pos) <=> Row.ref.text)
  <1>1. pos \in Nat /\ Heads \in SUBSET Nat
    <2>1. Heads \in SUBSET (1 .. Len(file)) /\ Len(file) \in Nat
      BY FileIs
    <2> QED
      BY <2>1, RowIs
  <1>2. \A h : pos \in Products(h) <=>
                 /\ Row.kind = "line" /\ h <= pos /\ Row.ref.text
                 /\ ~\E g \in Heads : h < g /\ g <= pos
    <2>1. pos \in RowsOf({"line"}) <=> Row.kind = "line"
      BY RowIs
    <2> QED
      BY <2>1 DEF Products, Row
  <1>3. ASSUME NEW h \in HeadsTo(pos)
        PROVE  (~\E g \in Heads : h < g /\ g <= pos) <=>
                  pos \notin Heads /\ \A g \in HeadsTo(pos) : g <= h
    <2>1. h \in Nat /\ h < pos /\ \A g \in HeadsTo(pos) : g \in Heads /\ g < pos /\ g \in Nat
      BY <1>1, HeadsAre
    <2>2. \A g \in Heads : g < pos => g \in HeadsTo(pos)
      BY DEF HeadsTo
    <2>3. ASSUME NEW g \in Heads, h < g, g <= pos, pos \notin Heads
          PROVE  g \in HeadsTo(pos) /\ ~(g <= h)
      BY <1>1, <2>1, <2>2, <2>3
    <2>4. ASSUME NEW g \in HeadsTo(pos), ~(g <= h)
          PROVE  g \in Heads /\ h < g /\ g <= pos
      BY <1>1, <2>1, <2>4
    <2>5. ASSUME pos \in Heads PROVE \E g \in Heads : h < g /\ g <= pos
      BY <1>1, <2>1, <2>5
    <2> QED
      BY <2>3, <2>4, <2>5
  <1>4. \A h \in HeadsTo(pos) : h <= pos
    <2>1. \A h \in HeadsTo(pos) : h < pos /\ h \in Nat
      BY <1>1, HeadsAre
    <2> QED
      BY <1>1, <2>1
  <1>5. ~\E g \in Heads : pos < g /\ g <= pos
    BY <1>1
  <1>6. pos \in Heads => Row.kind = "line" /\ pos <= pos
    BY <1>1, HeadsRead
  <1> QED
    BY <1>2, <1>3, <1>4, <1>5, <1>6

\* The last order changed.
LEMMA ChangesIs ==
    ASSUME OrdersType, NEW o, Changes(o)
    PROVE  /\ Len(orders) \in 1 .. Len(orders) /\ Len(orders') = Len(orders)
           /\ \A i \in 1 .. Len(orders) : orders'[i] = IF i = Len(orders) THEN o ELSE orders[i]
  <1> DEFINE n == Len(orders)
  <1>1. n \in 1 .. Len(orders) /\ IsList(orders) /\ orders' = [orders EXCEPT ![n] = o]
    BY LastOneIs DEF Changes, OrdersType
  <1> HIDE DEF n
  <1>2. /\ Len([orders EXCEPT ![n] = o]) = Len(orders)
        /\ \A i \in 1 .. Len(orders) : [orders EXCEPT ![n] = o][i] = IF i = n THEN o ELSE orders[i]
    BY <1>1, ListChanges
  <1> QED
    BY <1>1, <1>2, Zenon DEF n

\* Every order has the products of its head up to the row that is read next.
Complete == /\ Len(orders) = Cardinality(HeadsTo(pos))
            /\ \A h \in HeadsTo(pos) : Collected(orders[PlaceOf(h)], h, pos)

CompleteNext == /\ Len(orders') = Cardinality(HeadsTo(pos + 1))
                /\ \A h \in HeadsTo(pos + 1) : Collected(orders'[PlaceOf(h)], h, pos + 1)

\* The row is nobody's product and no line is added.
LEMMA NothingAdded ==
    ASSUME OrdersType, Complete, pos \notin Heads, \A h \in HeadsTo(pos) : pos \notin Products(h),
           orders' = orders \/ \E o : Changes(o) /\ o.lines = LastOne.lines
    PROVE  CompleteNext
  <1>1. pos \in Nat
    BY DEF OrdersType
  <1>2. /\ HeadsTo(pos + 1) = HeadsTo(pos)
        /\ \A h \in HeadsTo(pos) : PlaceOf(h) \in 1 .. Len(orders)
    BY <1>1, HeadsAre DEF Complete
  <1>3. /\ Len(orders') = Len(orders)
        /\ \A i \in 1 .. Len(orders) : orders'[i].lines = orders[i].lines
    <2>1. CASE orders' = orders
      BY <2>1
    <2>2. ASSUME NEW o, Changes(o), o.lines = LastOne.lines
          PROVE  /\ Len(orders') = Len(orders)
                 /\ \A i \in 1 .. Len(orders) : orders'[i].lines = orders[i].lines
      BY <2>2, ChangesIs DEF LastOne
    <2> QED
      BY <2>1, <2>2
  <1>4. ASSUME NEW h \in HeadsTo(pos) PROVE Collected(orders'[PlaceOf(h)], h, pos + 1)
    <2>1. orders'[PlaceOf(h)].lines = orders[PlaceOf(h)].lines
      BY <1>2, <1>3
    <2> QED
      BY <2>1, CollectNothing DEF Complete
  <1> QED
    BY <1>2, <1>3, <1>4 DEF Complete, CompleteNext

\* The row is a product of the last head, and its line is added to the last order.
LEMMA LineAdded ==
    ASSUME OrdersType, Complete, pos \notin Heads, NEW c, Changes(WithLine(LastOne, c)),
           \A h \in HeadsTo(pos) :
              IF \A g \in HeadsTo(pos) : g <= h THEN pos \in Products(h) /\ OwnColumns(Line(c), h)
              ELSE pos \notin Products(h)
    PROVE  CompleteNext
  <1> DEFINE x == WithLine(LastOne, c)
             n == Len(orders)
  <1>1. pos \in Nat
    BY DEF OrdersType
  <1>2. /\ HeadsTo(pos + 1) = HeadsTo(pos)
        /\ \A h \in HeadsTo(pos) : PlaceOf(h) \in 1 .. n
        /\ \A h \in HeadsTo(pos) : PlaceOf(h) = n <=> \A g \in HeadsTo(pos) : g <= h
    BY <1>1, HeadsAre DEF Complete
  <1>3. /\ Len(orders') = n /\ n \in 1 .. n
        /\ \A i \in 1 .. n : orders'[i] = IF i = n THEN x ELSE orders[i]
    BY ChangesIs
  <1>4. IsOrder(LastOne) /\ x.lines = Append(LastOne.lines, Line(c))
    BY LastOneIs, OrderChanges DEF Changes
  <1> HIDE DEF x, n
  <1>5. ASSUME NEW h \in HeadsTo(pos) PROVE Collected(orders'[PlaceOf(h)], h, pos + 1)
    <2>1. Collected(orders[PlaceOf(h)], h, pos)
      BY DEF Complete
    <2>2. CASE PlaceOf(h) = n
      <3>1. pos \in Products(h) /\ OwnColumns(Line(c), h)
        BY <1>2, <2>2
      <3>2. orders'[PlaceOf(h)] = x /\ orders[PlaceOf(h)] = LastOne
        BY <1>3, <2>2 DEF LastOne, n
      <3>3. IsList(LastOne.lines)
        BY <1>4 DEF IsOrder
      <3>4. Line(c).row = pos
        BY DEF Line
      <3>5. Collected(x, h, pos + 1)
        BY <1>4, <2>1, <3>1, <3>2, <3>3, <3>4, CollectLine
      <3> QED
        BY <3>2, <3>5
    <2>3. CASE PlaceOf(h) # n
      <3>1. pos \notin Products(h)
        BY <1>2, <2>3
      <3>2. orders'[PlaceOf(h)] = orders[PlaceOf(h)]
        BY <1>2, <1>3, <2>3
      <3> QED
        BY <2>1, <3>1, <3>2, CollectNothing
    <2> QED
      BY <2>2, <2>3
  <1> QED
    BY <1>2, <1>3, <1>5 DEF Complete, CompleteNext, n

\* The row opens an order.
LEMMA OrderAdded ==
    ASSUME OrdersType, Complete, pos \in Heads, \A h \in HeadsTo(pos) : pos \notin Products(h),
           NEW o, Opens(o), Collected(o, pos, pos + 1)
    PROVE  CompleteNext
  <1> DEFINE n == Len(orders)
  <1>1. pos \in Nat /\ n \in Nat
    BY ListIs DEF OrdersType
  <1>2. /\ HeadsTo(pos + 1) = HeadsTo(pos) \cup {pos}
        /\ Cardinality(HeadsTo(pos + 1)) = n + 1 /\ PlaceOf(pos) = n + 1
        /\ \A h \in HeadsTo(pos) : PlaceOf(h) \in 1 .. n
    BY <1>1, HeadsAre DEF Complete
  <1>3. /\ Len(orders') = n + 1 /\ orders'[n + 1] = o
        /\ \A i \in 1 .. n : orders'[i] = orders[i]
    BY ListGrows DEF OrdersType, Opens
  <1> HIDE DEF n
  <1>4. ASSUME NEW h \in HeadsTo(pos + 1) PROVE Collected(orders'[PlaceOf(h)], h, pos + 1)
    <2>1. CASE h = pos
      BY <1>2, <1>3, <2>1
    <2>2. CASE h \in HeadsTo(pos)
      <3>1. orders'[PlaceOf(h)] = orders[PlaceOf(h)] /\ pos \notin Products(h)
        BY <1>2, <1>3, <2>2
      <3> QED
        BY <2>2, <3>1, CollectNothing DEF Complete
    <2> QED
      BY <1>2, <2>1, <2>2
  <1> QED
    BY <1>2, <1>3, <1>4 DEF CompleteNext

\* All this depends on the file alone, so it may be said of the state after a step.
LEMMA KeptGlue ==
    ASSUME file' = file,
           NoMentions =>
             /\ pc' \in {"make", "written", "answered"} => pos' > Len(file)
             /\ Len(orders') = Cardinality(HeadsTo(pos'))
             /\ \A h \in HeadsTo(pos') : Collected(orders'[PlaceOf(h)], h, pos')
             /\ Tables(open', columns', pos')
    PROVE  Kept'
  <1>1. (Taylorman' <=> Taylorman) /\ (NoMentions' <=> NoMentions)
    BY DEF Taylorman, NoMentions, RowsOf
  <1>2. \A K : RowsOf(K)' = RowsOf(K)
    BY DEF RowsOf
  <1>3. \A i, j, K : Between(i, j, K)' <=> Between(i, j, K)
    BY <1>2 DEF Between
  <1>4. Heads' = Heads
    BY <1>1, <1>2 DEF Heads
  <1>5. \A p : HeadsTo(p)' = HeadsTo(p)
    BY <1>4 DEF HeadsTo
  <1>6. \A h : PlaceOf(h)' = PlaceOf(h)
    BY <1>4 DEF PlaceOf
  <1>7. \A h : Products(h)' = Products(h)
    BY <1>1, <1>2, <1>3, <1>4 DEF Products
  <1>8. \A l, h : OwnColumns(l, h)' <=> OwnColumns(l, h)
    BY <1>1, <1>2, <1>3 DEF OwnColumns
  <1>9. \A o, h, p : Collected(o, h, p)' <=> Collected(o, h, p)
    BY <1>7, <1>8 DEF Collected
  <1>10. \A a, c, p : Tables(a, c, p)' <=> Tables(a, c, p)
    BY <1>1, <1>2, <1>3, <1>5 DEF Tables
  <1> QED
    BY <1>1, <1>5, <1>6, <1>9, <1>10 DEF Kept

\* At the start no row is read.
LEMMA KeptInit == Init => Kept
  <1> SUFFICES ASSUME Init PROVE Kept
    OBVIOUS
  <1>1. OrdersType /\ pos = 1 /\ orders = <<>> /\ open = FALSE /\ columns = 0 /\ pc = "read"
    BY CourseInit DEF Init, Course
  <1>2. HeadsTo(1) = {}
    BY <1>1, FileIs DEF HeadsTo
  <1>3. Cardinality({}) = 0 /\ Len(<<>>) = 0
    BY FS_EmptySet, EmptySeq
  <1>4. \A c \in RowsOf({"header"}) : ~(c < 1)
    BY <1>1, FileIs
  <1> QED
    BY <1>1, <1>2, <1>3, <1>4 DEF Kept, Tables

\* The steps that read a row of the Taylorman format.
LEMMA BlockKept ==
    ASSUME OrdersType, Complete, Tables(open, columns, pos), NoMentions,
           ReadTitle \/ SkipAmount \/ ReadNumber \/ ReadClient \/ ReadAddress \/ ReadHeader
             \/ ReadProduct
    PROVE  pos' = pos + 1 /\ CompleteNext /\ Tables(open', columns', pos + 1)
  <1>1. /\ pos <= Len(file) /\ Taylorman /\ pos' = pos + 1
        /\ \A kind : Reads(kind) => Row.kind = kind
    BY BlockStepIs DEF ReadTitle, SkipAmount, ReadNumber, ReadClient, ReadAddress, ReadHeader,
                       ReadProduct
  <1>2. pos \in Heads <=> Row.kind = "number"
    BY <1>1, HeadsRead
  <1>3. \A h \in HeadsTo(pos) :
          /\ pos \in Products(h) <=>
               /\ Row.kind = "product" /\ Row.ref.text /\ open /\ columns # 0
               /\ \A g \in HeadsTo(pos) : g <= h
          /\ pos \in Products(h) => OwnColumns(Line(columns), h)
    BY <1>1, ProductBelongs
  <1>4. CASE ReadTitle
    <2>1. Row.kind = "title" /\ orders' = orders /\ ~open' /\ columns' = 0
      BY <1>1, <1>4 DEF ReadTitle
    <2>2. CompleteNext
      BY <1>2, <1>3, <2>1, NothingAdded
    <2> QED
      BY <1>1, <2>1, <2>2, TablesStep
  <1>5. CASE SkipAmount
    <2>1. Row.kind = "amount" /\ orders' = orders /\ open' = open /\ columns' = columns
      BY <1>1, <1>5 DEF SkipAmount
    <2>2. CompleteNext
      BY <1>2, <1>3, <2>1, NothingAdded
    <2> QED
      BY <1>1, <2>1, <2>2, TablesStep
  <1>6. CASE ReadHeader
    <2>1. Row.kind = "header" /\ orders' = orders /\ open' = open /\ columns' = pos
      BY <1>1, <1>6 DEF ReadHeader
    <2>2. CompleteNext
      BY <1>2, <1>3, <2>1, NothingAdded
    <2> QED
      BY <1>1, <2>1, <2>2, TablesStep
  <1>7. CASE ReadNumber
    <2> DEFINE new == NewOrder(<<>>, NoAddress)
    <2>1. Row.kind = "number" /\ Opens(new) /\ open' = TRUE /\ columns' = 0
      BY <1>1, <1>7 DEF ReadNumber, Opens
    <2>2. new.lines = <<>>
      BY NewOrderIs DEF Names
    <2> HIDE DEF new
    <2>3. pos \in Heads /\ pos \notin Products(pos)
      <3>1. pos \in RowsOf({"product"}) <=> Row.kind = "product"
        BY <1>1, RowIs
      <3> QED
        BY <1>1, <1>2, <2>1, <3>1 DEF Products
    <2>4. Collected(new, pos, pos + 1)
      BY <2>2, <2>3, CollectedNone, CollectNothing
    <2>5. CompleteNext
      BY <1>3, <2>1, <2>3, <2>4, OrderAdded
    <2> QED
      BY <1>1, <2>1, <2>5, TablesStep
  <1>8. CASE ReadClient
    <2>1. /\ Row.kind = "client" /\ open' = open /\ columns' = columns
          /\ \/ orders' = orders
             \/ open /\ Changes(Renamed(LastOne, Row.client))
      BY <1>1, <1>8, BlockStepIs DEF ReadClient
    <2>2. open => Renamed(LastOne, Row.client).lines = LastOne.lines
      BY <1>1, <2>1, RowIs, LastOneIs, OrderChanges DEF OrdersType
    <2>3. CompleteNext
      BY <1>2, <1>3, <2>1, <2>2, NothingAdded
    <2> QED
      BY <1>1, <2>1, <2>3, TablesStep
  <1>9. CASE ReadAddress
    <2>1. /\ Row.kind = "address" /\ open' = open /\ columns' = columns
          /\ \/ orders' = orders
             \/ open /\ Changes(Readdressed(LastOne, Row.address))
      BY <1>1, <1>9, BlockStepIs DEF ReadAddress
    <2>2. open => Readdressed(LastOne, Row.address).lines = LastOne.lines
      BY LastOneIs, OrderChanges DEF OrdersType
    <2>3. CompleteNext
      BY <1>2, <1>3, <2>1, <2>2, NothingAdded
    <2> QED
      BY <1>1, <2>1, <2>3, TablesStep
  <1>10. CASE ReadProduct
    <2>1. Row.kind = "product" /\ ~Row.mentions
      <3>1. Row.kind = "product"
        BY <1>1, <1>10 DEF ReadProduct
      <3>2. pos \in RowsOf({"product"})
        BY <1>1, <3>1, RowIs
      <3> QED
        BY <3>1, <3>2 DEF NoMentions, Row
    <2>2. /\ open' = open /\ columns' = columns
          /\ IF open /\ columns # 0 /\ Row.ref.text
             THEN Changes(WithLine(LastOne, columns)) ELSE orders' = orders
      BY <1>10, <2>1, BlockStepIs
    <2>3. pos \notin Heads
      BY <1>2, <2>1
    <2>4. CASE open /\ columns # 0 /\ Row.ref.text
      <3>1. Changes(WithLine(LastOne, columns))
        BY <2>2, <2>4
      <3>2. \A h \in HeadsTo(pos) :
              IF \A g \in HeadsTo(pos) : g <= h
              THEN pos \in Products(h) /\ OwnColumns(Line(columns), h)
              ELSE pos \notin Products(h)
        BY <1>3, <2>1, <2>4
      <3>3. CompleteNext
        BY <2>3, <3>1, <3>2, LineAdded
      <3> QED
        BY <1>1, <2>1, <2>2, <3>3, TablesStep
    <2>5. CASE ~(open /\ columns # 0 /\ Row.ref.text)
      <3>1. CompleteNext
        BY <1>3, <2>2, <2>3, <2>5, NothingAdded
      <3> QED
        BY <1>1, <2>1, <2>2, <3>1, TablesStep
    <2> QED
      BY <2>4, <2>5
  <1> QED
    BY <1>4, <1>5, <1>6, <1>7, <1>8, <1>9, <1>10

\* The step that reads a row of the table format.
LEMMA LineKept ==
    ASSUME OrdersType, Complete, ReadLine
    PROVE  pos' = pos + 1 /\ CompleteNext /\ Tables(open', columns', pos + 1)
  <1> DEFINE new  == NewOrder(Row.client, Row.address)
             full == WithLine(new, 0)
  <1>1. /\ pos <= Len(file) /\ ~Taylorman /\ pos' = pos + 1
        /\ \/ Row.kind # "line" /\ orders' = orders
           \/ /\ Row.kind = "line" /\ Row.client = <<>>
              /\ IF orders # <<>> /\ Row.ref.text
                 THEN Changes(WithLine(LastOne, 0)) ELSE orders' = orders
           \/ /\ Row.kind = "line" /\ Row.client # <<>>
              /\ IF Row.ref.text THEN Opens(full) ELSE Opens(new)
    BY LineStepIs
  <1>2. pos \in Heads <=> Row.kind = "line" /\ Row.client # <<>>
    BY <1>1, HeadsRead
  <1>3. /\ \A h \in HeadsTo(pos) :
             pos \in Products(h) <=>
               /\ Row.kind = "line" /\ Row.ref.text /\ pos \notin Heads
               /\ \A g \in HeadsTo(pos) : g <= h
        /\ pos \in Heads => (pos \in Products(pos) <=> Row.ref.text)
    BY <1>1, LineBelongs
  <1>4. Tables(open', columns', pos + 1)
    BY <1>1 DEF Tables
  <1>5. \A l, h : OwnColumns(l, h)
    BY <1>1 DEF OwnColumns
  <1>6. CASE Row.kind # "line"
    <2>1. CompleteNext
      BY <1>1, <1>2, <1>3, <1>6, NothingAdded
    <2> QED
      BY <1>1, <1>4, <2>1
  <1>7. CASE Row.kind = "line" /\ Row.client = <<>>
    <2>1. pos \notin Heads
      BY <1>2, <1>7
    <2>2. IF orders # <<>> /\ Row.ref.text
          THEN Changes(WithLine(LastOne, 0)) ELSE orders' = orders
      BY <1>1, <1>7
    <2>3. CASE orders # <<>> /\ Row.ref.text
      <3>1. \A h \in HeadsTo(pos) :
              IF \A g \in HeadsTo(pos) : g <= h
              THEN pos \in Products(h) /\ OwnColumns(Line(0), h)
              ELSE pos \notin Products(h)
        BY <1>3, <1>5, <1>7, <2>1, <2>3
      <3>2. CompleteNext
        BY <2>1, <2>2, <2>3, <3>1, LineAdded
      <3> QED
        BY <1>1, <1>4, <3>2
    <2>4. CASE ~(orders # <<>> /\ Row.ref.text)
      <3>1. \A h \in HeadsTo(pos) : orders # <<>>
        <4> SUFFICES ASSUME NEW h \in HeadsTo(pos), orders = <<>> PROVE FALSE
          OBVIOUS
        <4>1. IsFiniteSet(HeadsTo(pos)) /\ Cardinality(HeadsTo(pos)) = Len(orders)
          BY HeadsAre DEF OrdersType, Complete
        <4>2. Cardinality(HeadsTo(pos)) = 0
          BY <4>1, EmptySeq
        <4> QED
          BY <4>1, <4>2, FS_EmptySet
      <3>2. \A h \in HeadsTo(pos) : pos \notin Products(h)
        BY <1>3, <2>4, <3>1
      <3>3. CompleteNext
        BY <2>1, <2>2, <2>4, <3>2, NothingAdded
      <3> QED
        BY <1>1, <1>4, <3>3
    <2> QED
      BY <2>3, <2>4
  <1>8. CASE Row.kind = "line" /\ Row.client # <<>>
    <2>1. pos \in Heads /\ \A h \in HeadsTo(pos) : pos \notin Products(h)
      BY <1>2, <1>3, <1>8
    <2>2. IF Row.ref.text THEN Opens(full) ELSE Opens(new)
      BY <1>1, <1>8
    <2>3. /\ IsOrder(new) /\ new.lines = <<>> /\ IsList(new.lines)
          /\ full.lines = Append(new.lines, Line(0))
      <3>1. Row.client \in Names
        BY <1>1, <1>8, RowIs
      <3>2. IsOrder(new) /\ new.lines = <<>>
        BY <3>1, NewOrderIs
      <3>3. full.lines = Append(new.lines, Line(0))
        BY <3>2, OrderChanges
      <3> QED
        BY <3>2, <3>3 DEF IsOrder
    <2> HIDE DEF new, full
    <2>4. Collected(new, pos, pos)
      BY <2>1, <2>3, CollectedNone
    <2>5. CASE Row.ref.text
      <3>1. pos \in Products(pos) /\ Line(0).row = pos
        BY <1>3, <2>1, <2>5 DEF Line
      <3>2. Collected(full, pos, pos + 1)
        BY <1>5, <2>3, <2>4, <3>1, CollectLine
      <3>3. CompleteNext
        BY <2>1, <2>2, <2>5, <3>2, OrderAdded
      <3> QED
        BY <1>1, <1>4, <3>3
    <2>6. CASE ~Row.ref.text
      <3>1. pos \notin Products(pos)
        BY <1>3, <2>1, <2>6
      <3>2. Collected(new, pos, pos + 1)
        BY <2>4, <3>1, CollectNothing
      <3>3. CompleteNext
        BY <2>1, <2>2, <2>6, <3>2, OrderAdded
      <3> QED
        BY <1>1, <1>4, <3>3
    <2> QED
      BY <2>5, <2>6
  <1> QED
    BY <1>6, <1>7, <1>8

\* Every step keeps the orders complete.
LEMMA KeptStep == Course /\ Kept /\ [Next]_vars => Kept'
  <1> SUFFICES ASSUME Course, Kept, [Next]_vars PROVE Kept'
    OBVIOUS
  <1>0. OrdersType
    BY DEF Course
  <1>1. CASE ReadTitle \/ SkipAmount \/ ReadNumber \/ ReadClient \/ ReadAddress \/ ReadHeader
               \/ ReadProduct \/ ReadLine
    <2>1. file' = file /\ pc' = "read"
      BY <1>1 DEF Reads, ReadTitle, SkipAmount, ReadNumber, ReadClient, ReadAddress, ReadHeader,
                  ReadProduct, ReadLine
    <2>2. ASSUME NoMentions
          PROVE  pos' = pos + 1 /\ CompleteNext /\ Tables(open', columns', pos + 1)
      <3>1. Complete /\ Tables(open, columns, pos)
        BY <2>2 DEF Kept, Complete
      <3> QED
        BY <1>0, <1>1, <2>2, <3>1, BlockKept, LineKept
    <2> QED
      BY <2>1, <2>2, KeptGlue DEF CompleteNext
  <1>2. CASE EndOfFile
    <2>1. pos > Len(file) /\ UNCHANGED <<file, pos, open, columns, orders>>
      BY <1>2 DEF EndOfFile
    <2> QED
      BY <2>1, KeptGlue DEF Kept
  <1>3. CASE MakeInvoice \/ WriteFile \/ Answer \/ UNCHANGED vars
    <2>1. /\ UNCHANGED <<file, pos, open, columns, orders>>
          /\ \/ pc \in {"make", "written"}
             \/ pc' = pc
      BY <1>3 DEF MakeInvoice, WriteFile, Answer, vars
    <2> QED
      BY <2>1, KeptGlue DEF Kept
  <1> QED
    BY <1>1, <1>2, <1>3 DEF Next, Read

\* The lines of an invoice that are no mention are those of its order.
LEMMA GoodsAre ==
    ASSUME NEW o, IsOrder(o), NEW lines, lines = Invoice(o).lines
    PROVE  /\ {n \in DOMAIN lines : lines[n].mention = ""} = DOMAIN o.lines
           /\ \A n \in DOMAIN o.lines : lines[n].row = o.lines[n].row
  <1> DEFINE m == Len(o.lines)
             goods == {n \in DOMAIN lines : lines[n].mention = ""}
  <1>1. /\ m \in Nat /\ DOMAIN o.lines = 1 .. m
        /\ DOMAIN lines = 1 .. Size(o)
        /\ \A n \in 1 .. m : lines[n] = ArticleLine(o, n)
        /\ HasMention(o) => lines[m + 1] = LastLine(o)
    BY InvoiceLinesAre
  <1>2. Size(o) = IF HasMention(o) THEN m + 1 ELSE m
    BY DEF Size
  <1> HIDE DEF m
  <1>3. \A n \in 1 .. m : lines[n].mention = "" /\ lines[n].row = o.lines[n].row
    <2> TAKE n \in 1 .. m
    <2>1. lines[n] = ArticleLine(o, n)
      BY <1>1
    <2>2. ArticleLine(o, n).mention = "" /\ ArticleLine(o, n).row = o.lines[n].row
      BY ArticleLineSays
    <2> QED
      BY <2>1, <2>2, Zenon
  <1>4. HasMention(o) => lines[m + 1].mention # ""
    BY <1>1, LastLineSays DEF HasMention
  <1>5. /\ \A n \in 1 .. m : n \in 1 .. Size(o)
        /\ \A n \in 1 .. Size(o) : n \in 1 .. m \/ (HasMention(o) /\ n = m + 1)
    <2>1. CASE HasMention(o)
      BY <1>1, <1>2, <2>1
    <2>2. CASE ~HasMention(o)
      BY <1>2, <2>2
    <2> QED
      BY <2>1, <2>2
  <1>6. goods = 1 .. m
    <2>1. \A n : n \in goods <=> n \in 1 .. Size(o) /\ lines[n].mention = ""
      BY <1>1
    <2>2. \A n : n \in goods <=> n \in 1 .. m
      BY <1>3, <1>4, <1>5, <2>1, Zenon
    <2> QED
      BY <2>2
  <1> QED
    BY <1>1, <1>3, <1>6

\* So they are the products of the head, in the order of the file.
LEMMA GoodsAreProducts ==
    ASSUME OrdersType, NEW o, IsOrder(o), NEW h, NEW p, Collected(o, h, p),
           \A i \in Products(h) : i < p,
           NEW lines, NEW goods, goods = DOMAIN o.lines,
           \A n \in goods : lines[n].row = o.lines[n].row
    PROVE  /\ {lines[n].row : n \in goods} = Products(h)
           /\ \A m, n \in goods : m < n => lines[m].row < lines[n].row
           /\ \A l \in ToSet(o.lines) : OwnColumns(l, h)
  <1>1. goods = DOMAIN o.lines /\ \A n \in goods : lines[n].row = o.lines[n].row
    OBVIOUS
  <1>2. /\ \A n \in goods : o.lines[n].row \in Products(h) /\ OwnColumns(o.lines[n], h)
        /\ \A i \in Products(h) : \E n \in goods : o.lines[n].row = i
        /\ \A m, n \in goods : m < n => o.lines[m].row < o.lines[n].row
    BY <1>1 DEF Collected
  <1>3. {lines[n].row : n \in goods} = Products(h)
    <2>1. \A n \in goods : lines[n].row \in Products(h)
      BY <1>1, <1>2
    <2>2. \A i \in Products(h) : \E n \in goods : lines[n].row = i
      BY <1>1, <1>2
    <2> QED
      BY <2>1, <2>2, Zenon
  <1>4. \A m, n \in goods : m < n => lines[m].row < lines[n].row
    BY <1>1, <1>2
  <1>5. \A l \in ToSet(o.lines) : OwnColumns(l, h)
    BY <1>1, <1>2 DEF ToSet
  <1> QED
    BY <1>3, <1>4, <1>5

\* Whatever the files and the exports are, a written invoice file has every product of
\* the order file once, in its order, on the invoice of its own order and read with the
\* columns of its own table: neither reader drops, repeats or moves a line.
THEOREM LinesKeptHolds == Spec => []LinesKept
  <1>1. Course /\ Kept => LinesKept
    <2> SUFFICES ASSUME Course, Kept, Written, NoMentions
                 PROVE  LinesKept
      BY DEF LinesKept, NoMentions
    <2>1. /\ OrdersType /\ IsList(invoices) /\ Len(invoices) = Len(orders)
          /\ \A k \in 1 .. Len(orders) : invoices[k] = Invoice(orders[k]) /\ IsOrder(orders[k])
      BY DEF Course, OrdersType
    <2>2. pos > Len(file) /\ Complete
      BY DEF Kept, Written, Complete
    <2>3. /\ pos \in Nat /\ Len(file) \in Nat /\ Heads \in SUBSET (1 .. Len(file))
          /\ \A h : Products(h) \in SUBSET (1 .. Len(file))
      BY <2>1, FileIs DEF OrdersType
    <2>4. HeadsTo(pos) = Heads
      <3>1. \A h \in Heads : h < pos
        BY <2>2, <2>3
      <3> QED
        BY <3>1, Zenon DEF HeadsTo
    <2>5. Len(invoices) = Cardinality(Heads)
      BY <2>1, <2>2, <2>4 DEF Complete
    <2>6. ASSUME NEW head \in Heads
          PROVE  LET lines == invoices[PlaceOf(head)].lines
                     goods == {n \in DOMAIN lines : lines[n].mention = ""}
                 IN  /\ {lines[n].row : n \in goods} = Products(head)
                     /\ \A m, n \in goods : m < n => lines[m].row < lines[n].row
                     /\ \A l \in ToSet(orders[PlaceOf(head)].lines) : OwnColumns(l, head)
      <3> DEFINE o     == orders[PlaceOf(head)]
                 lines == invoices[PlaceOf(head)].lines
                 goods == {n \in DOMAIN lines : lines[n].mention = ""}
      <3>1. PlaceOf(head) \in 1 .. Len(orders)
        BY <2>1, <2>2, <2>3, <2>4, HeadsAre DEF Complete
      <3>2. IsOrder(o) /\ lines = Invoice(o).lines
        BY <2>1, <3>1
      <3>3. Collected(o, head, pos) /\ \A i \in Products(head) : i < pos
        BY <2>2, <2>3, <2>4 DEF Complete
      <3> HIDE DEF o, lines
      <3>4. goods = DOMAIN o.lines /\ \A n \in goods : lines[n].row = o.lines[n].row
        <4>1. goods = DOMAIN o.lines /\ \A n \in DOMAIN o.lines : lines[n].row = o.lines[n].row
          BY <3>2, GoodsAre, Zenon
        <4> HIDE DEF goods
        <4> QED
          BY <4>1
      <3> HIDE DEF goods
      <3>5. /\ {lines[n].row : n \in goods} = Products(head)
            /\ \A m, n \in goods : m < n => lines[m].row < lines[n].row
            /\ \A l \in ToSet(o.lines) : OwnColumns(l, head)
        BY <2>1, <3>2, <3>3, <3>4, GoodsAreProducts
      <3> QED
        BY <3>5 DEF o, lines, goods
    <2> QED
      BY <2>5, <2>6 DEF LinesKept, OwnColumns
  <1>2. Init => Course /\ Kept
    BY CourseInit, KeptInit
  <1>3. (Course /\ Kept) /\ [Next]_vars => (Course /\ Kept)'
    BY CourseStep, KeptStep
  <1> QED
    BY <1>1, <1>2, <1>3, PTL DEF Spec

=============================================================================
