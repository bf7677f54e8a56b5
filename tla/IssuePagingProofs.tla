--------------------------- MODULE IssuePagingProofs ---------------------------
(***************************************************************************)
(* Whoever reads the list to its end has missed nothing and was shown no   *)
(* more twice than what insertions explain, for every list, page size and  *)
(* number of readers.  What a reader has not seen of the list it began     *)
(* with is not in front of its next page (Ahead); what it has seen and is  *)
(* not in front of it either is there because something was inserted       *)
(* (Repeats).                                                              *)
(***************************************************************************)
EXTENDS IssuePaging, FiniteSetTheorems, TLAPS

Rank(rows, i) == Cardinality(Newer(rows, i))

\* The offset of the page that r asks for next.
Next0(r) == Offset(page[r], PageSize(size[r]))

-----------------------------------------------------------------------------
(***************************************************************************)
(* Ranks in a finite set of issues.                                        *)
(***************************************************************************)
LEMMA RankType ==
  ASSUME NEW rows \in SUBSET Int, IsFiniteSet(rows), NEW i
  PROVE  /\ IsFiniteSet(Newer(rows, i))
         /\ Rank(rows, i) \in Nat
<1>1. Newer(rows, i) \in SUBSET rows
  BY DEF Newer
<1> QED
  BY <1>1, FS_Subset, FS_CardinalityType DEF Rank

\* There are more rows than come before one of them.
LEMMA RankBound ==
  ASSUME NEW rows \in SUBSET Int, IsFiniteSet(rows), NEW i \in rows
  PROVE  Cardinality(rows) > Rank(rows, i)
<1>1. Newer(rows, i) \in SUBSET (rows \ {i})
  BY DEF Newer
<1>2. IsFiniteSet(rows \ {i}) /\ Cardinality(rows \ {i}) = Cardinality(rows) - 1
  BY FS_RemoveElement
<1>3. Rank(rows, i) <= Cardinality(rows \ {i})
  BY <1>1, <1>2, FS_Subset DEF Rank
<1> QED
  BY <1>2, <1>3, RankType, FS_CardinalityType

\* What comes before a later row comes before an earlier one.
LEMMA NewerOrder ==
  ASSUME NEW rows \in SUBSET Int, NEW i \in rows, NEW j \in rows, i < j
  PROVE  /\ Newer(rows, j) \in SUBSET Newer(rows, i)
         /\ j \in Newer(rows, i) /\ j \notin Newer(rows, j)
<1>1. i \in Int /\ j \in Int /\ \A k \in rows : k \in Int
  OBVIOUS
<1>2. ASSUME NEW k \in Newer(rows, j) PROVE k \in Newer(rows, i)
  BY <1>1, <1>2 DEF Newer
<1>3. j \in Newer(rows, i) /\ j \notin Newer(rows, j)
  BY <1>1 DEF Newer
<1> QED
  BY <1>2, <1>3

\* A later row comes after.
LEMMA RankOrder ==
  ASSUME NEW rows \in SUBSET Int, IsFiniteSet(rows), NEW i \in rows, NEW j \in rows, i < j
  PROVE  Rank(rows, j) < Rank(rows, i)
<1>1. Newer(rows, j) \in SUBSET Newer(rows, i) /\ j \in Newer(rows, i) /\ j \notin Newer(rows, j)
  BY NewerOrder
<1>2. IsFiniteSet(Newer(rows, i))
  BY RankType
<1>3. /\ Rank(rows, j) <= Rank(rows, i)
      /\ Rank(rows, i) = Rank(rows, j) => Newer(rows, i) = Newer(rows, j)
  BY <1>1, <1>2, FS_Subset DEF Rank
<1> QED
  BY <1>1, <1>3, RankType

\* A new row moves those that come after it by one.
LEMMA RankMoves ==
  ASSUME NEW rows \in SUBSET Int, IsFiniteSet(rows), NEW k \in Int, k \notin rows, NEW i \in Int
  PROVE  Rank(rows \cup {k}, i) = IF k > i THEN Rank(rows, i) + 1 ELSE Rank(rows, i)
<1>1. CASE k > i
  <2>1. Newer(rows \cup {k}, i) = Newer(rows, i) \cup {k} /\ k \notin Newer(rows, i)
    BY <1>1 DEF Newer
  <2> QED
    BY <1>1, <2>1, RankType, FS_AddElement DEF Rank
<1>2. CASE ~(k > i)
  BY <1>2 DEF Newer, Rank
<1> QED
  BY <1>1, <1>2

LEMMA HasNewest ==
  ASSUME NEW rows \in SUBSET Int, IsFiniteSet(rows), rows # {}
  PROVE  \E j \in rows : \A k \in rows : k <= j
<1> DEFINE R == StrictSubsetOrdering(rows)
           T == {Newer(rows, j) : j \in rows}
<1>1. IsWellFoundedOn(R, SUBSET rows)
  BY FS_StrictSubsetOrderingWellFounded, FS_FiniteSubsetsOfFinite
<1>2. T \subseteq SUBSET rows /\ T # {}
  BY DEF Newer
<1>3. PICK x \in T : \A y \in T : ~(<<y, x>> \in R)
  <2> HIDE DEF R, T
  <2> QED
    BY <1>1, <1>2, WFMin
<1>4. PICK j \in rows : x = Newer(rows, j)
  BY <1>3
<1>5. ASSUME NEW k \in rows, k > j PROVE FALSE
  <2>1. Newer(rows, k) \subseteq Newer(rows, j) /\ k \in Newer(rows, j) /\ k \notin Newer(rows, k)
    BY <1>5, NewerOrder
  <2>2. <<Newer(rows, k), Newer(rows, j)>> \in R
    BY <2>1 DEF StrictSubsetOrdering, Newer
  <2> QED
    BY <1>3, <1>4, <2>2
<1> QED
  BY <1>5

LEMMA HasOldest ==
  ASSUME NEW rows \in SUBSET Int, IsFiniteSet(rows), rows # {}
  PROVE  \E j \in rows : \A k \in rows : j <= k
<1> DEFINE Older(j) == {k \in rows : k < j}
           R == StrictSubsetOrdering(rows)
           T == {Older(j) : j \in rows}
<1>1. IsWellFoundedOn(R, SUBSET rows)
  BY FS_StrictSubsetOrderingWellFounded, FS_FiniteSubsetsOfFinite
<1>2. T \subseteq SUBSET rows /\ T # {}
  OBVIOUS
<1>3. PICK x \in T : \A y \in T : ~(<<y, x>> \in R)
  <2> HIDE DEF R, T
  <2> QED
    BY <1>1, <1>2, WFMin
<1>4. PICK j \in rows : x = Older(j)
  BY <1>3
<1>5. ASSUME NEW k \in rows, k < j PROVE FALSE
  <2>1. Older(k) \subseteq Older(j) /\ k \in Older(j) /\ k \notin Older(k)
    <3>1. j \in Int /\ k \in Int /\ \A l \in rows : l \in Int
      OBVIOUS
    <3>2. ASSUME NEW l \in Older(k) PROVE l \in Older(j)
      BY <1>5, <3>1, <3>2
    <3>3. k \in Older(j) /\ k \notin Older(k)
      BY <1>5, <3>1
    <3> QED
      BY <3>2, <3>3
  <2>2. <<Older(k), Older(j)>> \in R
    BY <2>1 DEF StrictSubsetOrdering
  <2> QED
    BY <1>3, <1>4, <2>2
<1> QED
  BY <1>5

\* Up to any row there is one at every rank.
LEMMA RankTaken ==
  ASSUME NEW rows \in SUBSET Int, IsFiniteSet(rows), NEW o \in Nat,
         NEW i \in rows, Rank(rows, i) >= o
  PROVE  \E j \in rows : Rank(rows, j) = o
<1> DEFINE T == {k \in rows : Rank(rows, k) >= o}
<1>1. T \in SUBSET Int /\ IsFiniteSet(T) /\ T # {}
  BY FS_Subset
<1>2. PICK j \in T : \A k \in T : k <= j
  <2> HIDE DEF T
  <2> QED
    BY <1>1, HasNewest
<1>3. ASSUME Rank(rows, j) > o PROVE FALSE
  <2>1. IsFiniteSet(Newer(rows, j)) /\ Newer(rows, j) \in SUBSET Int
    BY RankType DEF Newer
  <2>2. Newer(rows, j) # {}
    BY <1>3, FS_EmptySet DEF Rank
  <2>3. PICK k \in Newer(rows, j) : \A l \in Newer(rows, j) : k <= l
    BY <2>1, <2>2, HasOldest
  <2>4. k \in rows /\ j < k /\ Newer(rows, k) = Newer(rows, j) \ {k}
    <3>1. j \in Int /\ k \in Int /\ k \in rows /\ j < k /\ \A l \in rows : l \in Int
      BY <2>3 DEF Newer
    <3>2. Newer(rows, k) \in SUBSET Newer(rows, j) /\ k \notin Newer(rows, k)
      BY <3>1, NewerOrder
    <3>3. ASSUME NEW l \in Newer(rows, j), l # k PROVE l \in Newer(rows, k)
      <4>1. k <= l /\ l \in rows
        BY <2>3, <3>3 DEF Newer
      <4> QED
        BY <3>1, <3>3, <4>1 DEF Newer
    <3> QED
      BY <3>1, <3>2, <3>3
  <2>5. Rank(rows, k) = Rank(rows, j) - 1
    <3>1. Cardinality(Newer(rows, j) \ {k}) = Cardinality(Newer(rows, j)) - 1
      BY <2>1, <2>3, FS_RemoveElement
    <3> QED
      BY <2>4, <3>1 DEF Rank
  <2>6. Rank(rows, k) >= o
    BY <1>3, <2>5, RankType
  <2> QED
    BY <1>2, <2>4, <2>6
<1> QED
  BY <1>2, <1>3, RankType

-----------------------------------------------------------------------------
(***************************************************************************)
(* Offsets.                                                                *)
(***************************************************************************)
LEMMA Products ==
  ASSUME NEW a \in Nat, NEW b \in Nat, NEW c \in Nat, NEW d \in Nat, a <= b, c <= d
  PROVE  a * c <= b * d
<1>1. a * c <= b * c
  OBVIOUS
<1>2. b * c <= b * d
  OBVIOUS
<1> QED
  BY <1>1, <1>2

LEMMA Remainder ==
  ASSUME NEW m \in Nat \ {0}, NEW q \in Int, NEW w \in 0 .. (m - 1)
  PROVE  (m * q + w) % m = w
<1> DEFINE x == m * q + w
           v == x % m
           p == x \div m
<1>1. x \in Int /\ v \in 0 .. (m - 1) /\ p \in Int /\ x = m * p + v
  OBVIOUS
<1>2. m * (p - q) = w - v
  BY <1>1
<1>3. ASSUME p - q >= 1 PROVE FALSE
  <2>1. m * (p - q) >= m
    BY <1>1, <1>3
  <2> QED
    BY <1>1, <1>2, <2>1
<1>4. ASSUME p - q <= -1 PROVE FALSE
  <2>1. m * (p - q) <= -m
    BY <1>1, <1>4
  <2> QED
    BY <1>1, <1>2, <2>1
<1>5. p = q
  BY <1>1, <1>3, <1>4
<1> QED
  BY <1>1, <1>5

LEMMA AsIntOf ==
  ASSUME NEW x \in Int, NEW v \in Int, x % Ints = v
  PROVE  AsInt(x) = IF 2 * v < Ints THEN v ELSE v - Ints
<1>1. Ints \in Nat \ {0}
  BY IntsAssumption, SizesAssumption
<1>2. AsInt(x) = IF 2 * (x % Ints) < Ints THEN x % Ints ELSE (x % Ints) - Ints
  BY DEF AsInt
<1> QED
  BY <1>2

\* A product that fits an int is what it is.
LEMMA AsIntFits ==
  ASSUME NEW x \in Nat, 2 * x < Ints
  PROVE  AsInt(x) = x
<1>1. Ints \in Nat \ {0} /\ x \in 0 .. (Ints - 1)
  BY IntsAssumption, SizesAssumption
<1>2. (Ints * 0 + x) % Ints = x
  BY <1>1, Remainder
<1>3. x % Ints = x
  BY <1>1, <1>2
<1> QED
  BY <1>3 DEF AsInt

\* Two offsets in a row that did not wrap below zero are a page apart.
LEMMA AsIntNext ==
  ASSUME NEW x \in Int, NEW n \in 1 .. MaxSize, AsInt(x) >= 0, AsInt(x + n) >= 0
  PROVE  AsInt(x + n) = AsInt(x) + n
<1>1. Ints \in Nat \ {0} /\ MaxSize \in Nat /\ 2 * MaxSize < Ints
  BY IntsAssumption, SizesAssumption
<1>2. PICK w \in 0 .. (Ints - 1), q \in Int : x = Ints * q + w
  <2>1. /\ x % Ints \in 0 .. (Ints - 1) /\ x \div Ints \in Int
        /\ x = Ints * (x \div Ints) + (x % Ints)
    BY <1>1
  <2> QED
    BY <2>1
<1>3. x % Ints = w /\ w \in Int
  BY <1>1, <1>2, Remainder
<1>4. 2 * w < Ints /\ AsInt(x) = w
  <2>1. AsInt(x) = IF 2 * w < Ints THEN w ELSE w - Ints
    BY <1>3, AsIntOf
  <2> QED
    BY <1>1, <2>1
<1>5. w + n \in 0 .. (Ints - 1)
  BY <1>1, <1>2, <1>4
<1>6. PICK y \in Int : y = x + n
  OBVIOUS
<1>7. y = Ints * q + (w + n)
  BY <1>1, <1>2, <1>6
<1>8. y % Ints = w + n
  BY <1>1, <1>2, <1>5, <1>7, Remainder
<1>9. AsInt(y) = IF 2 * (w + n) < Ints THEN w + n ELSE w + n - Ints
  BY <1>1, <1>5, <1>8, AsIntOf
<1>10. AsInt(y) >= 0
  BY <1>6
<1>11. AsInt(y) = w + n
  BY <1>1, <1>2, <1>5, <1>9, <1>10
<1> QED
  BY <1>4, <1>6, <1>11

LEMMA SizeType ==
  ASSUME NEW n \in AskedSizes
  PROVE  PageSize(n) \in 1 .. MaxSize
  BY AskedAssumption, SizesAssumption DEF PageSize

LEMMA NumberType ==
  ASSUME NEW p \in FirstPages
  PROVE  PageNumber(p) \in Nat \ {0}
  BY AskedAssumption DEF PageNumber

-----------------------------------------------------------------------------
(***************************************************************************)
(* The invariant.                                                          *)
(***************************************************************************)
Types ==
    /\ table \in SUBSET Issues
    /\ first \in [Readers -> FirstPages]
    /\ page  \in [Readers -> Nat]
    /\ size  \in [Readers -> AskedSizes]
    /\ begun \in [Readers -> SUBSET table]
    /\ seen  \in [Readers -> SUBSET table]
    /\ shown \in [Readers -> Nat]

Start(r) == PageNumber(first[r])

\* The last page was not empty, and offsets grow with every page.
Asked(r) ==
    page[r] # 0 =>
        /\ page[r] >= Start(r)
        /\ page[r] > Start(r) =>
              /\ Offset(page[r] - 1, PageSize(size[r])) >= page[r] - 1 - Start(r)
              /\ Cardinality(table) > Offset(page[r] - 1, PageSize(size[r]))

\* What there is to see of the issues there were.
Due(r) == {i \in begun[r] : Rank(begun[r], i) >= Skipped(r)}

\* What is due and not seen is yet to come.
Ahead(r) ==
    page[r] # 0 /\ WithinInts(r) =>
        \A i \in Due(r) \ seen[r] : Rank(table, i) >= (page[r] - 1) * PageSize(size[r])

Missed(r) == page[r] = 0 /\ WithinInts(r) => Due(r) \subseteq seen[r]

Inserted(r) == Cardinality(table \ begun[r])

\* The rows that r has seen and will, as it looks, see again.
Beyond(r) == {i \in seen[r] : Rank(table, i) >= Next0(r)}

Repeats(r) ==
    /\ shown[r] - Cardinality(seen[r]) <= Inserted(r)
    /\ page[r] # 0 /\ Next0(r) >= 0 =>
          Cardinality(Beyond(r)) + shown[r] - Cardinality(seen[r]) <= Inserted(r)

PagingInv ==
    /\ Types
    /\ \A r \in Readers : Asked(r) /\ Ahead(r) /\ Missed(r) /\ Repeats(r)

LEMMA Finite ==
  ASSUME Types
  PROVE  /\ table \in SUBSET Int /\ IsFiniteSet(table)
         /\ Cardinality(table) \in Nat /\ Cardinality(Issues) \in Nat
         /\ Cardinality(table) <= Cardinality(Issues)
<1>1. table \in SUBSET Issues /\ Issues \subseteq Int /\ IsFiniteSet(Issues)
  BY StampsAssumption DEF Types
<1> QED
  BY <1>1, FS_Subset, FS_CardinalityType

\* The same of the sets of each reader.
LEMMA ReaderFinite ==
  ASSUME Types, NEW r \in Readers
  PROVE  /\ begun[r] \in SUBSET table /\ seen[r] \in SUBSET table
         /\ IsFiniteSet(begun[r]) /\ IsFiniteSet(seen[r]) /\ IsFiniteSet(Beyond(r))
         /\ IsFiniteSet(table \ begun[r])
         /\ Cardinality(seen[r]) \in Nat /\ Cardinality(Beyond(r)) \in Nat
         /\ Inserted(r) \in Nat
<1>1. begun[r] \in SUBSET table /\ seen[r] \in SUBSET table
  BY DEF Types
<1>2. Beyond(r) \in SUBSET table /\ table \ begun[r] \in SUBSET table
  BY <1>1 DEF Beyond
<1> QED
  BY <1>1, <1>2, Finite, FS_Subset, FS_CardinalityType DEF Inserted

LEMMA Numbers ==
  ASSUME Types, NEW r \in Readers
  PROVE  /\ PageSize(size[r]) \in 1 .. MaxSize /\ MaxSize \in Nat
         /\ Start(r) \in Nat \ {0} /\ page[r] \in Nat
         /\ Skipped(r) = (Start(r) - 1) * PageSize(size[r]) /\ Skipped(r) \in Nat
<1>1. size[r] \in AskedSizes /\ first[r] \in FirstPages /\ page[r] \in Nat
  BY DEF Types
<1>2. PageSize(size[r]) \in 1 .. MaxSize /\ MaxSize \in Nat /\ Start(r) \in Nat \ {0}
  BY <1>1, SizeType, NumberType, SizesAssumption DEF Start
<1>3. Skipped(r) = (Start(r) - 1) * PageSize(size[r])
  BY DEF Skipped, Start
<1> QED
  BY <1>1, <1>2, <1>3

\* A reader asks for no more pages than there are issues, and one.
LEMMA PagesBounded ==
  ASSUME Types, NEW r \in Readers, Asked(r), page[r] # 0
  PROVE  page[r] >= Start(r) /\ page[r] - Start(r) <= Cardinality(Issues)
<1> DEFINE o == Offset(page[r] - 1, PageSize(size[r]))
<1>1. CASE page[r] > Start(r)
  <2>1. o >= page[r] - 1 - Start(r) /\ Cardinality(table) > o
    BY <1>1 DEF Asked
  <2>2. o \in Int
    <3>1. (page[r] - 1 - 1) * PageSize(size[r]) \in Int /\ Ints \in Nat \ {0}
      BY Numbers, IntsAssumption, SizesAssumption
    <3> QED
      BY <3>1 DEF Offset, AsInt
  <2> HIDE DEF o
  <2> QED
    BY <1>1, <2>1, <2>2, Finite, Numbers
<1>2. CASE ~(page[r] > Start(r))
  BY <1>2, Finite, Numbers DEF Asked
<1> QED
  BY <1>1, <1>2

LEMMA NoWrap ==
  ASSUME Types, NEW r \in Readers, Asked(r), page[r] # 0, WithinInts(r)
  PROVE  /\ Next0(r) = (page[r] - 1) * PageSize(size[r])
         /\ Next0(r) \in Nat
<1> DEFINE n == PageSize(size[r])
           more == page[r] - Start(r)
<1>1. n \in 1 .. MaxSize /\ MaxSize \in Nat /\ Start(r) \in Nat \ {0} /\ page[r] \in Nat
  BY Numbers
<1>2. more \in Nat /\ more <= Cardinality(Issues) /\ Cardinality(Issues) \in Nat
  BY <1>1, PagesBounded, Finite
<1>3. more * n <= Cardinality(Issues) * MaxSize
  BY <1>1, <1>2, Products
<1>4. (page[r] - 1) * n = (Start(r) - 1) * n + more * n
  BY <1>1
<1>5. (page[r] - 1) * n \in Nat
  BY <1>1
<1>6. 2 * ((page[r] - 1) * n) < Ints
  <2>1. Skipped(r) = (Start(r) - 1) * n /\ Skipped(r) \in Nat
    BY Numbers
  <2>2. 2 * (Skipped(r) + Cardinality(Issues) * MaxSize) < Ints
    BY DEF WithinInts
  <2>3. more * n \in Nat /\ Cardinality(Issues) * MaxSize \in Nat /\ Ints \in Nat
    BY <1>1, <1>2, IntsAssumption
  <2> HIDE DEF n, more
  <2> QED
    BY <1>3, <1>4, <2>1, <2>2, <2>3
<1> QED
  BY <1>5, <1>6, AsIntFits DEF Next0, Offset

-----------------------------------------------------------------------------
LEMMA InvInit == Init => PagingInv
<1> SUFFICES ASSUME Init PROVE PagingInv
  OBVIOUS
<1>1. Types
  <2>1. ASSUME NEW r \in Readers PROVE PageNumber(first[r]) \in Nat
    BY NumberType DEF Init
  <2> QED
    BY <2>1 DEF Init, Types
<1>2. ASSUME NEW r \in Readers PROVE Asked(r) /\ Ahead(r) /\ Missed(r) /\ Repeats(r)
  <2>1. page[r] = Start(r) /\ Start(r) \in Nat \ {0}
    BY <1>1, Numbers DEF Init, Start
  <2>2. begun[r] = table /\ seen[r] = {} /\ shown[r] = 0
    BY DEF Init
  <2>3. Asked(r)
    BY <2>1 DEF Asked
  <2>4. Ahead(r)
    <3>1. Skipped(r) = (page[r] - 1) * PageSize(size[r])
      BY <2>1 DEF Skipped, Start
    <3> QED
      BY <2>2, <3>1 DEF Ahead, Due
  <2>5. Repeats(r)
    <3>1. Beyond(r) = {}
      BY <2>2 DEF Beyond
    <3>2. Inserted(r) \in Nat
      BY <1>1, ReaderFinite
    <3> QED
      BY <2>2, <3>1, <3>2, FS_EmptySet DEF Repeats
  <2> QED
    BY <2>1, <2>3, <2>4, <2>5 DEF Missed
<1> QED
  BY <1>1, <1>2 DEF PagingInv

-----------------------------------------------------------------------------
(***************************************************************************)
(* An insertion moves what comes after it by one.                          *)
(***************************************************************************)
\* At most one row that was seen moves to the next page.
LEMMA OneMoves ==
  ASSUME Types, NEW i \in Issues, i \notin table, table' = table \cup {i},
         NEW r \in Readers, seen' = seen, page' = page, size' = size, Next0(r) \in Int
  PROVE  /\ Cardinality(Beyond(r)') <= Cardinality(Beyond(r)) + 1
         /\ Cardinality(Beyond(r)') \in Nat
<1> DEFINE o == Next0(r)
<1>1. table \in SUBSET Int /\ IsFiniteSet(table) /\ i \in Int /\ seen[r] \in SUBSET table
  BY Finite, ReaderFinite, StampsAssumption
<1>2. Next0(r)' = o
  BY DEF Next0
<1>3. ASSUME NEW k \in seen[r]
      PROVE  Rank(table', k) = IF i > k THEN Rank(table, k) + 1 ELSE Rank(table, k)
  BY <1>1, RankMoves
<1>4. ASSUME NEW k \in seen[r] PROVE Rank(table, k) \in Nat
  BY <1>1, RankType
<1>5. Beyond(r)' = {k \in seen[r] : Rank(table', k) >= o}
  BY <1>2 DEF Beyond
<1>6. IsFiniteSet(Beyond(r)) /\ Cardinality(Beyond(r)) \in Nat
  BY ReaderFinite
<1> HIDE DEF o
<1>7. CASE \E k \in seen[r] : Rank(table, k) = o - 1
  <2>1. PICK l \in seen[r] : Rank(table, l) = o - 1
    BY <1>7
  <2>2. ASSUME NEW k \in seen[r], Rank(table', k) >= o PROVE k \in Beyond(r) \cup {l}
    <3>1. CASE Rank(table, k) >= o
      BY <3>1 DEF Beyond, o
    <3>2. CASE Rank(table, k) = o - 1
      <4>1. k \in table /\ l \in table /\ k \in Int /\ l \in Int
        BY <1>1
      <4>2. ~(k < l) /\ ~(l < k)
        BY <1>1, <1>4, <2>1, <3>2, <4>1, RankOrder
      <4> QED
        BY <4>1, <4>2
    <3> QED
      BY <1>3, <1>4, <2>2, <3>1, <3>2 DEF o
  <2>3. Beyond(r)' \in SUBSET (Beyond(r) \cup {l})
    BY <1>5, <2>2
  <2>4. /\ IsFiniteSet(Beyond(r) \cup {l})
        /\ Cardinality(Beyond(r) \cup {l}) <= Cardinality(Beyond(r)) + 1
    <3>1. /\ IsFiniteSet(Beyond(r) \cup {l})
          /\ Cardinality(Beyond(r) \cup {l}) =
               IF l \in Beyond(r) THEN Cardinality(Beyond(r)) ELSE Cardinality(Beyond(r)) + 1
      BY <1>6, FS_AddElement
    <3> QED
      BY <1>6, <3>1
  <2>5. /\ Cardinality(Beyond(r)') <= Cardinality(Beyond(r) \cup {l})
        /\ Cardinality(Beyond(r)') \in Nat /\ Cardinality(Beyond(r) \cup {l}) \in Nat
    BY <2>3, <2>4, FS_Subset, FS_CardinalityType
  <2> QED
    BY <1>6, <2>4, <2>5
<1>8. CASE ~\E k \in seen[r] : Rank(table, k) = o - 1
  <2>1. Beyond(r)' \in SUBSET Beyond(r)
    <3>1. ASSUME NEW k \in seen[r], Rank(table', k) >= o PROVE Rank(table, k) >= o
      BY <1>3, <1>4, <1>8, <3>1 DEF o
    <3> QED
      BY <1>5, <3>1 DEF Beyond, o
  <2>2. Cardinality(Beyond(r)') <= Cardinality(Beyond(r)) /\ Cardinality(Beyond(r)') \in Nat
    BY <1>6, <2>1, FS_Subset, FS_CardinalityType
  <2> QED
    BY <1>6, <2>2
<1> QED
  BY <1>7, <1>8

LEMMA OffsetType ==
  ASSUME Types, NEW r \in Readers
  PROVE  Next0(r) \in Int
<1>1. (page[r] - 1) * PageSize(size[r]) \in Int /\ Ints \in Nat \ {0}
  BY Numbers, IntsAssumption, SizesAssumption
<1> QED
  BY <1>1 DEF Next0, Offset, AsInt

LEMMA InvCreateIssue ==
  ASSUME PagingInv, NEW i \in Issues, CreateIssue(i)
  PROVE  PagingInv'
<1>1. Types /\ i \notin table /\ table' = table \cup {i}
      /\ UNCHANGED <<first, page, size, begun, seen, shown>>
  BY DEF PagingInv, CreateIssue
<1>2. Types'
  BY <1>1 DEF Types
<1>3. table \in SUBSET Int /\ IsFiniteSet(table) /\ Cardinality(table) \in Nat /\ i \in Int
  BY <1>1, Finite, StampsAssumption
<1>4. Cardinality(table') = Cardinality(table) + 1
  BY <1>1, <1>3, FS_AddElement
<1>5. ASSUME NEW r \in Readers PROVE Asked(r)' /\ Ahead(r)' /\ Missed(r)' /\ Repeats(r)'
  <2>1. Asked(r) /\ Ahead(r) /\ Missed(r) /\ Repeats(r)
    BY DEF PagingInv
  <2>2. /\ Start(r)' = Start(r) /\ Skipped(r)' = Skipped(r) /\ Due(r)' = Due(r)
        /\ (WithinInts(r)' <=> WithinInts(r)) /\ Next0(r)' = Next0(r)
    BY <1>1 DEF Start, Skipped, Due, WithinInts, Next0
  <2>3. Asked(r)'
    <3>1. CASE page[r] # 0 /\ page[r] > Start(r)
      <4>1. Offset(page[r] - 1, PageSize(size[r])) \in Int
        <5>1. (page[r] - 1 - 1) * PageSize(size[r]) \in Int /\ Ints \in Nat \ {0}
          BY <1>1, Numbers, IntsAssumption, SizesAssumption
        <5> QED
          BY <5>1 DEF Offset, AsInt
      <4> QED
        BY <1>1, <1>3, <1>4, <2>1, <2>2, <3>1, <4>1 DEF Asked
    <3>2. CASE ~(page[r] # 0 /\ page[r] > Start(r))
      BY <1>1, <2>1, <2>2, <3>2 DEF Asked
    <3> QED
      BY <3>1, <3>2
  <2>4. Ahead(r)'
    <3>1. ASSUME page[r] # 0, WithinInts(r), NEW k \in Due(r) \ seen[r]
          PROVE  Rank(table', k) >= (page[r] - 1) * PageSize(size[r])
      <4>1. Rank(table, k) >= (page[r] - 1) * PageSize(size[r])
        BY <2>1, <3>1 DEF Ahead
      <4>2. k \in Int /\ Rank(table, k) \in Nat
        BY <1>1, <1>3, RankType, ReaderFinite DEF Due
      <4>3. Rank(table', k) = Rank(table, k) + 1 \/ Rank(table', k) = Rank(table, k)
        BY <1>1, <1>3, <4>2, RankMoves
      <4>4. (page[r] - 1) * PageSize(size[r]) \in Int
        BY <1>1, Numbers
      <4> QED
        BY <4>1, <4>2, <4>3, <4>4
    <3> QED
      BY <1>1, <2>2, <3>1 DEF Ahead
  <2>5. Missed(r)'
    BY <1>1, <2>1, <2>2 DEF Missed
  <2>6. Inserted(r)' = Inserted(r) + 1 /\ Inserted(r) \in Nat
    <3>1. i \notin begun[r] /\ IsFiniteSet(table \ begun[r]) /\ begun'[r] = begun[r]
      BY <1>1, ReaderFinite
    <3>2. table' \ begun'[r] = (table \ begun[r]) \cup {i}
      BY <1>1, <3>1
    <3> QED
      BY <1>1, <3>1, <3>2, FS_AddElement, ReaderFinite DEF Inserted
  <2>7. Repeats(r)'
    <3>1. /\ Cardinality(Beyond(r)') <= Cardinality(Beyond(r)) + 1
          /\ Cardinality(Beyond(r)') \in Nat
      BY <1>1, OneMoves, OffsetType
    <3>2. Cardinality(Beyond(r)) \in Nat /\ Cardinality(seen[r]) \in Nat /\ shown[r] \in Nat
      BY <1>1, ReaderFinite DEF Types
    <3> QED
      BY <1>1, <2>1, <2>2, <2>6, <3>1, <3>2 DEF Repeats
  <2> QED
    BY <2>3, <2>4, <2>5, <2>7
<1> QED
  BY <1>2, <1>5 DEF PagingInv

-----------------------------------------------------------------------------
(***************************************************************************)
(* A page.                                                                 *)
(***************************************************************************)
\* What a step of r leaves alone.
LEMMA OthersStay ==
  ASSUME NEW r \in Readers, NEW q \in Readers, q # r,
         Types, Types', UNCHANGED <<table, first, size, begun>>,
         page'[q] = page[q], seen'[q] = seen[q], shown'[q] = shown[q],
         Asked(q), Ahead(q), Missed(q), Repeats(q)
  PROVE  Asked(q)' /\ Ahead(q)' /\ Missed(q)' /\ Repeats(q)'
<1>1. Start(q)' = Start(q) /\ Skipped(q)' = Skipped(q) /\ Due(q)' = Due(q)
      /\ (WithinInts(q)' <=> WithinInts(q)) /\ Next0(q)' = Next0(q)
      /\ Inserted(q)' = Inserted(q)
  BY DEF Start, Skipped, Due, WithinInts, Next0, Inserted
<1>2. Beyond(q)' = Beyond(q)
  BY <1>1 DEF Beyond
<1> QED
  BY <1>1, <1>2 DEF Asked, Ahead, Missed, Repeats

\* An empty page is beyond all that is due.
LEMMA EmptyIsEnd ==
  ASSUME Types, NEW r \in Readers, Asked(r), Ahead(r), page[r] # 0, WithinInts(r),
         Cut(Next0(r), Limit(PageSize(size[r]))) = {}
  PROVE  Due(r) \subseteq seen[r]
<1>1. /\ Next0(r) = (page[r] - 1) * PageSize(size[r]) /\ Next0(r) \in Nat
      /\ table \in SUBSET Int /\ IsFiniteSet(table)
      /\ PageSize(size[r]) \in 1 .. MaxSize /\ MaxSize \in Nat
  BY NoWrap, Finite, Numbers
<1>2. ASSUME NEW k \in Due(r) \ seen[r] PROVE FALSE
  <2>1. k \in table /\ Rank(table, k) >= Next0(r)
    BY <1>1, ReaderFinite DEF Ahead, Due
  <2>2. PICK j \in table : Rank(table, j) = Next0(r)
    BY <1>1, <2>1, RankTaken
  <2>3. Rank(table, j) < Next0(r) + PageSize(size[r])
    BY <1>1, <2>2
  <2>4. j \in Cut(Next0(r), Limit(PageSize(size[r])))
    BY <1>1, <2>2, <2>3 DEF Cut, Limit, Rank
  <2> QED
    BY <2>4
<1> QED
  BY <1>2

LEMMA InvEmptyPage ==
  ASSUME PagingInv, NEW r \in Readers, page[r] # 0, Next0(r) >= 0,
         Cut(Next0(r), Limit(PageSize(size[r]))) = {},
         page' = [page EXCEPT ![r] = 0], seen' = seen, shown' = shown,
         UNCHANGED <<table, first, size, begun>>
  PROVE  PagingInv'
<1>1. Types
  BY DEF PagingInv
<1>2. Types'
  BY <1>1 DEF Types
<1>3. ASSUME NEW q \in Readers PROVE Asked(q)' /\ Ahead(q)' /\ Missed(q)' /\ Repeats(q)'
  <2>1. Asked(q) /\ Ahead(q) /\ Missed(q) /\ Repeats(q)
    BY DEF PagingInv
  <2>2. CASE q # r
    BY <1>1, <1>2, <2>1, <2>2, OthersStay DEF Types
  <2>3. CASE q = r
    <3>1. page'[r] = 0
      BY <1>1 DEF Types
    <3>2. Due(r)' = Due(r) /\ (WithinInts(r)' <=> WithinInts(r)) /\ Inserted(r)' = Inserted(r)
      BY DEF Due, Skipped, WithinInts, Inserted
    <3>3. Missed(r)'
      BY <1>1, <2>1, <2>3, <3>1, <3>2, EmptyIsEnd DEF Missed
    <3>4. Repeats(r)'
      BY <2>1, <2>3, <3>1, <3>2 DEF Repeats
    <3> QED
      BY <2>3, <3>1, <3>3, <3>4 DEF Asked, Ahead
  <2> QED
    BY <2>2, <2>3
<1> QED
  BY <1>2, <1>3 DEF PagingInv

LEMMA InvRefused ==
  ASSUME PagingInv, NEW r \in Readers, ListIssuesRefused(r)
  PROVE  PagingInv'
<1>1. Types /\ page[r] # 0 /\ Next0(r) < 0 /\ page' = [page EXCEPT ![r] = 0]
      /\ UNCHANGED <<table, first, size, begun, seen, shown>>
  BY DEF PagingInv, ListIssuesRefused, Next0
<1>2. Types'
  BY <1>1 DEF Types
<1>3. ASSUME NEW q \in Readers PROVE Asked(q)' /\ Ahead(q)' /\ Missed(q)' /\ Repeats(q)'
  <2>1. Asked(q) /\ Ahead(q) /\ Missed(q) /\ Repeats(q)
    BY DEF PagingInv
  <2>2. CASE q # r
    BY <1>1, <1>2, <2>1, <2>2, OthersStay DEF Types
  <2>3. CASE q = r
    <3>1. page'[r] = 0
      BY <1>1 DEF Types
    <3>2. (WithinInts(r)' <=> WithinInts(r)) /\ Inserted(r)' = Inserted(r)
      BY <1>1 DEF Skipped, WithinInts, Inserted
    <3>3. ~WithinInts(r)
      <4>1. ASSUME WithinInts(r) PROVE FALSE
        <5>1. Next0(r) \in Nat
          BY <1>1, <2>1, <2>3, <4>1, NoWrap
        <5> QED
          BY <1>1, <5>1
      <4> QED
        BY <4>1
    <3>4. Repeats(r)'
      BY <1>1, <2>1, <2>3, <3>1, <3>2 DEF Repeats
    <3> QED
      BY <2>3, <3>1, <3>2, <3>3, <3>4 DEF Asked, Ahead, Missed
  <2> QED
    BY <2>2, <2>3
<1> QED
  BY <1>2, <1>3 DEF PagingInv

\* What a page shows again was beyond it, and what is beyond the next was beyond this.
LEMMA PageCounts ==
  ASSUME Types, NEW r \in Readers, NEW rows \in SUBSET table,
         \A k \in rows : Rank(table, k) >= Next0(r)
  PROVE  /\ Cardinality(seen[r] \cup rows)
              = Cardinality(seen[r]) + Cardinality(rows) - Cardinality(seen[r] \cap rows)
         /\ Cardinality(seen[r] \cap rows) <= Cardinality(Beyond(r))
         /\ Cardinality(Beyond(r) \ rows)
              = Cardinality(Beyond(r)) - Cardinality(seen[r] \cap rows)
         /\ Cardinality(rows) \in Nat /\ Cardinality(seen[r] \cap rows) \in Nat
<1>1. /\ seen[r] \in SUBSET table /\ IsFiniteSet(seen[r]) /\ IsFiniteSet(Beyond(r))
      /\ IsFiniteSet(table) /\ Beyond(r) \in SUBSET seen[r]
  BY Finite, ReaderFinite DEF Beyond
<1>2. IsFiniteSet(rows) /\ Cardinality(rows) \in Nat
  BY <1>1, FS_Subset, FS_CardinalityType
<1>3. Beyond(r) \cap rows = seen[r] \cap rows
  BY <1>1 DEF Beyond
<1>4. Cardinality(Beyond(r) \ rows) = Cardinality(Beyond(r)) - Cardinality(Beyond(r) \cap rows)
  BY <1>1, FS_Difference
<1>5. IsFiniteSet(seen[r] \cap rows) /\ Cardinality(seen[r] \cap rows) \in Nat
  BY <1>1, FS_Intersection, FS_CardinalityType
<1>6. Cardinality(Beyond(r) \cap rows) <= Cardinality(Beyond(r))
  BY <1>1, FS_Intersection
<1>7. Cardinality(seen[r] \cup rows)
        = Cardinality(seen[r]) + Cardinality(rows) - Cardinality(seen[r] \cap rows)
  BY <1>1, <1>2, FS_Union
<1> QED
  BY <1>2, <1>3, <1>4, <1>5, <1>6, <1>7

LEMMA InvPage ==
  ASSUME PagingInv, NEW r \in Readers, page[r] # 0, Next0(r) >= 0,
         NEW rows, rows = Cut(Next0(r), Limit(PageSize(size[r]))), rows # {},
         page' = [page EXCEPT ![r] = @ + 1],
         seen' = [seen EXCEPT ![r] = @ \cup rows],
         shown' = [shown EXCEPT ![r] = @ + Cardinality(rows)],
         UNCHANGED <<table, first, size, begun>>
  PROVE  PagingInv'
<1> DEFINE n == PageSize(size[r])
           o == Next0(r)
<1>1. /\ Types /\ Asked(r) /\ Ahead(r) /\ Missed(r) /\ Repeats(r)
      /\ page[r] \in Nat /\ shown[r] \in Nat
  BY DEF PagingInv, Types
<1>2. n \in 1 .. MaxSize /\ MaxSize \in Nat /\ Start(r) \in Nat \ {0} /\ o \in Nat
  BY <1>1, Numbers, OffsetType
<1>3. /\ rows \in SUBSET table
      /\ \A k \in table : k \in rows <=> Rank(table, k) >= o /\ Rank(table, k) < o + n
  BY DEF Cut, Limit, Rank
<1>4. table \in SUBSET Int /\ IsFiniteSet(table) /\ \A k \in table : Rank(table, k) \in Nat
  BY <1>1, Finite, RankType
<1>5. /\ page'[r] = page[r] + 1 /\ seen'[r] = seen[r] \cup rows
      /\ shown'[r] = shown[r] + Cardinality(rows)
  BY <1>1 DEF Types
<1>6. /\ Cardinality(seen[r] \cup rows)
           = Cardinality(seen[r]) + Cardinality(rows) - Cardinality(seen[r] \cap rows)
      /\ Cardinality(seen[r] \cap rows) <= Cardinality(Beyond(r))
      /\ Cardinality(Beyond(r) \ rows)
           = Cardinality(Beyond(r)) - Cardinality(seen[r] \cap rows)
      /\ Cardinality(rows) \in Nat /\ Cardinality(seen[r] \cap rows) \in Nat
  BY <1>1, <1>3, PageCounts
<1>7. Types'
  BY <1>1, <1>3, <1>6 DEF Types
<1>8. (page'[r] - 1) * n = (page[r] - 1) * n + n
  BY <1>1, <1>2, <1>5
<1>9. Next0(r)' >= 0 => Next0(r)' = o + n
  <2>1. (page[r] - 1) * n \in Int
    BY <1>1, <1>2
  <2>2. Next0(r)' = AsInt((page[r] - 1) * n + n) /\ o = AsInt((page[r] - 1) * n)
    BY <1>8 DEF Next0, Offset
  <2> QED
    BY <1>2, <2>1, <2>2, AsIntNext
<1>10. /\ Start(r)' = Start(r) /\ Due(r)' = Due(r) /\ (WithinInts(r)' <=> WithinInts(r))
       /\ Inserted(r)' = Inserted(r)
  BY DEF Start, Due, Skipped, WithinInts, Inserted
<1>11. Asked(r)'
  <2>1. PICK k \in rows : TRUE
    OBVIOUS
  <2>2. Cardinality(table) > o
    BY <1>2, <1>3, <1>4, <2>1, RankBound, Finite, <1>1
  <2>3. page[r] >= Start(r) /\ o >= page[r] - Start(r)
    <3>1. CASE page[r] = Start(r)
      BY <1>1, <1>2, <3>1
    <3>2. CASE page[r] # Start(r)
      <4> DEFINE x == (page[r] - 1 - 1) * n
      <4>1. page[r] > Start(r) /\ AsInt(x) >= page[r] - 1 - Start(r)
        BY <1>1, <1>2, <3>2 DEF Asked, Offset
      <4>2. x \in Int /\ x + n = (page[r] - 1) * n
        BY <1>1, <1>2
      <4>3. AsInt(x) \in Int
        BY <1>2, <4>2, IntsAssumption, SizesAssumption DEF AsInt
      <4>4. AsInt(x) >= 0
        BY <1>1, <1>2, <4>1, <4>3
      <4>5. AsInt(x + n) = o
        BY <4>2 DEF Next0, Offset
      <4>6. o = AsInt(x) + n
        BY <1>2, <4>2, <4>4, <4>5, AsIntNext
      <4> HIDE DEF x, n, o
      <4> QED
        BY <1>1, <1>2, <4>1, <4>3, <4>6
    <3> QED
      BY <3>1, <3>2
  <2>4. Offset(page'[r] - 1, PageSize(size'[r])) = o
    <3>1. page'[r] - 1 = page[r]
      BY <1>1, <1>5
    <3> QED
      BY <3>1 DEF Next0
  <2> QED
    BY <1>1, <1>2, <1>5, <1>10, <2>2, <2>3, <2>4 DEF Asked
<1>12. Ahead(r)'
  <2>1. ASSUME WithinInts(r), NEW k \in Due(r) \ seen'[r]
        PROVE  Rank(table, k) >= (page'[r] - 1) * n
    <3>1. o = (page[r] - 1) * n
      BY <1>1, <2>1, NoWrap
    <3>2. k \in table /\ k \in Due(r) \ seen[r] /\ k \notin rows
      BY <1>1, <1>5, <2>1, ReaderFinite DEF Due
    <3>3. Rank(table, k) >= o
      BY <1>1, <2>1, <3>1, <3>2 DEF Ahead
    <3>4. Rank(table, k) >= o + n
      BY <1>2, <1>3, <1>4, <3>2, <3>3
    <3> QED
      BY <1>8, <3>1, <3>4
  <2> QED
    BY <1>10, <2>1 DEF Ahead
<1>13. Missed(r)'
  BY <1>1, <1>5 DEF Missed
<1>14. Repeats(r)'
  <2>1. /\ Cardinality(Beyond(r)) \in Nat /\ Cardinality(seen[r]) \in Nat /\ Inserted(r) \in Nat
    BY <1>1, ReaderFinite
  <2>2. Cardinality(Beyond(r)) + shown[r] - Cardinality(seen[r]) <= Inserted(r)
    BY <1>1, <1>2 DEF Repeats
  <2>3. Next0(r)' >= 0 => Beyond(r)' = Beyond(r) \ rows
    <3>1. ASSUME Next0(r)' = o + n PROVE Beyond(r)' = Beyond(r) \ rows
      <4>1. Beyond(r)' = {k \in seen[r] \cup rows : Rank(table, k) >= o + n}
        BY <1>5, <3>1 DEF Beyond
      <4>2. ASSUME NEW k \in seen[r] \cup rows
            PROVE  Rank(table, k) >= o + n <=> k \in Beyond(r) \ rows
        <5>1. k \in table /\ Rank(table, k) \in Nat
          BY <1>1, <1>3, <1>4, ReaderFinite
        <5> QED
          BY <1>2, <1>3, <4>2, <5>1 DEF Beyond
      <4>3. Beyond(r) \ rows \subseteq seen[r] \cup rows
        BY DEF Beyond
      <4> QED
        BY <4>1, <4>2, <4>3
    <3> QED
      BY <1>9, <3>1
  <2>4. shown'[r] - Cardinality(seen'[r])
          = shown[r] - Cardinality(seen[r]) + Cardinality(seen[r] \cap rows)
    <3>1. Cardinality(seen'[r])
            = Cardinality(seen[r]) + Cardinality(rows) - Cardinality(seen[r] \cap rows)
      BY <1>5, <1>6
    <3>2. shown'[r] = shown[r] + Cardinality(rows)
      BY <1>5
    <3> QED
      BY <1>1, <1>6, <2>1, <3>1, <3>2
  <2>5. shown'[r] - Cardinality(seen'[r]) <= Inserted(r)
    BY <1>1, <1>6, <2>1, <2>2, <2>4
  <2>6. Next0(r)' >= 0 =>
          Cardinality(Beyond(r)') + shown'[r] - Cardinality(seen'[r]) <= Inserted(r)
    <3>1. ASSUME Next0(r)' >= 0
          PROVE  Cardinality(Beyond(r)')
                   = Cardinality(Beyond(r)) - Cardinality(seen[r] \cap rows)
      BY <1>6, <2>3, <3>1
    <3>2. ASSUME NEW b, b = Cardinality(Beyond(r)) - Cardinality(seen[r] \cap rows)
          PROVE  b + shown'[r] - Cardinality(seen'[r]) <= Inserted(r)
      <4>1. /\ Cardinality(seen'[r]) =
                  Cardinality(seen[r]) + Cardinality(rows) - Cardinality(seen[r] \cap rows)
            /\ shown'[r] = shown[r] + Cardinality(rows)
        BY <1>5, <1>6
      <4> QED
        BY <1>1, <1>6, <2>1, <2>2, <3>2, <4>1
    <3> QED
      BY <3>1, <3>2
  <2> QED
    BY <1>10, <2>5, <2>6 DEF Repeats
<1>15. ASSUME NEW q \in Readers, q # r PROVE Asked(q)' /\ Ahead(q)' /\ Missed(q)' /\ Repeats(q)'
  <2>1. Asked(q) /\ Ahead(q) /\ Missed(q) /\ Repeats(q)
    BY DEF PagingInv
  <2>2. page'[q] = page[q] /\ seen'[q] = seen[q] /\ shown'[q] = shown[q]
    BY <1>1, <1>15 DEF Types
  <2> QED
    BY <1>1, <1>7, <1>15, <2>1, <2>2, OthersStay
<1> QED
  BY <1>7, <1>11, <1>12, <1>13, <1>14, <1>15 DEF PagingInv

-----------------------------------------------------------------------------
LEMMA InvNext ==
  ASSUME PagingInv, [Next]_vars
  PROVE  PagingInv'
<1>1. ASSUME NEW i \in Issues, CreateIssue(i) PROVE PagingInv'
  BY <1>1, InvCreateIssue
<1>2. ASSUME NEW r \in Readers, ListIssues(r) PROVE PagingInv'
  <2> DEFINE rows == Cut(Next0(r), Limit(PageSize(size[r])))
  <2>1. /\ page[r] # 0 /\ Next0(r) >= 0
        /\ page' = [page EXCEPT ![r] = IF rows = {} THEN 0 ELSE @ + 1]
        /\ seen' = [seen EXCEPT ![r] = @ \cup rows]
        /\ shown' = [shown EXCEPT ![r] = @ + Cardinality(rows)]
        /\ UNCHANGED <<table, first, size, begun>>
    BY <1>2 DEF ListIssues, Next0
  <2>2. CASE rows = {}
    <3>1. Types
      BY DEF PagingInv
    <3>2. seen' = seen
      BY <2>1, <2>2, <3>1 DEF Types
    <3>3. shown' = shown
      BY <2>1, <2>2, <3>1, FS_EmptySet DEF Types
    <3> QED
      BY <2>1, <2>2, <3>2, <3>3, InvEmptyPage
  <2>3. CASE rows # {}
    BY <2>1, <2>3, InvPage
  <2> QED
    BY <2>2, <2>3
<1>3. ASSUME NEW r \in Readers, ListIssuesRefused(r) PROVE PagingInv'
  BY <1>3, InvRefused
<1>4. CASE UNCHANGED vars
  BY <1>4 DEF vars, PagingInv, Types, Asked, Ahead, Missed, Repeats, Start, Due, Skipped,
              WithinInts, Inserted, Beyond, Next0
<1> QED
  BY <1>1, <1>2, <1>3, <1>4 DEF Next

LEMMA InvAlways == Spec => []PagingInv
<1>1. PagingInv /\ [Next]_vars => PagingInv'
  BY InvNext
<1> QED
  BY InvInit, <1>1, PTL DEF Spec

\* TypeOK, for every list and number of readers: a reader asks for no more pages than
\* there are issues and one more, and the decoder's and the service's corrections
\* leave pages and sizes that are positive.
THEOREM PagingTypeCorrect == Spec => []TypeOK
<1>1. ASSUME PagingInv PROVE TypeOK
  <2>1. Types /\ \A r \in Readers : Asked(r)
    BY <1>1 DEF PagingInv
  <2>2. table \subseteq Issues /\ first \in [Readers -> FirstPages]
        /\ size \in [Readers -> AskedSizes] /\ begun \in [Readers -> SUBSET Issues]
        /\ seen \in [Readers -> SUBSET Issues] /\ shown \in [Readers -> Nat]
    BY <2>1 DEF Types
  <2>3. ASSUME NEW r \in Readers
        PROVE  page[r] \in {0} \cup PageNumber(first[r]) .. PageNumber(first[r]) + Cardinality(Issues)
    <3>1. page[r] # 0 => page[r] >= Start(r) /\ page[r] - Start(r) <= Cardinality(Issues)
      BY <2>1, PagesBounded
    <3>2. page[r] \in Nat /\ Start(r) \in Nat /\ Cardinality(Issues) \in Nat
      BY <2>1, Numbers, Finite
    <3> QED
      BY <3>1, <3>2 DEF Start
  <2> QED
    BY <2>2, <2>3 DEF TypeOK
<1> QED
  BY InvAlways, <1>1, PTL

\* NothingMissed: reading ListIssues page by page to the end shows everything that was
\* in the list, whatever is inserted meanwhile.
THEOREM NothingIsMissed == Spec => []NothingMissed
<1>1. PagingInv => NothingMissed
  BY DEF PagingInv, Missed, Due, NothingMissed, Rank
<1> QED
  BY InvAlways, <1>1, PTL

\* RepeatsAreInsertions: offsets shift by one with each insertion in front of them.
THEOREM RepeatsAreExplained == Spec => []RepeatsAreInsertions
<1>1. PagingInv => RepeatsAreInsertions
  BY DEF PagingInv, Repeats, Inserted, RepeatsAreInsertions
<1> QED
  BY InvAlways, <1>1, PTL
================================================================================
