--------------------------- MODULE ListingsProofs ---------------------------
(* Proofs about Listings.  Positions are first those of any finite set of keys. *)
EXTENDS Listings, FiniteSetTheorems, FunctionTheorems, TLAPS

Prec(L, newest, x) == {y \in L : IF newest THEN y > x ELSE y < x}
Pos(L, newest, x)  == Cardinality(Prec(L, newest, x))

LEMMA PosType ==
  ASSUME NEW L \in SUBSET Nat, IsFiniteSet(L), NEW newest \in BOOLEAN, NEW x \in Nat
  PROVE  /\ Pos(L, newest, x) \in Nat /\ IsFiniteSet(Prec(L, newest, x))
         /\ Cardinality(L) \in Nat
         /\ x \in L => Pos(L, newest, x) < Cardinality(L)
<1> DEFINE P == Prec(L, newest, x)
<1>1. P \in SUBSET L /\ x \notin P
  BY DEF Prec
<1>2. /\ IsFiniteSet(P) /\ Cardinality(P) \in Nat /\ Cardinality(L) \in Nat
      /\ Cardinality(P) <= Cardinality(L) /\ (Cardinality(L) = Cardinality(P) => L = P)
  BY <1>1, FS_Subset, FS_CardinalityType
<1>3. x \in L => Cardinality(P) < Cardinality(L)
  BY <1>1, <1>2
<1> QED
  BY <1>2, <1>3 DEF Pos

LEMMA PosStrict ==
  ASSUME NEW L \in SUBSET Nat, IsFiniteSet(L), NEW newest \in BOOLEAN,
         NEW x \in L, NEW y \in Prec(L, newest, x)
  PROVE  Pos(L, newest, y) < Pos(L, newest, x)
<1> DEFINE P == Prec(L, newest, x)  Q == Prec(L, newest, y)
<1>1. Q \in SUBSET P /\ y \in P /\ y \notin Q /\ x \in Nat /\ y \in Nat
  <2>1. x \in Nat /\ y \in Nat /\ y \in P
    BY DEF Prec
  <2>2. CASE newest = TRUE
    <3>1. P = {z \in L : z > x} /\ Q = {z \in L : z > y}
      BY <2>2 DEF Prec
    <3>2. y > x /\ y \notin Q
      BY <2>1, <3>1
    <3>3. ASSUME NEW z \in Q PROVE z \in P
      <4>1. z \in L /\ z \in Nat /\ z > y
        BY <3>1
      <4> QED BY <2>1, <3>1, <3>2, <4>1
    <3> QED BY <2>1, <3>2, <3>3
  <2>3. CASE newest = FALSE
    <3>1. P = {z \in L : z < x} /\ Q = {z \in L : z < y}
      BY <2>3 DEF Prec
    <3>2. y < x /\ y \notin Q
      BY <2>1, <3>1
    <3>3. ASSUME NEW z \in Q PROVE z \in P
      <4>1. z \in L /\ z \in Nat /\ z < y
        BY <3>1
      <4> QED BY <2>1, <3>1, <3>2, <4>1
    <3> QED BY <2>1, <3>2, <3>3
  <2> QED
    BY <2>2, <2>3
<1>2. IsFiniteSet(P) /\ Cardinality(P) \in Nat /\ Cardinality(Q) \in Nat
  <2>1. IsFiniteSet(Prec(L, newest, x)) /\ Pos(L, newest, x) \in Nat
    BY PosType
  <2>2. Pos(L, newest, y) \in Nat
    BY <1>1, PosType
  <2> QED
    BY <2>1, <2>2 DEF Pos
<1>3. Cardinality(Q) <= Cardinality(P) /\ (Cardinality(P) = Cardinality(Q) => P = Q)
  BY <1>1, <1>2, FS_Subset
<1> QED
  BY <1>1, <1>2, <1>3 DEF Pos

LEMMA PosInjective ==
  ASSUME NEW L \in SUBSET Nat, IsFiniteSet(L), NEW newest \in BOOLEAN,
         NEW x \in L, NEW y \in L, Pos(L, newest, x) = Pos(L, newest, y)
  PROVE  x = y
<1>1. x \in Nat /\ y \in Nat /\ Pos(L, newest, x) \in Nat
  BY PosType
<1>2. x # y => x \in Prec(L, newest, y) \/ y \in Prec(L, newest, x)
  BY <1>1 DEF Prec
<1> QED
  BY <1>1, <1>2, PosStrict

LEMMA Interval ==
  ASSUME NEW a \in Nat, NEW b \in Nat, a <= b
  PROVE  IsFiniteSet(a..(b - 1)) /\ Cardinality(a..(b - 1)) = b - a
<1>1. PICK c \in Int : c = b - 1
  OBVIOUS
<1>2. IsFiniteSet(a..c) /\ Cardinality(a..c) = IF a > c THEN 0 ELSE c - a + 1
  BY FS_Interval
<1> QED
  BY <1>1, <1>2

\* The rows at the positions from a to b - 1: no more than b - a of them, and just so
\* many if the listing is as long as that.
LEMMA Slice ==
  ASSUME NEW L \in SUBSET Nat, IsFiniteSet(L), NEW newest \in BOOLEAN,
         NEW a \in Nat, NEW b \in Nat, a <= b
  PROVE  LET S == {x \in L : a <= Pos(L, newest, x) /\ Pos(L, newest, x) < b}
         IN  /\ IsFiniteSet(S) /\ Cardinality(S) \in Nat
             /\ Cardinality(S) <= b - a
             /\ b <= Cardinality(L) => Cardinality(S) = b - a
<1> DEFINE n == Cardinality(L)
           S == {x \in L : a <= Pos(L, newest, x) /\ Pos(L, newest, x) < b}
           p == [x \in L |-> Pos(L, newest, x)]
           q == [x \in S |-> Pos(L, newest, x)]
<1>1. n \in Nat /\ \A x \in L : Pos(L, newest, x) \in 0..(n - 1)
  BY PosType, FS_CardinalityType
<1>2. \A k \in 0..(n - 1) : \E x \in L : Pos(L, newest, x) = k
  <2>1. p \in [L -> 0..(n - 1)] /\ \A x, y \in L : p[x] = p[y] => x = y
    BY <1>1, PosInjective
  <2>2. p \in Injection(L, 0..(n - 1))
    <3> HIDE DEF p, n
    <3> QED BY <2>1, Fun_IsInj
  <2>3. IsFiniteSet(0..(n - 1)) /\ Cardinality(0..(n - 1)) = n
    BY <1>1, Interval
  <2>4. p \in Surjection(L, 0..(n - 1))
    BY <2>2, <2>3, FS_Injection
  <2>5. \A k \in 0..(n - 1) : \E x \in L : p[x] = k
    <3> HIDE DEF p, n
    <3> QED BY <2>4 DEF Surjection
  <2> QED
    BY <2>5
<1>3. q \in [S -> a..(b - 1)] /\ \A x, y \in S : q[x] = q[y] => x = y
  <2>1. \A x \in S : x \in L /\ Pos(L, newest, x) \in a..(b - 1)
    BY <1>1
  <2>2. \A x, y \in S : Pos(L, newest, x) = Pos(L, newest, y) => x = y
    BY <2>1, PosInjective
  <2> QED
    BY <2>1, <2>2
<1>4. q \in Injection(S, a..(b - 1))
  <2> HIDE DEF q, S
  <2> QED BY <1>3, Fun_IsInj
<1>5. IsFiniteSet(a..(b - 1)) /\ Cardinality(a..(b - 1)) = b - a
  BY Interval
<1>6. IsFiniteSet(S) /\ Cardinality(S) <= b - a
      /\ (Cardinality(S) = b - a <=> q \in Surjection(S, a..(b - 1)))
  BY <1>4, <1>5, FS_Injection
<1>7. ASSUME b <= n PROVE q \in Surjection(S, a..(b - 1))
  <2>1. ASSUME NEW k \in a..(b - 1) PROVE \E x \in S : q[x] = k
    <3>1. PICK x \in L : Pos(L, newest, x) = k
      BY <1>1, <1>2, <1>7
    <3> QED
      BY <3>1
  <2> HIDE DEF q, S
  <2> QED
    BY <1>3, <2>1, Fun_IsSurj
<1> QED
  BY <1>6, <1>7, FS_CardinalityType

LEMMA PosAdd ==
  ASSUME NEW L \in SUBSET Nat, IsFiniteSet(L), NEW newest \in BOOLEAN,
         NEW x \in Nat, x \notin L, NEW y \in Nat
  PROVE  Pos(L \cup {x}, newest, y) =
           IF x \in Prec(L \cup {x}, newest, y) THEN Pos(L, newest, y) + 1
                                               ELSE Pos(L, newest, y)
<1>1. IsFiniteSet(Prec(L, newest, y)) /\ x \notin Prec(L, newest, y)
  BY PosType DEF Prec
<1>2. CASE x \in Prec(L \cup {x}, newest, y)
  <2>1. Prec(L \cup {x}, newest, y) = Prec(L, newest, y) \cup {x}
    BY <1>2 DEF Prec
  <2> QED
    BY <1>1, <1>2, <2>1, FS_AddElement DEF Pos
<1>3. CASE x \notin Prec(L \cup {x}, newest, y)
  <2>1. Prec(L \cup {x}, newest, y) = Prec(L, newest, y)
    BY <1>3 DEF Prec
  <2> QED
    BY <1>3, <2>1 DEF Pos
<1> QED
  BY <1>2, <1>3

-----------------------------------------------------------------------------
(* Cardinalities of sets of rows. *)

LEMMA Card ==
  ASSUME NEW T \in SUBSET Row, NEW S \in SUBSET T
  PROVE  /\ IsFiniteSet(T) /\ Cardinality(T) \in Nat
         /\ IsFiniteSet(S) /\ Cardinality(S) \in Nat
         /\ Cardinality(S) <= Cardinality(T)
         /\ Cardinality(T) = 0 <=> T = {}
<1>1. IsFiniteSet(T)
  BY RowAssumption, FS_Subset
<1> QED
  BY <1>1, FS_Subset, FS_CardinalityType, FS_EmptySet

LEMMA CardDisjoint ==
  ASSUME NEW T \in SUBSET Row, NEW A \in SUBSET T, NEW B \in SUBSET T, A \cap B = {}
  PROVE  Cardinality(A) + Cardinality(B) <= Cardinality(T)
<1>1. IsFiniteSet(A) /\ IsFiniteSet(B) /\ A \cup B \in SUBSET T
  BY Card
<1>2. Cardinality(A \cup B) = Cardinality(A) + Cardinality(B) - Cardinality(A \cap B)
  BY <1>1, FS_Union
<1>3. Cardinality(A \cap B) = 0
  BY FS_EmptySet
<1>4. /\ Cardinality(A) \in Nat /\ Cardinality(B) \in Nat
      /\ Cardinality(A \cup B) <= Cardinality(T)
  BY <1>1, Card
<1> QED
  BY <1>2, <1>3, <1>4

LEMMA OneMore ==
  ASSUME NEW S \in SUBSET Row, NEW T \in SUBSET Row, \A u, v \in S \ T : u = v
  PROVE  Cardinality(S) <= Cardinality(T) + 1
<1>1. CASE S \subseteq T
  BY <1>1, Card
<1>2. ASSUME NEW u \in S \ T PROVE Cardinality(S) <= Cardinality(T) + 1
  <2>1. IsFiniteSet(T) /\ T \cup {u} \in SUBSET Row /\ S \in SUBSET (T \cup {u})
    BY <1>2, Card
  <2>2. Cardinality(T \cup {u}) = Cardinality(T) + 1
    BY <2>1, FS_AddElement
  <2> QED
    BY <2>1, <2>2, Card
<1> QED
  BY <1>1, <1>2

-----------------------------------------------------------------------------
(* Positions in the listing. *)

LEMMA Constants ==
  ASSUME ListingTypeOK
  PROVE  /\ listed \in SUBSET Row /\ listed \in SUBSET Nat /\ IsFiniteSet(listed)
         /\ handler.newestFirst \in BOOLEAN
         /\ Limit \in Nat \ {0}
         /\ Read \in Nat
<1>1. page * Limit \in Nat
  BY LimitAssumption DEF ListingTypeOK
<1>2. listed \in SUBSET Row /\ listed \in SUBSET Nat /\ IsFiniteSet(listed)
  BY RowAssumption, FS_Subset DEF ListingTypeOK
<1>3. ASSUME NEW h \in Handler PROVE h.newestFirst \in BOOLEAN
  <2>1. /\ ListAllBookings.newestFirst = TRUE /\ GetBookingsByUserId.newestFirst = TRUE
        /\ ListInvoices.newestFirst = TRUE
        /\ ListUsers.newestFirst = FALSE /\ ListRooms.newestFirst = FALSE
        /\ ListServices.newestFirst = FALSE
    BY DEF ListAllBookings, GetBookingsByUserId, ListInvoices, ListUsers, ListRooms, ListServices
  <2>2. \/ h = ListAllBookings \/ h = GetBookingsByUserId \/ h = ListInvoices
        \/ h = ListUsers \/ h = ListRooms \/ h = ListServices
    BY <1>3 DEF Handler
  <2> QED
    BY <2>1, <2>2, Zenon
<1>4. handler \in Handler
  BY DEF ListingTypeOK
<1> QED
  BY <1>1, <1>2, <1>3, <1>4, LimitAssumption DEF Read

LEMMA PositionIsPos ==
  ASSUME NEW x
  PROVE  Position(x) = Pos(listed, handler.newestFirst, x)
  BY DEF Position, Earlier, Before, Pos, Prec

LEMMA PositionType ==
  ASSUME ListingTypeOK, NEW x \in Row
  PROVE  Position(x) \in Nat /\ (x \in listed => Position(x) < Cardinality(listed))
  BY Constants, RowAssumption, PositionIsPos, PosType

LEMMA PositionInjective ==
  ASSUME ListingTypeOK, NEW x \in listed, NEW y \in listed, Position(x) = Position(y)
  PROVE  x = y
  BY Constants, PositionIsPos, PosInjective

LEMMA SamePositions ==
  ASSUME UNCHANGED <<handler, listed>>, NEW x
  PROVE  Position(x)' = Position(x)
  BY DEF Position, Earlier, Before

\* What a page shows; a page that is not full is the last one.
LEMMA PageFacts ==
  ASSUME ListingTypeOK
  PROVE  /\ Rows(page + 1) = {x \in listed : Read <= Position(x) /\ Position(x) < Read + Limit}
         /\ Cardinality(Rows(page + 1)) \in 0..Limit
         /\ Cardinality(Rows(page + 1)) < Limit => \A x \in listed : Position(x) < Read + Limit
<1> DEFINE N == handler.newestFirst
           S == {x \in listed : Read <= Pos(listed, N, x) /\ Pos(listed, N, x) < Read + Limit}
<1>1. Skip(page + 1) = Read /\ Take(page + 1) = Limit
  BY LimitAssumption DEF Skip, Take, Read, ListingTypeOK
<1>2. Rows(page + 1) = {x \in listed : Read <= Position(x) /\ Position(x) < Read + Limit}
  BY <1>1 DEF Rows
<1>3. S = Rows(page + 1)
  BY <1>2, PositionIsPos
<1>4. Read + Limit \in Nat /\ Read <= Read + Limit /\ (Read + Limit) - Read = Limit
  BY Constants
<1>5. Cardinality(S) \in Nat /\ Cardinality(S) <= (Read + Limit) - Read
      /\ (Read + Limit <= Cardinality(listed) => Cardinality(S) = (Read + Limit) - Read)
  BY <1>4, Constants, Slice
<1>6. Cardinality(listed) \in Nat /\ \A x \in listed : x \in Row /\ Position(x) \in Nat
                                                /\ Position(x) < Cardinality(listed)
  BY Constants, PositionType, FS_CardinalityType
<1> HIDE DEF S
<1>7. Cardinality(S) < Limit => \A x \in listed : Position(x) < Read + Limit
  BY <1>4, <1>5, <1>6, Constants
<1> QED
  BY <1>2, <1>3, <1>4, <1>5, <1>7, Constants

\* last_page is a ceiling.
LEMMA LastPageIsLast ==
  ASSUME NEW total \in Nat, NEW p \in Nat, p >= LastPage(total)
  PROVE  total <= p * Limit
<1> DEFINE q == (total + Limit - 1) \div Limit
<1>1. Limit \in Nat /\ Limit > 0
  BY LimitAssumption
<1>2. q \in Int /\ total + Limit - 1 < q * Limit + Limit
  BY <1>1
<1>3. q * Limit <= p * Limit
  BY <1>1, <1>2 DEF LastPage
<1> QED
  BY <1>1, <1>2, <1>3

-----------------------------------------------------------------------------
(* The invariant, step by step. *)

LEMMA Sets ==
  ASSUME ListingTypeOK
  PROVE  /\ Passed \in SUBSET Row /\ Again \in SUBSET Row /\ constant \in SUBSET Row
         /\ seen \in SUBSET Row /\ ids \in SUBSET Row
         /\ Cardinality(Passed) \in Nat /\ Cardinality(Again) \in Nat
         /\ Cardinality(ids \cap seen) \in Nat
<1>1. /\ Passed \in SUBSET Row /\ Again \in SUBSET Row /\ ids \cap seen \in SUBSET Row
      /\ constant \in SUBSET Row /\ seen \in SUBSET Row /\ ids \in SUBSET Row
  BY DEF ListingTypeOK, Passed, Again
<1> QED
  BY <1>1, Card

LEMMA ListingInit ==
  Init => ListingIInv
<1> SUFFICES ASSUME Init PROVE ListingIInv
  OBVIOUS
<1>1. ListingTypeOK
  <2>1. 0 \in Nat /\ 0 \in 0..Limit
    BY LimitAssumption
  <2>2. pc \in {"ids", "rows", "count", "done"} /\ constant \subseteq listed /\ listed \subseteq Row
    BY DEF Init
  <2>3. torn \in BOOLEAN
    BY Zenon DEF Init
  <2> QED
    BY <2>1, <2>2, <2>3 DEF Init, ListingTypeOK
<1>2. Read = 0 /\ Taken = {}
  BY LimitAssumption DEF Init, Read, Taken
<1>3. Passed = {} /\ Again = {} /\ ids \cap seen = {}
  <2>1. \A x \in constant : ~(Position(x) < 0)
    BY <1>1, PositionType DEF ListingTypeOK
  <2> QED
    BY <1>2, <2>1 DEF Passed, Again, Init
<1> QED
  BY <1>1, <1>3, FS_EmptySet DEF Init, ListingIInv, MissedExplained

LEMMA ReadIdsStep ==
  ASSUME ListingIInv, ReadIds
  PROVE  ListingIInv'
<1> DEFINE R == Rows(page + 1)
<1>1. ListingTypeOK /\ pc = "ids" /\ ids = {} /\ Taken = seen
  BY DEF ListingIInv, ReadIds, Taken
<1>2. /\ R = {x \in listed : Read <= Position(x) /\ Position(x) < Read + Limit}
      /\ Cardinality(R) \in 0..Limit
      /\ Cardinality(R) < Limit => \A x \in listed : Position(x) < Read + Limit
      /\ R \in SUBSET Row /\ R \cap seen \in SUBSET Row /\ Cardinality(R \cap seen) \in Nat
  <2>1. R \in SUBSET Row /\ R \cap seen \in SUBSET Row
    BY <1>1 DEF Rows, ListingTypeOK
  <2> QED
    BY <1>1, <2>1, PageFacts, Card
<1> HIDE DEF R
<1>3. /\ UNCHANGED <<handler, listed, constant, entries, leaves>>
      /\ page' = page + 1 /\ torn' = FALSE
      /\ \/ ids' = R /\ pc' = "rows" /\ UNCHANGED <<got, seen, repeats>>
         \/ ids' = {} /\ pc' = "count" /\ got' = Cardinality(R) /\ seen' = seen \cup R
            /\ repeats' = repeats + Cardinality(R \cap seen)
  BY <1>1 DEF ReadIds, Show, historyVars, R
<1>4. ListingTypeOK'
  <2>1. page' \in Nat /\ pc' \in {"ids", "rows", "count", "done"}
    BY <1>1, <1>3 DEF ListingTypeOK
  <2>2. /\ handler' \in Handler /\ constant' \subseteq listed' /\ listed' \subseteq Row
        /\ entries' \in Nat /\ leaves' \in Nat
    BY <1>1, <1>3 DEF ListingTypeOK
  <2>3. ids' \subseteq Row /\ seen' \subseteq Row /\ got' \in 0..Limit /\ repeats' \in Nat
    BY <1>1, <1>2, <1>3 DEF ListingTypeOK
  <2>4. torn' \in BOOLEAN
    BY <1>3, Zenon
  <2> QED
    BY <2>1, <2>2, <2>3, <2>4 DEF ListingTypeOK
<1>5. Taken' = seen \cup R /\ Read' = Read + Limit /\ Read \in Nat /\ Limit \in Nat \ {0}
  BY <1>1, <1>3, Constants, LimitAssumption DEF Taken, Read, ListingTypeOK
<1>6. /\ \A x : Position(x)' = Position(x)
      /\ \A x \in listed : Position(x) \in Nat
      /\ constant \subseteq listed
  BY <1>1, <1>3, SamePositions, PositionType DEF ListingTypeOK
<1>7. Passed' = {x \in constant \ (seen \cup R) : Position(x) < Read + Limit}
      /\ Again' = {x \in listed \cap (seen \cup R) : Position(x) >= Read + Limit}
  BY <1>3, <1>5, <1>6 DEF Passed, Again
<1>8. Passed' \subseteq Passed
  BY <1>1, <1>2, <1>5, <1>6, <1>7 DEF Passed
<1>9. Cardinality(Passed') <= leaves
  <2>1. Cardinality(Passed) <= leaves /\ Passed \in SUBSET Row
    BY <1>1, Sets DEF ListingIInv
  <2> QED
    BY <1>8, <2>1, Card, <1>1 DEF ListingTypeOK
<1>10. Cardinality(R) < Limit => Cardinality(constant \ (seen \cup R)) <= leaves
  <2>1. Cardinality(R) < Limit => constant \ (seen \cup R) = Passed'
    BY <1>2, <1>6, <1>7
  <2> QED
    BY <1>9, <2>1
<1>11. Cardinality(Again') + Cardinality(R \cap seen) <= Cardinality(Again)
  <2>1. Again' \subseteq Again /\ R \cap seen \subseteq Again /\ Again' \cap (R \cap seen) = {}
    BY <1>1, <1>2, <1>5, <1>6, <1>7 DEF Again
  <2> QED
    BY <1>1, <2>1, Sets, CardDisjoint
<1>12. Cardinality(Again') + repeats' + Cardinality(ids' \cap seen') <= entries'
  <2>1. Cardinality(Again) + repeats <= entries
    BY <1>1, FS_EmptySet, Sets DEF ListingIInv, ListingTypeOK
  <2>2. Cardinality(Again') \in Nat /\ Cardinality(Again) \in Nat /\ repeats \in Nat /\ entries \in Nat
    <3>1. Again \in SUBSET Row /\ Again' \in SUBSET Row
      BY <1>1, <1>2, <1>7, Sets DEF ListingTypeOK
    <3> QED
      BY <1>1, <3>1, Card DEF ListingTypeOK
  <2>3. CASE ids' = R /\ UNCHANGED <<seen, repeats>>
    BY <1>2, <1>3, <1>11, <2>1, <2>2, <2>3
  <2>4. CASE ids' = {} /\ repeats' = repeats + Cardinality(R \cap seen)
    <3>1. Cardinality(ids' \cap seen') = 0
      BY <2>4, FS_EmptySet
    <3> QED
      BY <1>2, <1>3, <1>11, <2>1, <2>2, <2>4, <3>1
  <2> QED
    BY <1>3, <2>3, <2>4
<1>13. page' > 0
  BY <1>1, <1>3 DEF ListingTypeOK
<1>14. pc' = "rows" => Cardinality(ids') <= Limit /\ ids' \subseteq listed'
  BY <1>2, <1>3
<1>15. pc' = "count" /\ got' < Limit => Cardinality(constant' \ seen') <= leaves'
  BY <1>3, <1>10
<1>16. pc' = "rows" /\ Cardinality(ids') < Limit => Cardinality(constant' \ Taken') <= leaves'
  BY <1>3, <1>5, <1>10
<1> QED
  BY <1>3, <1>4, <1>9, <1>12, <1>13, <1>14, <1>15, <1>16 DEF ListingIInv, MissedExplained

LEMMA ReadRowsStep ==
  ASSUME ListingIInv, ReadRows
  PROVE  ListingIInv'
<1> DEFINE S == ids \cap listed
<1>1. /\ ListingTypeOK /\ pc = "rows" /\ page > 0 /\ Cardinality(ids) <= Limit
      /\ ids \subseteq listed \/ leaves > 0
  BY DEF ListingIInv, ReadRows
<1>2. /\ S \in SUBSET ids /\ ids \in SUBSET Row /\ Cardinality(S) \in 0..Limit
      /\ S \cap seen \in SUBSET (ids \cap seen)
      /\ Cardinality(S \cap seen) \in Nat /\ Cardinality(S \cap seen) <= Cardinality(ids \cap seen)
  <2>1. S \in SUBSET ids /\ ids \in SUBSET Row /\ ids \cap seen \in SUBSET Row
        /\ S \cap seen \in SUBSET (ids \cap seen)
    BY <1>1 DEF ListingTypeOK
  <2>2. Cardinality(S) \in Nat /\ Cardinality(S) <= Cardinality(ids) /\ Cardinality(ids) \in Nat
    BY <2>1, Card
  <2> QED
    BY <1>1, <2>1, <2>2, Card, LimitAssumption
<1>3. /\ UNCHANGED <<handler, listed, page, constant, entries, leaves>>
      /\ ids' = {} /\ pc' = "count" /\ torn' = ~(ids \subseteq listed)
      /\ got' = Cardinality(S) /\ seen' = seen \cup S
      /\ repeats' = repeats + Cardinality(S \cap seen)
  BY DEF ReadRows, Show, historyVars
<1>4. ListingTypeOK'
  BY <1>1, <1>2, <1>3 DEF ListingTypeOK
<1>5. /\ Taken' = seen \cup S /\ Read' = Read
      /\ \A x : Position(x)' = Position(x)
  BY <1>3, SamePositions DEF Taken, Read
<1>6. Passed' \subseteq Passed /\ Again' \subseteq Again
  BY <1>1, <1>3, <1>5 DEF Passed, Again, Taken, ListingTypeOK
<1>7. Cardinality(Passed') <= leaves /\ Cardinality(Again') \in Nat
      /\ Cardinality(Again') <= Cardinality(Again)
  <2>1. Cardinality(Passed) <= leaves /\ Passed \in SUBSET Row /\ Again \in SUBSET Row
    BY <1>1, Sets DEF ListingIInv
  <2>2. /\ Cardinality(Passed') \in Nat /\ Cardinality(Passed') <= Cardinality(Passed)
        /\ Cardinality(Passed) \in Nat
        /\ Cardinality(Again') \in Nat /\ Cardinality(Again') <= Cardinality(Again)
    BY <1>6, <2>1, Card
  <2> QED
    BY <1>1, <2>1, <2>2 DEF ListingTypeOK
<1>8. got' < Limit /\ ~torn' => Cardinality(constant' \ seen') <= leaves'
  <2>1. ~torn' => got' = Cardinality(ids) /\ constant' \ seen' = constant \ Taken
    <3>1. ids \subseteq listed => S = ids
      OBVIOUS
    <3> QED
      BY <1>3, <3>1 DEF Taken
  <2>2. Cardinality(ids) < Limit => Cardinality(constant \ Taken) <= leaves
    BY <1>1 DEF ListingIInv
  <2> QED
    BY <1>3, <2>1, <2>2
<1>9. Cardinality(Again') + repeats' + Cardinality(ids' \cap seen') <= entries'
  <2>1. Cardinality(Again) + repeats + Cardinality(ids \cap seen) <= entries
    BY DEF ListingIInv
  <2>2. Cardinality(ids' \cap seen') = 0
    BY <1>3, FS_EmptySet
  <2>3. /\ Cardinality(Again) \in Nat /\ repeats \in Nat /\ entries \in Nat
        /\ Cardinality(ids \cap seen) \in Nat
    BY <1>1, Sets DEF ListingTypeOK
  <2> QED
    BY <1>2, <1>3, <1>7, <2>1, <2>2, <2>3
<1>10. torn' => leaves' > 0
  BY <1>1, <1>3
<1> QED
  BY <1>1, <1>3, <1>4, <1>7, <1>8, <1>9, <1>10 DEF ListingIInv, MissedExplained

LEMMA CountStep ==
  ASSUME ListingIInv, Count
  PROVE  ListingIInv'
<1>1. ListingTypeOK /\ pc = "count" /\ ids = {} /\ page > 0 /\ Taken = seen
  BY DEF ListingIInv, Count, Taken
<1>2. PICK total \in Totals : pc' = IF page >= LastPage(total) THEN "done" ELSE "ids"
  BY DEF Count
<1>3. UNCHANGED <<handler, listed, page, ids, got, torn, seen, repeats, constant, entries, leaves>>
  BY DEF Count, historyVars
<1>4. ListingTypeOK'
  BY <1>1, <1>2, <1>3 DEF ListingTypeOK
<1>5. /\ Taken' = Taken /\ Read' = Read /\ \A x : Position(x)' = Position(x)
  BY <1>3, SamePositions DEF Taken, Read
<1>6. Passed' = Passed /\ Again' = Again
  BY <1>3, <1>5 DEF Passed, Again
<1>7. pc' = "done" => Cardinality(constant \ seen) <= leaves \/ (torn /\ leaves > 0)
  <2> SUFFICES ASSUME pc' = "done" PROVE Cardinality(constant \ seen) <= leaves \/ (torn /\ leaves > 0)
    OBVIOUS
  <2>1. CASE total = Cardinality(listed)
    <3>1. total \in Nat
      BY <1>1, <2>1, Constants, FS_CardinalityType
    <3>2. total <= Read
      BY <1>1, <1>2, <3>1, LastPageIsLast DEF Read, ListingTypeOK
    <3>3. \A x \in listed : Position(x) \in Nat /\ Position(x) < total
      BY <1>1, <2>1, PositionType DEF ListingTypeOK
    <3>4. Read \in Nat
      BY <1>1, Constants
    <3>5. constant \ seen = Passed
      BY <1>1, <3>1, <3>2, <3>3, <3>4 DEF Passed, ListingTypeOK
    <3> QED
      BY <1>1, <3>5 DEF ListingIInv
  <2>2. CASE got < Limit
    BY <1>1, <2>2 DEF ListingIInv
  <2> QED
    BY <1>2, <2>1, <2>2 DEF Totals
<1>8. pc' \in {"done", "ids"}
  BY <1>2
<1>9. /\ torn' => leaves' > 0
      /\ Cardinality(Passed') <= leaves'
      /\ Cardinality(Again') + repeats' + Cardinality(ids' \cap seen') <= entries'
  BY <1>1, <1>3, <1>6 DEF ListingIInv
<1>10. MissedExplained'
  BY <1>3, <1>7 DEF MissedExplained
<1> QED
  BY <1>1, <1>3, <1>4, <1>8, <1>9, <1>10 DEF ListingIInv

LEMMA EnterStep ==
  ASSUME ListingIInv, NEW x \in Row, Enter(x)
  PROVE  ListingIInv'
<1> DEFINE N == handler.newestFirst
<1>1. /\ ListingTypeOK /\ pc # "done" /\ x \notin listed /\ listed' = listed \cup {x}
      /\ entries' = entries + 1
      /\ UNCHANGED <<handler, constant, pc, page, ids, got, torn, seen, repeats, leaves>>
  BY DEF ListingIInv, Enter, Changes
<1>2. ListingTypeOK'
  BY <1>1 DEF ListingTypeOK
<1>3. Taken' = Taken /\ Read' = Read /\ Read \in Nat
  BY <1>1, Constants DEF Taken, Read
<1>4. /\ listed \in SUBSET Nat /\ IsFiniteSet(listed) /\ N \in BOOLEAN /\ x \in Nat
      /\ listed' \in SUBSET Nat /\ IsFiniteSet(listed')
      /\ \A y \in listed' : y \in Nat
  BY <1>1, Constants, FS_AddElement, RowAssumption
<1>5. \A y : Position(y)' = Pos(listed', N, y) /\ Position(y) = Pos(listed, N, y)
  BY <1>1 DEF Position, Earlier, Before, Pos, Prec
<1>6. ASSUME NEW y \in listed'
      PROVE  /\ Position(y) \in Nat /\ Position(y)' \in Nat
             /\ Position(y)' = IF x \in Prec(listed', N, y) THEN Position(y) + 1 ELSE Position(y)
  <2>1. y \in Nat /\ Pos(listed, N, y) \in Nat
    BY <1>4, PosType
  <2>2. Pos(listed', N, y) = IF x \in Prec(listed', N, y) THEN Pos(listed, N, y) + 1
                                                       ELSE Pos(listed, N, y)
    BY <1>1, <1>4, <2>1, PosAdd
  <2> QED
    BY <1>5, <2>1, <2>2
<1>7. Passed' \subseteq Passed
  <2>1. ASSUME NEW y \in Passed' PROVE y \in Passed
    <3>1. y \in constant \ Taken /\ Position(y)' < Read /\ y \in listed'
      BY <1>1, <1>3 DEF Passed, ListingTypeOK
    <3> QED
      BY <1>3, <1>6, <3>1 DEF Passed
  <2> QED
    BY <2>1
<1>8. ASSUME NEW u \in Again' \ Again, NEW v \in Again' \ Again PROVE u = v
  <2>1. \A y \in Again' \ Again : y \in listed' /\ Position(y)' >= Read
                               /\ (y = x \/ (y \in listed /\ Position(y) < Read))
    BY <1>1, <1>3, <1>6 DEF Again
  <2>2. CASE Position(x)' >= Read
    <3>1. ASSUME NEW y \in Again' \ Again, y # x PROVE FALSE
      <4>1. y \in listed' /\ Position(y)' >= Read /\ Position(y) < Read
        BY <2>1, <3>1
      <4>2. x \in Prec(listed', N, y)
        BY <1>3, <1>6, <4>1
      <4>3. Pos(listed', N, x) < Pos(listed', N, y)
        BY <1>4, <4>1, <4>2, PosStrict
      <4>4. x \in listed'
        BY <1>1
      <4> QED
        BY <1>3, <1>5, <1>6, <2>2, <4>1, <4>2, <4>3, <4>4
    <3> QED
      BY <3>1
  <2>3. CASE Position(x)' < Read
    <3>1. \A y \in Again' \ Again : y \in listed /\ Position(y) = Read - 1
      <4>1. x \in listed' /\ Position(x)' \in Nat
        BY <1>1, <1>6
      <4> QED
        BY <1>3, <1>6, <2>1, <2>3, <4>1
    <3> QED
      BY <1>1, <3>1, PositionInjective
  <2>4. x \in listed' /\ Position(x)' \in Nat
    BY <1>1, <1>6
  <2> QED
    BY <1>3, <2>2, <2>3, <2>4
<1>9. Cardinality(Passed') <= leaves /\ Cardinality(Again') <= Cardinality(Again) + 1
      /\ Cardinality(Again') \in Nat
  <2>1. Cardinality(Passed) <= leaves /\ Passed \in SUBSET Row /\ Again \in SUBSET Row
        /\ Cardinality(Passed) \in Nat
    BY <1>1, Sets DEF ListingIInv
  <2>2. Again' \in SUBSET Row
    BY <1>2 DEF Again, ListingTypeOK
  <2>3. Cardinality(Passed') \in Nat /\ Cardinality(Passed') <= Cardinality(Passed)
    BY <1>7, <2>1, Card
  <2> QED
    BY <1>1, <1>8, <2>1, <2>2, <2>3, Card, OneMore DEF ListingTypeOK
<1>10. Cardinality(Again') + repeats' + Cardinality(ids' \cap seen') <= entries'
  <2>1. Cardinality(Again) + repeats + Cardinality(ids \cap seen) <= entries
    BY DEF ListingIInv
  <2>2. /\ Cardinality(Again) \in Nat /\ repeats \in Nat /\ entries \in Nat
        /\ Cardinality(ids \cap seen) \in Nat
    BY <1>1, Sets DEF ListingTypeOK
  <2> QED
    BY <1>1, <1>9, <2>1, <2>2
<1>11. /\ pc' # "rows" => ids' = {}
       /\ pc' \in {"rows", "count"} => page' > 0
       /\ torn' => leaves' > 0
       /\ pc' = "rows" => Cardinality(ids') <= Limit /\ (ids' \subseteq listed' \/ leaves' > 0)
       /\ pc' = "rows" /\ Cardinality(ids') < Limit => Cardinality(constant' \ Taken') <= leaves'
       /\ pc' = "count" /\ got' < Limit /\ ~torn' => Cardinality(constant' \ seen') <= leaves'
       /\ MissedExplained'
  BY <1>1, <1>3 DEF ListingIInv, MissedExplained
<1> QED
  BY <1>1, <1>2, <1>9, <1>10, <1>11 DEF ListingIInv

LEMMA LeaveStep ==
  ASSUME ListingIInv, NEW x \in Row, Leave(x)
  PROVE  ListingIInv'
<1> DEFINE N == handler.newestFirst
<1>1. /\ ListingTypeOK /\ pc # "done" /\ x \in listed
      /\ listed' = listed \ {x} /\ constant' = constant \ {x}
      /\ leaves' = leaves + 1
      /\ UNCHANGED <<handler, pc, page, ids, got, torn, seen, repeats, entries>>
  BY DEF ListingIInv, Leave, Changes
<1>2. ListingTypeOK'
  BY <1>1 DEF ListingTypeOK
<1>3. Taken' = Taken /\ Read' = Read /\ Read \in Nat /\ leaves \in Nat
  BY <1>1, Constants DEF Taken, Read, ListingTypeOK
<1>4. /\ N \in BOOLEAN /\ x \in Nat /\ listed = listed' \cup {x} /\ x \notin listed'
      /\ listed' \in SUBSET Nat /\ IsFiniteSet(listed')
      /\ \A y \in listed : y \in Nat
  BY <1>1, Constants, FS_RemoveElement, RowAssumption
<1>5. \A y : Position(y)' = Pos(listed', N, y) /\ Position(y) = Pos(listed, N, y)
  BY <1>1 DEF Position, Earlier, Before, Pos, Prec
<1>6. ASSUME NEW y \in listed
      PROVE  /\ Position(y) \in Nat /\ Position(y)' \in Nat
             /\ Position(y) = Position(y)' \/ Position(y) = Position(y)' + 1
  <2>1. y \in Nat /\ Pos(listed', N, y) \in Nat
    BY <1>4, PosType
  <2>2. Pos(listed' \cup {x}, N, y) = IF x \in Prec(listed' \cup {x}, N, y)
                                     THEN Pos(listed', N, y) + 1 ELSE Pos(listed', N, y)
    BY <1>4, <2>1, PosAdd
  <2> QED
    BY <1>4, <1>5, <2>1, <2>2
<1>7. Again' \subseteq Again
  BY <1>1, <1>3, <1>6 DEF Again
<1>8. ASSUME NEW u \in Passed' \ Passed, NEW v \in Passed' \ Passed PROVE u = v
  <2>1. \A y \in Passed' \ Passed : y \in listed /\ Position(y) = Read
    BY <1>1, <1>3, <1>6 DEF Passed, ListingTypeOK
  <2> QED
    BY <1>1, <2>1, PositionInjective
<1>9. Cardinality(Passed') <= leaves' /\ Cardinality(Again') <= Cardinality(Again)
      /\ Cardinality(Again') \in Nat
  <2>1. Cardinality(Passed) <= leaves /\ Passed \in SUBSET Row /\ Again \in SUBSET Row
        /\ Cardinality(Passed) \in Nat
    BY <1>1, Sets DEF ListingIInv
  <2>2. Passed' \in SUBSET Row
    BY <1>2 DEF Passed, ListingTypeOK
  <2>3. Cardinality(Passed') \in Nat /\ Cardinality(Passed') <= Cardinality(Passed) + 1
    BY <1>8, <2>1, <2>2, Card, OneMore
  <2> QED
    BY <1>1, <1>3, <1>7, <2>1, <2>3, Card
<1>10. Cardinality(Again') + repeats' + Cardinality(ids' \cap seen') <= entries'
  <2>1. Cardinality(Again) + repeats + Cardinality(ids \cap seen) <= entries
    BY DEF ListingIInv
  <2>2. /\ Cardinality(Again) \in Nat /\ repeats \in Nat /\ entries \in Nat
        /\ Cardinality(ids \cap seen) \in Nat
    BY <1>1, Sets DEF ListingTypeOK
  <2> QED
    BY <1>1, <1>9, <2>1, <2>2
<1>11. /\ Cardinality(constant' \ Taken') <= Cardinality(constant \ Taken)
       /\ Cardinality(constant' \ seen') <= Cardinality(constant \ seen)
       /\ Cardinality(constant' \ Taken') \in Nat /\ Cardinality(constant \ Taken) \in Nat
       /\ Cardinality(constant' \ seen') \in Nat /\ Cardinality(constant \ seen) \in Nat
  <2>1. /\ constant \ Taken \in SUBSET Row /\ constant' \ Taken' \in SUBSET (constant \ Taken)
        /\ constant \ seen \in SUBSET Row /\ constant' \ seen' \in SUBSET (constant \ seen)
    BY <1>1, <1>3 DEF ListingTypeOK
  <2> QED
    BY <2>1, Card
<1>12. /\ pc' # "rows" => ids' = {}
       /\ pc' \in {"rows", "count"} => page' > 0
       /\ torn' => leaves' > 0
       /\ pc' = "rows" => Cardinality(ids') <= Limit /\ leaves' > 0
       /\ pc' = "rows" /\ Cardinality(ids') < Limit => Cardinality(constant' \ Taken') <= leaves'
       /\ pc' = "count" /\ got' < Limit /\ ~torn' => Cardinality(constant' \ seen') <= leaves'
  BY <1>1, <1>3, <1>11 DEF ListingIInv
<1>13. MissedExplained'
  BY <1>1 DEF MissedExplained
<1> QED
  BY <1>1, <1>2, <1>9, <1>10, <1>12, <1>13 DEF ListingIInv

LEMMA ListingStep ==
  ListingIInv /\ [Next]_vars => ListingIInv'
<1> SUFFICES ASSUME ListingIInv, [Next]_vars PROVE ListingIInv'
  OBVIOUS
<1>1. CASE ReadIds
  BY <1>1, ReadIdsStep
<1>2. CASE ReadRows
  BY <1>2, ReadRowsStep
<1>3. CASE Count
  BY <1>3, CountStep
<1>4. ASSUME NEW x \in Row, Enter(x) PROVE ListingIInv'
  BY <1>4, EnterStep
<1>5. ASSUME NEW x \in Row, Leave(x) PROVE ListingIInv'
  BY <1>5, LeaveStep
<1>6. CASE UNCHANGED vars
  BY <1>6 DEF vars, historyVars, ListingIInv, ListingTypeOK, MissedExplained, Passed, Again,
              Taken, Read, Position, Earlier, Before
<1> QED
  BY <1>1, <1>2, <1>3, <1>4, <1>5, <1>6 DEF Next

-----------------------------------------------------------------------------
\* The inductive invariant: for every set of rows, page size, sort order and number
\* of changes, the pages read so far have shown what they should but for as many
\* rows as have left.
THEOREM ListingInvariant ==
  Spec => []ListingIInv
  BY ListingInit, ListingStep, PTL DEF Spec

\* Every variable keeps its type; a page never holds more rows than its limit.
THEOREM ListingTypeCorrect ==
  Spec => []ListingTypeOK
<1>1. ListingIInv => ListingTypeOK
  BY DEF ListingIInv
<1> QED
  BY <1>1, ListingInvariant, PTL

\* A client that pages to last_page misses no more constant rows than rows left,
\* unless a page was torn between its two queries while rows left: it is then short,
\* may be taken for the last one, and any number of rows may go unread.
THEOREM NothingMissedUnexplained ==
  Spec => []MissedExplained
<1>1. ListingIInv => MissedExplained
  BY DEF ListingIInv
<1> QED
  BY <1>1, ListingInvariant, PTL

\* A client is shown no more rows again than rows entered.
THEOREM NothingRepeatedUnexplained ==
  Spec => []RepeatsExplained
<1>1. ListingIInv => RepeatsExplained
  <2> SUFFICES ASSUME ListingIInv PROVE RepeatsExplained
    OBVIOUS
  <2>1. /\ Cardinality(Again) \in Nat /\ Cardinality(ids \cap seen) \in Nat
        /\ repeats \in Nat /\ entries \in Nat
    BY Sets DEF ListingIInv, ListingTypeOK
  <2> QED
    BY <2>1 DEF ListingIInv, RepeatsExplained
<1> QED
  BY <1>1, ListingInvariant, PTL

-----------------------------------------------------------------------------
(* A listing that nothing enters or leaves. *)

\* Only what enters is not there from the start, and only what leaves was shown and
\* is gone.
ShownInv ==
  /\ entries = 0 => constant = listed
  /\ leaves = 0  => seen \subseteq listed

\* A client has seen every row once.
ShownOnce == pc = "done" /\ entries = 0 /\ leaves = 0 => seen = listed /\ repeats = 0

LEMMA ShownInit == Init => ShownInv
BY DEF Init, ShownInv

LEMMA ShownStep == ListingIInv /\ ShownInv /\ [Next]_vars => ShownInv'
<1> SUFFICES ASSUME ListingIInv, ShownInv, [Next]_vars PROVE ShownInv'
  OBVIOUS
<1> USE DEF ShownInv
<1>1. entries \in Nat /\ leaves \in Nat
  BY DEF ListingIInv, ListingTypeOK
<1>2. CASE ReadIds
  <2>1. Rows(page + 1) \subseteq listed
    BY DEF Rows
  <2> QED BY <1>2, <2>1 DEF ReadIds, Show, historyVars
<1>3. CASE ReadRows
  BY <1>3 DEF ReadRows, Show, historyVars
<1>4. CASE Count
  BY <1>4 DEF Count, historyVars
<1>5. ASSUME NEW x \in Row, Enter(x) PROVE ShownInv'
  BY <1>1, <1>5 DEF Enter
<1>6. ASSUME NEW x \in Row, Leave(x) PROVE ShownInv'
  BY <1>1, <1>6 DEF Leave
<1>7. CASE UNCHANGED vars
  BY <1>7 DEF vars, historyVars
<1> QED BY <1>2, <1>3, <1>4, <1>5, <1>6, <1>7 DEF Next

\* While nothing enters or leaves a listing, a client that pages to last_page is shown
\* every row of it exactly once, in any order and with any limit.
THEOREM QuietListingIsExact ==
  Spec => []ShownOnce
<1>1. ListingIInv /\ ShownInv => ShownOnce
  <2> SUFFICES ASSUME ListingIInv, ShownInv, pc = "done", entries = 0, leaves = 0
               PROVE  seen = listed /\ repeats = 0
    BY DEF ShownOnce
  <2>1. constant = listed /\ seen \subseteq listed
    BY DEF ShownInv
  <2>2. /\ Cardinality(Again) \in Nat /\ Cardinality(ids \cap seen) \in Nat
        /\ repeats \in Nat /\ constant \ seen \in SUBSET Row
    BY Sets DEF ListingIInv, ListingTypeOK
  <2>3. repeats = 0
    BY <2>2 DEF ListingIInv
  <2>4. Cardinality(constant \ seen) <= 0
    BY DEF ListingIInv, MissedExplained
  <2>5. constant \ seen = {}
    BY <2>2, <2>4, Card
  <2> QED BY <2>1, <2>3, <2>5
<1>2. Spec => []ShownInv
  BY ShownInit, ShownStep, ListingInvariant, PTL DEF Spec
<1> QED
  BY <1>1, <1>2, ListingInvariant, PTL
=============================================================================
