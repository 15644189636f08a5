---------------------------- MODULE InvoiceProofs ----------------------------
(***************************************************************************)
(* What stands on an invoice and on the lines of its booking.  Sums over   *)
(* sets are induced over by the least counterexample.                      *)
(***************************************************************************)
EXTENDS ReservationProofs, WellFoundedInduction

-----------------------------------------------------------------------------
(* Sums over finite sets. *)

\* A set of naturals has a least element.
LEMMA LeastElement ==
  ASSUME NEW T \in SUBSET Nat, T # {}
  PROVE  \E n \in T : \A m \in T : n <= m
<1> DEFINE R == {ss \in Nat \X Nat : ss[1] < ss[2]}
<1>1. IsWellFoundedOn(R, Nat)
  BY NatLessThanWellFounded DEF OpToRel
<1>2. \A y, x \in Nat : y < x => <<y, x>> \in R
  <2> SUFFICES ASSUME NEW y \in Nat, NEW x \in Nat, y < x PROVE <<y, x>> \in R
    OBVIOUS
  <2> DEFINE p == <<y, x>>
  <2>1. p \in Nat \X Nat /\ p[1] < p[2]
    OBVIOUS
  <2> QED BY <2>1
<1> HIDE DEF R
<1>3. PICK x \in T : \A y \in T : <<y, x>> \notin R
  BY <1>1, WFMin
<1>4. \A y \in T : x <= y
  <2>1. \A y \in T : ~(y < x)
    BY <1>2, <1>3
  <2> QED BY <2>1
<1> QED BY <1>4

\* The recursion of MapThenSumSet, over a set D of sets.
Pick(s) == CHOOSE x \in s : TRUE

IsSum(g, F, D) == g = [s \in D |-> IF s = {} THEN 0 ELSE F[Pick(s)] + g[s \ {Pick(s)}]]

UpTo(S, n) == {s \in SUBSET S : Cardinality(s) <= n}

\* What it takes away makes a smaller set.
LEMMA Smaller ==
  ASSUME NEW S, IsFiniteSet(S), NEW s \in SUBSET S
  PROVE  /\ IsFiniteSet(s) /\ Cardinality(s) \in Nat /\ Cardinality(s) <= Cardinality(S)
         /\ Cardinality(s) = 0 <=> s = {}
         /\ s # {} => /\ Pick(s) \in s
                      /\ Cardinality(s \ {Pick(s)}) = Cardinality(s) - 1
<1>1. /\ IsFiniteSet(s) /\ Cardinality(s) \in Nat /\ Cardinality(s) <= Cardinality(S)
      /\ Cardinality(s) = 0 <=> s = {}
  BY FS_Subset, FS_CardinalityType, FS_EmptySet
<1>2. s # {} => Pick(s) \in s
  BY DEF Pick
<1> QED BY <1>1, <1>2, FS_RemoveElement

\* The recursion defines a function on the subsets of a finite set.
LEMMA SumDefined ==
  ASSUME NEW S, IsFiniteSet(S), NEW F
  PROVE  \E g : IsSum(g, F, SUBSET S)
<1> DEFINE T == {n \in Nat : ~\E g : IsSum(g, F, UpTo(S, n))}
<1>1. T = {}
  <2> SUFFICES ASSUME T # {} PROVE FALSE
    OBVIOUS
  <2>1. PICK n \in T : \A m \in T : n <= m
    BY LeastElement
  <2>2. CASE n = 0
    <3>1. IsSum([s \in UpTo(S, 0) |-> 0], F, UpTo(S, 0))
      BY Smaller DEF IsSum, UpTo
    <3> QED BY <2>1, <2>2, <3>1
  <2>3. CASE n # 0
    <3>1. n - 1 \in Nat /\ n - 1 \notin T
      BY <2>1, <2>3
    <3>2. PICK h : IsSum(h, F, UpTo(S, n - 1))
      BY <3>1
    <3> DEFINE g == [s \in UpTo(S, n) |->
                       IF s = {} THEN 0 ELSE F[Pick(s)] + h[s \ {Pick(s)}]]
    <3>3. ASSUME NEW s \in UpTo(S, n), s # {}
          PROVE  g[s \ {Pick(s)}] = h[s \ {Pick(s)}]
      <4> DEFINE u == s \ {Pick(s)}
      <4>1. u \in UpTo(S, n - 1) /\ u \in UpTo(S, n)
        BY <3>3, Smaller DEF UpTo
      <4> HIDE DEF u
      <4>2. h[u] = IF u = {} THEN 0 ELSE F[Pick(u)] + h[u \ {Pick(u)}]
        BY <3>2, <4>1 DEF IsSum
      <4>3. g[u] = IF u = {} THEN 0 ELSE F[Pick(u)] + h[u \ {Pick(u)}]
        BY <4>1
      <4> QED BY <4>2, <4>3 DEF u
    <3>4. IsSum(g, F, UpTo(S, n))
      BY <3>3 DEF IsSum
    <3> QED BY <2>1, <3>4
  <2> QED BY <2>2, <2>3
<1>2. \A n \in Nat : \E g : IsSum(g, F, UpTo(S, n))
  BY <1>1
<1>3. UpTo(S, Cardinality(S)) = SUBSET S /\ Cardinality(S) \in Nat
  BY Smaller DEF UpTo
<1> HIDE DEF T
<1>4. \E g : IsSum(g, F, UpTo(S, Cardinality(S)))
  BY <1>2, <1>3
<1> QED BY <1>3, <1>4

\* The sums of createBooking: of prices, of prices for some nights, of prices for the
\* quantities stored and for those asked for.
PerNight(rooms)         == MapThenSumSet(LAMBDA l : l.price, rooms)
ForNights(rooms, n)     == MapThenSumSet(LAMBDA m : m.price * n, rooms)
ForServices(lines)      == MapThenSumSet(LAMBDA l : l.price * l.quantity, lines)
Asked(lines, i, found)  == MapThenSumSet(LAMBDA l : l.price * QuantityOf(i, found, l.service), lines)

LEMMA PerNightIsSum ==
  ASSUME NEW S, IsFiniteSet(S)
  PROVE  \E g : IsSum(g, [l \in S |-> l.price], SUBSET S) /\ PerNight(S) = g[S]
<1> DEFINE Of(g) == g = [s \in SUBSET S |->
                           IF s = {} THEN 0 ELSE Pick(s).price + g[s \ {Pick(s)}]]
<1>1. \A g : IsSum(g, [l \in S |-> l.price], SUBSET S) <=> Of(g)
  BY DEF IsSum, Pick
<1>2. \E g : Of(g)
  BY <1>1, SumDefined
<1>3. Of(CHOOSE g : Of(g))
  BY <1>2
<1>4. PerNight(S) = (CHOOSE g : Of(g))[S]
  BY DEF PerNight, MapThenSumSet, MapThenFoldSet, Pick
<1> QED BY <1>1, <1>3, <1>4

LEMMA ForNightsIsSum ==
  ASSUME NEW S, IsFiniteSet(S), NEW n
  PROVE  \E g : IsSum(g, [l \in S |-> l.price * n], SUBSET S) /\ ForNights(S, n) = g[S]
<1> DEFINE Of(g) == g = [s \in SUBSET S |->
                           IF s = {} THEN 0 ELSE Pick(s).price * n + g[s \ {Pick(s)}]]
<1>1. \A g : IsSum(g, [l \in S |-> l.price * n], SUBSET S) <=> Of(g)
  BY DEF IsSum, Pick
<1>2. \E g : Of(g)
  BY <1>1, SumDefined
<1>3. Of(CHOOSE g : Of(g))
  BY <1>2
<1>4. ForNights(S, n) = (CHOOSE g : Of(g))[S]
  BY DEF ForNights, MapThenSumSet, MapThenFoldSet, Pick
<1> QED BY <1>1, <1>3, <1>4

LEMMA ForServicesIsSum ==
  ASSUME NEW S, IsFiniteSet(S)
  PROVE  \E g : IsSum(g, [l \in S |-> l.price * l.quantity], SUBSET S) /\ ForServices(S) = g[S]
<1> DEFINE Of(g) == g = [s \in SUBSET S |->
                           IF s = {} THEN 0
                           ELSE Pick(s).price * Pick(s).quantity + g[s \ {Pick(s)}]]
<1>1. \A g : IsSum(g, [l \in S |-> l.price * l.quantity], SUBSET S) <=> Of(g)
  BY DEF IsSum, Pick
<1>2. \E g : Of(g)
  BY <1>1, SumDefined
<1>3. Of(CHOOSE g : Of(g))
  BY <1>2
<1>4. ForServices(S) = (CHOOSE g : Of(g))[S]
  BY DEF ForServices, MapThenSumSet, MapThenFoldSet, Pick
<1> QED BY <1>1, <1>3, <1>4

LEMMA AskedIsSum ==
  ASSUME NEW S, IsFiniteSet(S), NEW i, NEW found
  PROVE  \E g : /\ IsSum(g, [l \in S |-> l.price * QuantityOf(i, found, l.service)], SUBSET S)
                /\ Asked(S, i, found) = g[S]
<1> DEFINE Of(g) == g = [s \in SUBSET S |->
                           IF s = {} THEN 0
                           ELSE Pick(s).price * QuantityOf(i, found, Pick(s).service)
                                  + g[s \ {Pick(s)}]]
<1>1. \A g : IsSum(g, [l \in S |-> l.price * QuantityOf(i, found, l.service)], SUBSET S) <=> Of(g)
  BY DEF IsSum, Pick
<1>2. \E g : Of(g)
  BY <1>1, SumDefined
<1>3. Of(CHOOSE g : Of(g))
  BY <1>2
<1>4. Asked(S, i, found) = (CHOOSE g : Of(g))[S]
  BY DEF Asked, MapThenSumSet, MapThenFoldSet, Pick
<1> QED BY <1>1, <1>3, <1>4

\* The price of the rooms for n nights is n times their price for one.
LEMMA Distributes ==
  ASSUME NEW S, IsFiniteSet(S), \A l \in S : l.price \in Nat, NEW n \in Nat
  PROVE  ForNights(S, n) = n * PerNight(S) /\ n * PerNight(S) \in Nat
<1>1. PICK g : IsSum(g, [l \in S |-> l.price], SUBSET S) /\ PerNight(S) = g[S]
  BY PerNightIsSum
<1>2. PICK h : IsSum(h, [l \in S |-> l.price * n], SUBSET S) /\ ForNights(S, n) = h[S]
  BY ForNightsIsSum
<1> DEFINE Good(s) == g[s] \in Nat /\ h[s] = n * g[s]
           T == {k \in Nat : \E s \in SUBSET S : Cardinality(s) = k /\ ~Good(s)}
<1>3. ASSUME NEW s \in SUBSET S
      PROVE  /\ g[s] = IF s = {} THEN 0 ELSE Pick(s).price + g[s \ {Pick(s)}]
             /\ h[s] = IF s = {} THEN 0 ELSE Pick(s).price * n + h[s \ {Pick(s)}]
  <2>1. s # {} => Pick(s) \in S
    BY Smaller
  <2> QED BY <1>1, <1>2, <2>1 DEF IsSum
<1>4. T = {}
  <2> SUFFICES ASSUME T # {} PROVE FALSE
    OBVIOUS
  <2>1. PICK k \in T : \A m \in T : k <= m
    BY LeastElement
  <2>2. PICK s \in SUBSET S : Cardinality(s) = k /\ ~Good(s)
    BY <2>1
  <2>3. s # {}
    <3>1. s = {} => g[s] = 0 /\ h[s] = 0
      BY <1>3
    <3>2. n * 0 = 0
      OBVIOUS
    <3> QED BY <2>2, <3>1, <3>2
  <2> DEFINE u == s \ {Pick(s)}
  <2>4. Good(u)
    <3>1. u \in SUBSET S /\ Cardinality(u) = k - 1 /\ k - 1 \in Nat
      BY <2>1, <2>2, <2>3, Smaller
    <3> QED BY <2>1, <3>1
  <2>5. Pick(s).price \in Nat
    BY <2>3, Smaller
  <2>6. g[s] = Pick(s).price + g[u] /\ h[s] = Pick(s).price * n + h[u]
    BY <1>3, <2>3
  <2> HIDE DEF u
  <2> DEFINE p == Pick(s).price  a == g[u]
  <2>7. p \in Nat /\ a \in Nat /\ g[s] = p + a /\ h[s] = p * n + n * a
    BY <2>4, <2>5, <2>6
  <2> HIDE DEF p, a
  <2>8. p * n + n * a = n * (p + a) /\ p + a \in Nat
    BY <2>7
  <2> QED BY <2>2, <2>7, <2>8
<1>5. Good(S)
  BY <1>4, Smaller
<1> QED BY <1>1, <1>2, <1>5

\* A product is off by at most so many times its factor.
LEMMA Scaled ==
  ASSUME NEW p \in Nat, NEW e \in Nat, NEW d \in -e .. e
  PROVE  p * d \in -(e * p) .. e * p
<1>1. d \in Int /\ -e <= d /\ d <= e
  OBVIOUS
<1>2. p * d \in Int /\ p * e \in Int /\ e * p = p * e
  BY <1>1
<1>3. p * (e - d) >= 0 /\ p * (e + d) >= 0
  <2>1. e - d \in Nat /\ e + d \in Nat
    BY <1>1
  <2> QED BY <2>1
<1>4. p * (e - d) = p * e - p * d /\ p * (e + d) = p * e + p * d
  BY <1>1
<1> QED BY <1>2, <1>3, <1>4

\* One more line, of price p, of which x are stored and y parts were asked for, where
\* the others come to a, b and c.
LEMMA OneMoreLine ==
  ASSUME NEW p \in Nat, NEW x \in Nat, NEW y \in Nat, NEW e \in Nat,
         NEW a \in Nat, NEW b \in Nat, NEW c \in Nat,
         2 * (Parts * x - y) \in -e .. e,
         2 * (Parts * a - b) \in -(e * c) .. e * c
  PROVE  2 * (Parts * (p * x + a) - (p * y + b)) \in -(e * (p + c)) .. e * (p + c)
<1> DEFINE d == 2 * (Parts * x - y)
           f == 2 * (Parts * a - b)
<1>1. Parts \in Nat
  BY PartsAssumption
<1>2. p * d \in -(e * p) .. e * p
  BY Scaled
<1>3. 2 * (Parts * (p * x + a) - (p * y + b)) = p * d + f
  BY <1>1
<1>4. e * (p + c) = e * p + e * c /\ e * p \in Nat /\ e * c \in Nat
  OBVIOUS
<1>5. d \in Int /\ f \in Int /\ f \in -(e * c) .. e * c
  BY <1>1
<1> HIDE DEF d, f
<1>6. p * d + f \in -(e * p + e * c) .. (e * p + e * c)
  BY <1>2, <1>4, <1>5
<1> QED BY <1>3, <1>4, <1>6

\* If every line stores what was asked for up to e of 2 * Parts, the lines come to what
\* was asked for up to e times their prices.
LEMMA LinesNearAsked ==
  ASSUME NEW S, IsFiniteSet(S), NEW i \in Dto, NEW found, NEW e \in Nat,
         \A l \in S : /\ l.price \in Nat /\ l.quantity \in Nat
                      /\ 2 * (Parts * l.quantity - QuantityOf(i, found, l.service)) \in -e .. e
  PROVE  /\ PerNight(S) \in Nat /\ ForServices(S) \in Nat /\ Asked(S, i, found) \in Nat
         /\ 2 * (Parts * ForServices(S) - Asked(S, i, found)) \in -(e * PerNight(S)) .. e * PerNight(S)
<1> DEFINE Y(l) == QuantityOf(i, found, l.service)
<1>1. PICK f : IsSum(f, [l \in S |-> l.price], SUBSET S) /\ PerNight(S) = f[S]
  BY PerNightIsSum
<1>2. PICK g : IsSum(g, [l \in S |-> l.price * l.quantity], SUBSET S) /\ ForServices(S) = g[S]
  BY ForServicesIsSum
<1>3. PICK h : IsSum(h, [l \in S |-> l.price * Y(l)], SUBSET S) /\ Asked(S, i, found) = h[S]
  BY AskedIsSum
<1> DEFINE Good(s) == /\ f[s] \in Nat /\ g[s] \in Nat /\ h[s] \in Nat
                      /\ 2 * (Parts * g[s] - h[s]) \in -(e * f[s]) .. e * f[s]
           T == {k \in Nat : \E s \in SUBSET S : Cardinality(s) = k /\ ~Good(s)}
<1>4. \A l \in S : Y(l) \in Nat
  <2>1. \A s : QuantityOf(i, found, s) \in Nat
    BY QuantityType
  <2> QED BY <2>1
<1> HIDE DEF Y
<1>5. ASSUME NEW s \in SUBSET S
      PROVE  /\ f[s] = IF s = {} THEN 0 ELSE Pick(s).price + f[s \ {Pick(s)}]
             /\ g[s] = IF s = {} THEN 0 ELSE Pick(s).price * Pick(s).quantity + g[s \ {Pick(s)}]
             /\ h[s] = IF s = {} THEN 0 ELSE Pick(s).price * Y(Pick(s)) + h[s \ {Pick(s)}]
  <2>1. s # {} => Pick(s) \in S
    BY Smaller
  <2> QED BY <1>1, <1>2, <1>3, <2>1 DEF IsSum
<1>6. T = {}
  <2> SUFFICES ASSUME T # {} PROVE FALSE
    OBVIOUS
  <2>1. PICK k \in T : \A m \in T : k <= m
    BY LeastElement
  <2>2. PICK s \in SUBSET S : Cardinality(s) = k /\ ~Good(s)
    BY <2>1
  <2>3. s # {}
    <3>1. s = {} => f[s] = 0 /\ g[s] = 0 /\ h[s] = 0
      BY <1>5
    <3>2. 2 * (Parts * 0 - 0) \in -(e * 0) .. e * 0
      BY PartsAssumption
    <3> QED BY <2>2, <3>1, <3>2
  <2> DEFINE u == s \ {Pick(s)}
  <2>4. Good(u)
    <3>1. u \in SUBSET S /\ Cardinality(u) = k - 1 /\ k - 1 \in Nat
      BY <2>1, <2>2, <2>3, Smaller
    <3> QED BY <2>1, <3>1
  <2>5. PICK l \in S : l = Pick(s)
    BY <2>3, Smaller
  <2>6. /\ f[s] = l.price + f[u]
        /\ g[s] = l.price * l.quantity + g[u]
        /\ h[s] = l.price * Y(l) + h[u]
    BY <1>5, <2>3, <2>5
  <2> HIDE DEF u
  <2>7. 2 * (Parts * l.quantity - Y(l)) \in -e .. e
    BY DEF Y
  <2> DEFINE p == l.price  x == l.quantity  y == Y(l)  a == g[u]  b == h[u]  c == f[u]
  <2>8. p \in Nat /\ x \in Nat /\ y \in Nat /\ a \in Nat /\ b \in Nat /\ c \in Nat
    BY <1>4, <2>4
  <2>9. /\ 2 * (Parts * x - y) \in -e .. e
         /\ 2 * (Parts * a - b) \in -(e * c) .. e * c
         /\ f[s] = p + c /\ g[s] = p * x + a /\ h[s] = p * y + b
    BY <2>4, <2>6, <2>7
  <2> HIDE DEF p, x, y, a, b, c
  <2>10. 2 * (Parts * (p * x + a) - (p * y + b)) \in -(e * (p + c)) .. e * (p + c)
    BY <2>8, <2>9, OneMoreLine
  <2>11. f[s] \in Nat /\ g[s] \in Nat /\ h[s] \in Nat
    BY <2>8, <2>9
  <2> QED BY <2>2, <2>9, <2>10, <2>11
<1>7. Good(S)
  BY <1>6, Smaller
<1> QED BY <1>1, <1>2, <1>3, <1>7

-----------------------------------------------------------------------------
(* The invoice. *)

\* The total that a call computes, by its sums.
LEMMA TotalIsSums ==
  ASSUME NEW i, NEW rooms, NEW services
  PROVE  TotalPrice(i, rooms, services) =
           ForNights(rooms, Nights(i.start, i.end))
             + Rounded(Asked(ServiceLines(i, services), i, services))
BY DEF TotalPrice, ForNights, Asked, MapThenSumSet, MapThenFoldSet

LEMMA Cancel ==
  ASSUME NEW z \in Int, NEW m \in Int, Parts * z <= Parts * m
  PROVE  z <= m
<1>1. Parts \in Nat /\ Parts > 0
  BY PartsAssumption
<1> SUFFICES ASSUME m < z PROVE FALSE
  OBVIOUS
<1>2. z - m - 1 \in Nat
  OBVIOUS
<1>3. Parts * (z - m - 1) >= 0
  BY <1>1, <1>2
<1>4. Parts * (z - m - 1) = Parts * z - Parts * m - Parts
  BY <1>1
<1> QED BY <1>1, <1>3, <1>4

\* A whole quantity is stored as it is.
LEMMA RoundedWhole ==
  ASSUME NEW k \in Nat
  PROVE  Rounded(Parts * k) = k
<1> DEFINE d == Rounded(Parts * k)
<1>1. Parts \in Nat /\ Parts > 0 /\ Parts * k \in Nat
  BY PartsAssumption
<1>2. d \in Nat /\ 2 * (Parts * d - Parts * k) \in -Parts .. Parts
  BY <1>1, RoundedNearest
<1> HIDE DEF d
<1>3. /\ Parts * (2 * (d - k)) = 2 * (Parts * d - Parts * k)
      /\ Parts * (2 * (k - d)) = -(2 * (Parts * d - Parts * k))
  BY <1>1, <1>2
<1>4. /\ Parts * (2 * (d - k)) <= Parts * 1
      /\ Parts * (2 * (k - d)) <= Parts * 1
  BY <1>1, <1>2, <1>3
<1>5. 2 * (d - k) <= 1 /\ 2 * (k - d) <= 1
  BY <1>2, <1>4, Cancel
<1> QED BY <1>2, <1>5 DEF d

Whole(i) == \A k \in DOMAIN i.quantities : i.quantities[k] % Parts = 0

\* What the invoice charges for the services is what the lines come to, but for the
\* rounding of quantities that are not whole.
LEMMA ServicesAdd ==
  ASSUME NEW i \in Dto, NEW found \in SUBSET FoundService, IsFiniteSet(ServiceLines(i, found)),
         NEW lines, lines = ServiceLines(i, found)
  PROVE  /\ PerNight(lines) \in Nat /\ ForServices(lines) \in Nat
         /\ Rounded(Asked(lines, i, found)) \in Nat
         /\ 2 * (Rounded(Asked(lines, i, found)) - ForServices(lines))
              \in -(PerNight(lines) + 1) .. PerNight(lines) + 1
         /\ Whole(i) => Rounded(Asked(lines, i, found)) = ForServices(lines)
<1>1. \A s : QuantityOf(i, found, s) \in Nat
  BY QuantityType
<1>2. ASSUME NEW l \in lines
      PROVE  /\ l.price \in Nat
             /\ l.quantity = Rounded(QuantityOf(i, found, l.service))
  BY DEF ServiceLines, FoundService
<1>3. Parts \in Nat /\ Parts > 0
  BY PartsAssumption
<1>4. \A l \in lines :
        /\ l.price \in Nat /\ l.quantity \in Nat
        /\ 2 * (Parts * l.quantity - QuantityOf(i, found, l.service)) \in -Parts .. Parts
  BY <1>1, <1>2, RoundedNearest
<1> DEFINE p == PerNight(lines)
           f == ForServices(lines)
           a == Asked(lines, i, found)
           t == Rounded(a)
<1>5. p \in Nat /\ f \in Nat /\ a \in Nat /\ 2 * (Parts * f - a) \in -(Parts * p) .. Parts * p
  BY <1>3, <1>4, LinesNearAsked
<1>6. t \in Nat /\ 2 * (Parts * t - a) \in -Parts .. Parts
  BY <1>5, RoundedNearest
<1>7. ASSUME Whole(i) PROVE t = f
  <2>1. \A s : QuantityOf(i, found, s) % Parts = 0
    BY <1>3, <1>7 DEF Whole, QuantityOf
  <2>2. ASSUME NEW l \in lines
        PROVE  2 * (Parts * l.quantity - QuantityOf(i, found, l.service)) \in -0 .. 0
    <3> DEFINE q == QuantityOf(i, found, l.service)
               k == q \div Parts
    <3>1. q \in Nat /\ q % Parts = 0
      BY <1>1, <2>1
    <3> HIDE DEF q
    <3>2. k \in Nat /\ q = Parts * k
      BY <1>3, <3>1
    <3> HIDE DEF k
    <3>3. l.quantity = k
      BY <1>2, <3>2, RoundedWhole DEF q
    <3> QED BY <1>3, <3>2, <3>3 DEF q
  <2>3. 2 * (Parts * f - a) \in -(0 * p) .. 0 * p
    BY <1>4, <2>2, LinesNearAsked
  <2> HIDE DEF f, a, p
  <2>4. a = Parts * f
    BY <1>3, <1>5, <2>3
  <2> QED BY <1>5, <2>4, RoundedWhole
<1> HIDE DEF p, f, a, t
<1>8. /\ Parts * (2 * (t - f)) = 2 * (Parts * t - a) - 2 * (Parts * f - a)
      /\ Parts * (2 * (f - t)) = 2 * (Parts * f - a) - 2 * (Parts * t - a)
      /\ Parts * (p + 1) = Parts * p + Parts
  BY <1>3, <1>5, <1>6
<1>9. /\ Parts * (2 * (t - f)) <= Parts * (p + 1)
      /\ Parts * (2 * (f - t)) <= Parts * (p + 1)
  <2> DEFINE u == 2 * (Parts * t - a)  v == 2 * (Parts * f - a)  w == Parts * p
  <2>1. u \in -Parts .. Parts /\ v \in -w .. w /\ w \in Nat
    BY <1>3, <1>5, <1>6
  <2> HIDE DEF u, v, w
  <2>2. u - v <= w + Parts /\ v - u <= w + Parts
    BY <1>3, <2>1
  <2> QED BY <1>8, <2>2 DEF u, v, w
<1>10. 2 * (t - f) <= p + 1 /\ 2 * (f - t) <= p + 1
  BY <1>5, <1>6, <1>9, Cancel
<1>11. 2 * (t - f) \in -(p + 1) .. p + 1
  BY <1>5, <1>6, <1>10
<1> QED BY <1>5, <1>6, <1>7, <1>11 DEF p, f, a, t

\* What InvoiceMatchesLines asks of a row b, booked for a request i, and a total t.
Adds(i, b, t) ==
  \E nights \in 1 .. b.end :
    /\ 24 * (nights - 1) < b.end - b.start /\ b.end - b.start <= 24 * nights
    /\ 2 * (t - (nights * PerNight(b.rooms) + ForServices(b.services)))
         \in -(PerNight(b.services) + 1) .. PerNight(b.services) + 1
    /\ Whole(i) => t - (nights * PerNight(b.rooms) + ForServices(b.services)) = 0

LinesAdd == \A r \in Request : Booked(r) => Adds(input[r], booking[r], invoice[r].total)

LEMMA AddsMatches == LinesAdd => InvoiceMatchesLines
BY DEF LinesAdd, Adds, Whole, InvoiceMatchesLines, PerNight, ForServices, MapThenSumSet,
   MapThenFoldSet

\* A stay that began is charged for every night begun.
LEMMA NightsBegun ==
  ASSUME NEW s \in Nat, NEW e \in Nat, s < e
  PROVE  /\ Nights(s, e) \in 1 .. e
         /\ 24 * (Nights(s, e) - 1) < e - s /\ e - s <= 24 * Nights(s, e)
BY DEF Nights

\* An image of a finite set is finite.
LEMMA ImageFinite ==
  ASSUME NEW S, IsFiniteSet(S), NEW f
  PROVE  IsFiniteSet({f[m] : m \in S})
<1> DEFINE T == {f[m] : m \in S}
           g == [m \in S |-> f[m]]
<1>1. g \in [S -> T] /\ \A t \in T : \E m \in S : g[m] = t
  OBVIOUS
<1> HIDE DEF T, g
<1>2. g \in Surjection(S, T)
  BY <1>1 DEF Surjection
<1>3. IsFiniteSet(T)
  BY <1>2, FS_Surjection
<1> QED BY <1>3 DEF T

LEMMA RoomRowsFinite ==
  ASSUME NEW S, IsFiniteSet(S), NEW price
  PROVE  IsFiniteSet({[room |-> m, price |-> price[m]] : m \in S})
<1> DEFINE f == [m \in S |-> [room |-> m, price |-> price[m]]]
<1>1. {[room |-> m, price |-> price[m]] : m \in S} = {f[m] : m \in S}
  OBVIOUS
<1> HIDE DEF f
<1> QED BY <1>1, ImageFinite

LEMMA ServiceRowsFinite ==
  ASSUME NEW S, IsFiniteSet(S), NEW price
  PROVE  IsFiniteSet({[service |-> s, price |-> price[s]] : s \in S})
<1> DEFINE f == [s \in S |-> [service |-> s, price |-> price[s]]]
<1>1. {[service |-> s, price |-> price[s]] : s \in S} = {f[s] : s \in S}
  OBVIOUS
<1> HIDE DEF f
<1> QED BY <1>1, ImageFinite

LEMMA LinesFinite ==
  ASSUME NEW i, NEW found, IsFiniteSet(found)
  PROVE  IsFiniteSet(ServiceLines(i, found))
<1> DEFINE f == [l \in found |-> [service |-> l.service, price |-> l.price,
                                  quantity |-> Rounded(QuantityOf(i, found, l.service))]]
<1>1. ServiceLines(i, found) = {f[l] : l \in found}
  BY DEF ServiceLines
<1> HIDE DEF f
<1> QED BY <1>1, ImageFinite

\* The ids of a request are finitely many.
LEMMA IdsFinite ==
  ASSUME NEW s \in Seq(Nat)
  PROVE  IsFiniteSet(Range(s))
<1>1. PICK n \in Nat : n = Len(s) /\ DOMAIN s = 1 .. n /\ s \in [1 .. n -> Nat]
  <2>1. Len(s) \in Nat /\ DOMAIN s = 1 .. Len(s) /\ s \in [1 .. Len(s) -> Nat]
    OBVIOUS
  <2> QED BY <2>1
<1>2. IsFiniteSet(1 .. n)
  <2>1. 1 \in Int /\ n \in Int
    OBVIOUS
  <2> QED BY <2>1, FS_Interval
<1>3. s \in [1 .. n -> Range(s)] /\ \A t \in Range(s) : \E k \in 1 .. n : s[k] = t
  BY <1>1 DEF Range
<1>4. s \in Surjection(1 .. n, Range(s))
  BY <1>3 DEF Surjection
<1> QED BY <1>2, <1>4, FS_Surjection

RowsRead == \A r \in Request : IsFiniteSet(foundRooms[r]) /\ IsFiniteSet(foundServices[r])

InvoiceInv == IInv /\ LocalInv /\ RowsRead /\ LinesAdd

LEMMA InvoiceInit == Init => InvoiceInv
<1> SUFFICES ASSUME Init PROVE InvoiceInv
  OBVIOUS
<1>1. IInv /\ LocalInv
  BY PromiseInit DEF PromiseInv, SerialInv
<1>2. RowsRead
  BY FS_EmptySet DEF Init, CreateInit, RowsRead
<1>3. LinesAdd
  BY DEF Init, DbInit, NoBooking, Booked, LinesAdd
<1> QED BY <1>1, <1>2, <1>3 DEF InvoiceInv

\* A call reads finitely many rooms and services.
LEMMA RowsReadStep ==
  ASSUME TypeOK, RowsRead, [Next]_vars
  PROVE  RowsRead'
<1> USE DEF TypeOK, CreateTypeOK
<1>1. CASE UNCHANGED <<foundRooms, foundServices>>
  BY <1>1 DEF RowsRead
<1>2. ASSUME NEW r \in Request, FindRooms(r) PROVE RowsRead'
  <2> DEFINE found == Range(input[r].roomIds) \cap roomRows
  <2>1. IsFiniteSet(found)
    <3>1. input[r].roomIds \in Seq(Nat)
      BY DEF Dto
    <3> QED BY <3>1, IdsFinite, FS_Intersection
  <2>2. foundRooms' = [foundRooms EXCEPT ![r] = {[room |-> m, price |-> roomPrice[m]] : m \in found}]
    BY <1>2 DEF FindRooms
  <2>3. UNCHANGED foundServices
    BY <1>2 DEF FindRooms
  <2> HIDE DEF found
  <2>4. IsFiniteSet(foundRooms'[r])
    BY <2>1, <2>2, RoomRowsFinite
  <2> QED BY <2>2, <2>3, <2>4 DEF RowsRead
<1>3. ASSUME NEW r \in Request, FindServices(r) PROVE RowsRead'
  <2> DEFINE found == Range(input[r].serviceIds) \cap serviceRows
  <2>1. IsFiniteSet(found)
    <3>1. input[r].serviceIds \in Seq(Nat)
      BY DEF Dto
    <3> QED BY <3>1, IdsFinite, FS_Intersection
  <2>2. foundServices' = [foundServices EXCEPT ![r] =
                            {[service |-> s, price |-> servicePrice[s]] : s \in found}]
    BY <1>3 DEF FindServices
  <2>3. UNCHANGED foundRooms
    BY <1>3 DEF FindServices
  <2> HIDE DEF found
  <2>4. IsFiniteSet(foundServices'[r])
    BY <2>1, <2>2, ServiceRowsFinite
  <2> QED BY <2>2, <2>3, <2>4 DEF RowsRead
<1>4. CASE Create
  BY <1>1, <1>2, <1>3, <1>4 DEF Create, CreateNext, CreateStep, ReceiveBooking, CheckRooms,
     Commit, Respond
<1>5. CASE Vnpay \/ Answers \/ Administer \/ Tick \/ Crash \/ UNCHANGED vars
  BY <1>1, <1>5 DEF Vnpay, Answers, Administer, Tick, Crash, vars, createVars
<1> QED BY <1>4, <1>5 DEF Next

\* The commit inserts a booking and an invoice that match.
LEMMA CommitAdds ==
  ASSUME InvoiceInv, NEW r \in Request, Commit(r)
  PROVE  LinesAdd'
<1> USE DEF InvoiceInv, IInv, TypeOK, DbTypeOK, CreateTypeOK
<1> DEFINE total == TotalPrice(input[r], foundRooms[r], foundServices[r])
           lines == ServiceLines(input[r], foundServices[r])
           charged == Rounded(Asked(lines, input[r], foundServices[r]))
<1>1. CASE UNCHANGED <<booking, invoice>>
  BY <1>1 DEF Commit, LinesAdd, Adds, Whole, Booked
<1>2. CASE /\ booking' = [booking EXCEPT ![r] = BookingOf(r)]
           /\ invoice' = [invoice EXCEPT ![r] = [status |-> "PENDING", total |-> total]]
  <2>1. PICK n \in 1 .. input[r].end :
          /\ n = Nights(input[r].start, input[r].end)
          /\ 24 * (n - 1) < input[r].end - input[r].start
          /\ input[r].end - input[r].start <= 24 * n
    <3>1. input[r].start \in Nat /\ input[r].end \in Nat /\ input[r].start < input[r].end
      BY DEF Commit, LocalInv, Dto
    <3> QED BY <3>1, NightsBegun
  <2>2. ForNights(foundRooms[r], n) = n * PerNight(foundRooms[r])
        /\ n * PerNight(foundRooms[r]) \in Nat
    <3>1. IsFiniteSet(foundRooms[r]) /\ \A l \in foundRooms[r] : l.price \in Nat
      BY DEF RowsRead, FoundRoom
    <3>2. n \in Nat
      <4>1. input[r].end \in Nat
        BY DEF Dto
      <4> QED BY <4>1, <2>1
    <3> QED BY <3>1, <3>2, Distributes
  <2>3. total = n * PerNight(foundRooms[r]) + charged
    BY <2>1, <2>2, TotalIsSums
  <2>4. /\ booking'[r].start = input[r].start /\ booking'[r].end = input[r].end
        /\ booking'[r].rooms = foundRooms[r] /\ booking'[r].services = lines
        /\ invoice'[r].total = total /\ UNCHANGED input
    BY <1>2 DEF BookingOf, Commit
  <2>5. /\ PerNight(lines) \in Nat /\ ForServices(lines) \in Nat /\ charged \in Nat
        /\ 2 * (charged - ForServices(lines)) \in -(PerNight(lines) + 1) .. PerNight(lines) + 1
        /\ Whole(input[r]) => charged = ForServices(lines)
    <3>1. input[r] \in Dto /\ foundServices[r] \in SUBSET FoundService
          /\ IsFiniteSet(foundServices[r])
      BY DEF RowsRead
    <3> QED BY <3>1, LinesFinite, ServicesAdd
  <2> HIDE DEF total, lines, charged
  <2>6. total - (n * PerNight(foundRooms[r]) + ForServices(lines)) = charged - ForServices(lines)
    BY <2>2, <2>3, <2>5
  <2>7. Adds(input[r], booking'[r], invoice'[r].total)
    <3>1. Whole(input[r]) => charged - ForServices(lines) = 0
      BY <2>5
    <3> QED BY <2>1, <2>4, <2>5, <2>6, <3>1 DEF Adds
  <2>8. \A q \in Request \ {r} : booking'[q] = booking[q] /\ invoice'[q] = invoice[q]
    BY <1>2
  <2> QED BY <2>4, <2>7, <2>8 DEF LinesAdd, Booked, Adds, Whole
<1> QED BY <1>1, <1>2 DEF Commit

\* The input of a call that has booked stays.
LEMMA InputStays ==
  ASSUME IInv, [Next]_vars, NEW q \in Request, Booked(q)
  PROVE  input'[q] = input[q]
<1>1. CASE UNCHANGED input
  BY <1>1
<1>2. ASSUME NEW r \in Request, NEW i \in Input, ReceiveBooking(r, i) PROVE input'[q] = input[q]
  <2>1. q # r
    BY <1>2 DEF ReceiveBooking, IInv, CallInv
  <2> QED BY <1>2, <2>1 DEF ReceiveBooking, IInv, TypeOK, CreateTypeOK
<1>3. CASE Create
  BY <1>1, <1>2, <1>3 DEF Create, CreateNext, CreateStep, FindRooms, FindServices, CheckRooms,
     Commit, Respond
<1>4. CASE Vnpay \/ Answers \/ Administer \/ Tick \/ Crash \/ UNCHANGED vars
  BY <1>1, <1>4 DEF Vnpay, Answers, Administer, Tick, Crash, vars, createVars
<1> QED BY <1>3, <1>4 DEF Next

LEMMA LinesStep ==
  ASSUME InvoiceInv, [Next]_vars
  PROVE  LinesAdd'
<1> USE DEF InvoiceInv, IInv, TypeOK, DbTypeOK
<1>1. CASE \E r \in Request : Commit(r)
  BY <1>1, CommitAdds
<1>2. ASSUME \A q \in Request :
               /\ booking'[q].rooms = booking[q].rooms /\ booking'[q].services = booking[q].services
               /\ booking'[q].start = booking[q].start /\ booking'[q].end = booking[q].end
               /\ invoice'[q].total = invoice[q].total
               /\ Booked(q)' => Booked(q)
      PROVE  LinesAdd'
  <2>1. \A q \in Request : Booked(q) => input'[q] = input[q]
    BY InputStays
  <2> QED BY <1>2, <2>1 DEF LinesAdd, Adds, Whole
<1>3. ASSUME NEW h \in Return, SaveInvoice(h) \/ SaveBooking(h) PROVE LinesAdd'
  <2>1. carries[h].inv \in Request /\ Booked(carries[h].inv)
    BY <1>3, CarriedAnswer DEF SaveInvoice, SaveBooking, ReturnWaiting
  <2>2. \A q \in Request :
          /\ booking'[q].rooms = booking[q].rooms /\ booking'[q].services = booking[q].services
          /\ booking'[q].start = booking[q].start /\ booking'[q].end = booking[q].end
          /\ invoice'[q].total = invoice[q].total
          /\ q # carries[h].inv => booking'[q] = booking[q]
    BY <1>3, <2>1 DEF SaveInvoice, SaveBooking, BookingRow, InvoiceRow
  <2>3. \A q \in Request : Booked(q)' => Booked(q)
    BY <2>1, <2>2 DEF Booked
  <2> QED BY <1>2, <2>2, <2>3
<1>4. CASE UNCHANGED <<booking, invoice>>
  BY <1>2, <1>4 DEF Booked
<1> QED BY <1>1, <1>3, <1>4, WritersOnly

\* Every invoice is what the lines of its booking come to, however the prices change
\* between the read, the computation and the commit: exactly for whole quantities, and
\* otherwise up to half of the prices of the services and half a unit.
THEOREM InvoicesMatch == Spec => []InvoiceMatchesLines
<1>1. InvoiceInv /\ [Next]_vars => InvoiceInv'
  BY InvariantStep, LocalStep, RowsReadStep, LinesStep DEF InvoiceInv, IInv
<1>2. InvoiceInv => InvoiceMatchesLines
  BY AddsMatches DEF InvoiceInv
<1> QED BY <1>1, <1>2, InvoiceInit, PTL DEF Spec

-----------------------------------------------------------------------------
(* The quantities. *)

\* The rows of a request for services, each with its place in the request.
Ascending(ids) == \A k, l \in DOMAIN ids : k < l => ids[k] < ids[l]

OneRowPerService(found, ids) ==
  /\ \A k \in DOMAIN ids : \E f \in found : f.service = ids[k]
  /\ \A f \in found : \E k \in DOMAIN ids : f.service = ids[k]
  /\ \A f, g \in found : f.service = g.service => f = g

\* Where the ids ascend, the place of a service among the rows found is its place in
\* the request.
LEMMA PlaceOfService ==
  ASSUME NEW ids \in Seq(Nat), Ascending(ids), NEW found, OneRowPerService(found, ids),
         NEW k \in DOMAIN ids
  PROVE  Cardinality({f \in found : f.service <= ids[k]}) = k
<1>1. PICK n \in Nat : n = Len(ids) /\ DOMAIN ids = 1 .. n /\ ids \in [1 .. n -> Nat]
  <2>1. Len(ids) \in Nat /\ DOMAIN ids = 1 .. Len(ids) /\ ids \in [1 .. Len(ids) -> Nat]
    OBVIOUS
  <2> QED BY <2>1
<1> DEFINE T == {f \in found : f.service <= ids[k]}
           row == [j \in 1 .. k |-> CHOOSE f \in found : f.service = ids[j]]
<1>2. k \in 1 .. n /\ k \in Nat /\ \A j \in 1 .. k : j \in 1 .. n
  BY <1>1
<1>3. \A j \in 1 .. k : row[j] \in found /\ row[j].service = ids[j]
  BY <1>1, <1>2 DEF OneRowPerService
<1> HIDE DEF row
<1>4. \A j \in 1 .. k : ids[j] <= ids[k]
  <2> SUFFICES ASSUME NEW j \in 1 .. k PROVE ids[j] <= ids[k]
    OBVIOUS
  <2>1. j = k \/ j < k
    BY <1>2
  <2>2. ids[j] \in Nat /\ ids[k] \in Nat
    BY <1>1, <1>2
  <2> QED BY <1>1, <1>2, <2>1, <2>2 DEF Ascending
<1>5. \A j \in 1 .. k : row[j] \in T
  BY <1>3, <1>4
<1>6. \A i, j \in 1 .. k : i # j => row[i] # row[j]
  <2> SUFFICES ASSUME NEW i \in 1 .. k, NEW j \in 1 .. k, i < j PROVE row[i] # row[j]
    BY <1>2
  <2>1. ids[i] < ids[j] /\ ids[i] \in Nat /\ ids[j] \in Nat
    BY <1>1, <1>2 DEF Ascending
  <2> QED BY <1>3, <2>1
<1>7. \A t \in T : \E j \in 1 .. k : row[j] = t
  <2> SUFFICES ASSUME NEW t \in T PROVE \E j \in 1 .. k : row[j] = t
    OBVIOUS
  <2>1. PICK j \in 1 .. n : t.service = ids[j]
    BY <1>1 DEF OneRowPerService
  <2>2. ids[j] <= ids[k] /\ ids[j] \in Nat /\ ids[k] \in Nat
    BY <1>1, <1>2, <2>1
  <2>3. j \in 1 .. k
    <3>1. ~(k < j)
      BY <1>1, <1>2, <2>2 DEF Ascending
    <3> QED BY <1>2, <3>1
  <2>4. row[j] \in found /\ row[j].service = t.service /\ t \in found
    BY <1>3, <2>1, <2>3
  <2>5. row[j] = t
    BY <2>4 DEF OneRowPerService
  <2> QED BY <2>3, <2>5
<1> HIDE DEF T
<1>8. row \in [1 .. k -> T]
  <2>1. row = [j \in 1 .. k |-> row[j]]
    BY DEF row
  <2> QED BY <1>5, <2>1
<1>9. row \in Bijection(1 .. k, T)
  BY <1>6, <1>7, <1>8 DEF Bijection, Injection, Surjection, IsInjective
<1>10. Cardinality(T) = k
  BY <1>2, <1>9, FS_CountingElements DEF ExistsBijection
<1> QED BY <1>10 DEF T

\* What a call holds of its services on the way to the commit.
ServicesRead ==
  \A r \in Request :
    /\ pc[r] \in {"checkRooms", "commit"} /\ input[r].serviceIds # <<>> =>
         OneRowPerService(foundServices[r], input[r].serviceIds)
    /\ pc[r] = "commit" /\ input[r].serviceIds # <<>> =>
         Len(input[r].quantities) = Len(input[r].serviceIds)

QuantityInv == InvoiceInv /\ ServicesRead /\ QuantitiesAsRequested

LEMMA QuantityInit == Init => ServicesRead /\ QuantitiesAsRequested
BY DEF Init, CreateInit, DbInit, ServicesRead, QuantitiesAsRequested, NoBooking, Booked

LEMMA ServicesReadStep ==
  ASSUME TypeOK, ServicesRead, [Next]_vars
  PROVE  ServicesRead'
<1> USE DEF TypeOK, CreateTypeOK
<1>1. ASSUME NEW r \in Request, FindServices(r) PROVE ServicesRead'
  <2> DEFINE ids == input[r].serviceIds
             found == Range(ids) \cap serviceRows
  <2>1. ids \in Seq(Nat)
    BY DEF Dto
  <2>2. /\ foundServices' = [foundServices EXCEPT ![r] =
                               {[service |-> s, price |-> servicePrice[s]] : s \in found}]
        /\ UNCHANGED input
        /\ pc' = [pc EXCEPT ![r] = IF Cardinality(found) # Len(ids) THEN "rejected"
                                   ELSE "checkRooms"]
    BY <1>1 DEF FindServices, Goto
  <2>3. ASSUME pc'[r] = "checkRooms"
        PROVE  OneRowPerService(foundServices'[r], ids)
    <3>1. found = Range(ids)
      BY <2>1, <2>2, <2>3, OneRowPerId
    <3>2. foundServices'[r] = {[service |-> s, price |-> servicePrice[s]] : s \in Range(ids)}
      BY <2>2, <3>1
    <3> HIDE DEF ids, found
    <3>3. ASSUME NEW k \in DOMAIN ids
          PROVE  \E f \in foundServices'[r] : f.service = ids[k]
      <4>1. ids[k] \in Range(ids)
        BY DEF Range
      <4>2. [service |-> ids[k], price |-> servicePrice[ids[k]]] \in foundServices'[r]
        BY <3>2, <4>1
      <4>3. [service |-> ids[k], price |-> servicePrice[ids[k]]].service = ids[k]
        OBVIOUS
      <4> QED BY <4>2, <4>3
    <3>4. \A f \in foundServices'[r] :
            /\ f.service \in Range(ids)
            /\ f = [service |-> f.service, price |-> servicePrice[f.service]]
      BY <3>2
    <3>5. \A f \in foundServices'[r] : \E k \in DOMAIN ids : f.service = ids[k]
      BY <3>4 DEF Range
    <3>6. \A f, g \in foundServices'[r] : f.service = g.service => f = g
      BY <3>4
    <3> QED BY <3>3, <3>5, <3>6 DEF OneRowPerService
  <2> HIDE DEF found
  <2>4. pc'[r] \in {"rejected", "checkRooms"}
        /\ \A q \in Request \ {r} : pc'[q] = pc[q] /\ foundServices'[q] = foundServices[q]
    BY <2>2
  <2> QED BY <2>2, <2>3, <2>4 DEF ServicesRead
<1>2. ASSUME NEW r \in Request, NEW i \in Input, ReceiveBooking(r, i) PROVE ServicesRead'
  <2>1. /\ pc'[r] \in {"rejected", "findRooms"} /\ UNCHANGED foundServices
        /\ \A q \in Request \ {r} : pc'[q] = pc[q] /\ input'[q] = input[q]
    BY <1>2 DEF ReceiveBooking, Goto
  <2> QED BY <2>1 DEF ServicesRead
<1>3. ASSUME NEW r \in Request, FindRooms(r) PROVE ServicesRead'
  <2>1. /\ pc'[r] \in {"rejected", "findServices", "checkRooms"}
        /\ pc'[r] = "checkRooms" => input[r].serviceIds = <<>>
        /\ UNCHANGED <<input, foundServices>>
        /\ \A q \in Request \ {r} : pc'[q] = pc[q]
    BY <1>3 DEF FindRooms, Goto
  <2> QED BY <2>1 DEF ServicesRead
<1>4. ASSUME NEW r \in Request, CheckRooms(r) PROVE ServicesRead'
  <2>1. /\ pc[r] = "checkRooms" /\ pc'[r] \in {"rejected", "commit"}
        /\ pc'[r] = "commit" /\ input[r].serviceIds # <<>> =>
             Len(input[r].quantities) = Len(input[r].serviceIds)
        /\ UNCHANGED <<input, foundServices>>
        /\ \A q \in Request \ {r} : pc'[q] = pc[q]
    BY <1>4 DEF CheckRooms, Goto
  <2> QED BY <2>1 DEF ServicesRead
<1>5. ASSUME NEW r \in Request, Commit(r) \/ Respond(r) PROVE ServicesRead'
  <2>1. /\ pc'[r] \notin {"checkRooms", "commit"} /\ UNCHANGED <<input, foundServices>>
        /\ \A q \in Request \ {r} : pc'[q] = pc[q]
    BY <1>5 DEF Commit, Respond, Goto
  <2> QED BY <2>1 DEF ServicesRead
<1>6. CASE Create
  BY <1>1, <1>2, <1>3, <1>4, <1>5, <1>6 DEF Create, CreateNext, CreateStep
<1>7. CASE Crash
  BY <1>7 DEF Crash, ServicesRead
<1>8. CASE Vnpay \/ Answers \/ Administer \/ Tick \/ UNCHANGED vars
  <2>1. UNCHANGED <<pc, input, foundServices>>
    BY <1>8 DEF Vnpay, Answers, Administer, Tick, vars, createVars
  <2> QED BY <2>1 DEF ServicesRead
<1> QED BY <1>6, <1>7, <1>8 DEF Next

\* The commit stores the quantities of a request whose ids ascend.
LEMMA CommitQuantities ==
  ASSUME \A i \in Input : Ascending(i.serviceIds), QuantityInv, NEW r \in Request, Commit(r)
  PROVE  QuantitiesAsRequested'
<1> USE DEF QuantityInv, InvoiceInv, IInv, TypeOK, DbTypeOK, CreateTypeOK
<1>1. /\ UNCHANGED input
      /\ \A q \in Request \ {r} : booking'[q] = booking[q]
      /\ booking'[r] \in {booking[r], BookingOf(r)}
  BY DEF Commit
<1>2. ASSUME booking'[r] = BookingOf(r), NEW k \in DOMAIN input[r].serviceIds
      PROVE  \E l \in booking'[r].services :
               l.service = input[r].serviceIds[k] /\ l.quantity = Rounded(input[r].quantities[k])
  <2> DEFINE ids == input[r].serviceIds
             found == foundServices[r]
  <2>1. ids \in Seq(Nat) /\ input[r].quantities \in Seq(Nat) /\ ids # <<>>
    BY <1>2 DEF Dto
  <2>2. Ascending(ids)
    BY DEF Commit, LocalInv, Waiting
  <2>3. OneRowPerService(found, ids) /\ Len(input[r].quantities) = Len(ids)
    BY <2>1 DEF Commit, ServicesRead
  <2>4. k \in DOMAIN ids /\ k \in DOMAIN input[r].quantities
    BY <1>2, <2>1, <2>3
  <2>5. PICK f \in found : f.service = ids[k]
    BY <2>3, <2>4 DEF OneRowPerService
  <2>6. QuantityOf(input[r], found, f.service) = input[r].quantities[k]
    <3>1. Cardinality({g \in found : g.service <= f.service}) = k
      BY <2>1, <2>2, <2>3, <2>4, <2>5, PlaceOfService
    <3> QED BY <2>4, <3>1 DEF QuantityOf
  <2> DEFINE l == [service |-> f.service, price |-> f.price,
                   quantity |-> Rounded(QuantityOf(input[r], found, f.service))]
  <2>7. l \in ServiceLines(input[r], found)
    BY DEF ServiceLines
  <2>8. booking'[r].services = ServiceLines(input[r], found)
    BY <1>2 DEF BookingOf
  <2>9. l.service = ids[k] /\ l.quantity = Rounded(input[r].quantities[k])
    BY <2>5, <2>6
  <2> HIDE DEF l
  <2> QED BY <2>7, <2>8, <2>9
<1>3. ASSUME booking'[r] = booking[r] PROVE QuantitiesAsRequested'
  BY <1>1, <1>3 DEF QuantitiesAsRequested, Booked
<1>4. ASSUME booking'[r] = BookingOf(r) PROVE QuantitiesAsRequested'
  <2>1. \A k \in DOMAIN input[r].serviceIds : \E l \in booking'[r].services :
          l.service = input[r].serviceIds[k] /\ l.quantity = Rounded(input[r].quantities[k])
    BY <1>2, <1>4
  <2> QED BY <1>1, <2>1 DEF QuantitiesAsRequested, Booked
<1> QED BY <1>1, <1>3, <1>4

LEMMA QuantityStep ==
  ASSUME \A i \in Input : Ascending(i.serviceIds), QuantityInv, [Next]_vars
  PROVE  QuantitiesAsRequested'
<1> USE DEF QuantityInv, InvoiceInv, IInv, TypeOK, DbTypeOK, CreateTypeOK
<1>1. CASE \E r \in Request : Commit(r)
  BY <1>1, CommitQuantities
<1>2. ASSUME NEW r \in Request, NEW i \in Input, ReceiveBooking(r, i) PROVE QuantitiesAsRequested'
  <2>1. ~Booked(r) /\ UNCHANGED booking /\ \A q \in Request \ {r} : input'[q] = input[q]
    BY <1>2 DEF ReceiveBooking, CallInv, dbVars
  <2> QED BY <2>1 DEF QuantitiesAsRequested, Booked
<1>3. ASSUME NEW h \in Return, SaveBooking(h), UNCHANGED input PROVE QuantitiesAsRequested'
  <2>1. carries[h].inv \in Request /\ Booked(carries[h].inv) /\ UNCHANGED input
    BY <1>3, CarriedAnswer DEF SaveBooking, ReturnWaiting
  <2>2. \A q \in Request :
          /\ booking'[q].services = booking[q].services
          /\ q # carries[h].inv => booking'[q] = booking[q]
    BY <1>3, <2>1 DEF SaveBooking, BookingRow
  <2>3. \A q \in Request : Booked(q)' => Booked(q)
    BY <2>1, <2>2 DEF Booked
  <2> QED BY <2>1, <2>2, <2>3 DEF QuantitiesAsRequested
<1>4. ASSUME UNCHANGED <<booking, input>> PROVE QuantitiesAsRequested'
  BY <1>4 DEF QuantitiesAsRequested, Booked
<1>5. CASE Create
  BY <1>1, <1>2, <1>4, <1>5 DEF Create, CreateNext, CreateStep, FindRooms, FindServices,
     CheckRooms, Respond, dbVars
<1>6. CASE Answers
  <2>1. UNCHANGED input
    BY <1>6 DEF Answers, createVars
  <2>2. CASE \E h \in Return : SaveBooking(h)
    BY <1>3, <2>1, <2>2
  <2>3. CASE ~\E h \in Return : SaveBooking(h)
    BY <1>4, <1>6, <2>1, <2>3 DEF Answers, ReturnNext, ReturnStep, ReceiveReturn, ReadInvoice,
       SaveInvoice, Enqueue, dbVars
  <2> QED BY <2>2, <2>3
<1>7. CASE Vnpay \/ Administer \/ Tick \/ Crash \/ UNCHANGED vars
  <2>1. UNCHANGED <<booking, input>>
    BY <1>7 DEF Vnpay, VnpayNext, VnpaySigns, Administer, AdminNext, AdminStep, AdminBegins,
       BeginUpdateRoom, BeginDeleteRoom, BeginUpdateService, BeginDeleteService, Begin, UpdateRoom,
       DeleteRoom, UpdateService, CheckRelated, DeleteService, Tick, Crash, vars, dbVars, createVars
  <2> QED BY <1>4, <2>1
<1> QED BY <1>5, <1>6, <1>7 DEF Next

\* A request that lists its services by ascending id is booked in the quantities it
\* asks for, as far as their column can hold them.  The run `quantities` shows that another order mixes them up.
THEOREM AscendingServicesGetTheirQuantities ==
  ASSUME \A i \in Input : Ascending(i.serviceIds)
  PROVE  Spec => []QuantitiesAsRequested
<1>1. QuantityInv /\ [Next]_vars => QuantityInv'
  BY InvariantStep, LocalStep, RowsReadStep, LinesStep, ServicesReadStep, QuantityStep
     DEF QuantityInv, InvoiceInv, IInv
<1>2. QuantityInv => QuantitiesAsRequested
  BY DEF QuantityInv
<1>3. Init => QuantityInv
  BY InvoiceInit, QuantityInit DEF QuantityInv
<1> QED BY <1>1, <1>2, <1>3, PTL DEF Spec
=============================================================================
