----------------------------- MODULE MoneyProofs ------------------------------
(***************************************************************************)
(* Theorems about Money, for every length of the significand, in           *)
(* particular for the 53 bits of the code's numbers, which are out of      *)
(* TLC's reach.                                                            *)
(*                                                                         *)
(* A rounding changes a number by one part in 2 * Least at most.  So an    *)
(* amount of fewer than Least cents is read back to the cent, and there is *)
(* room for the two roundings between a price and its cents as well.       *)
(***************************************************************************)
EXTENDS Money, FiniteSetTheorems, TLAPS

-----------------------------------------------------------------------------
(* Powers of two, and the least of a set of numbers. *)

(* There are 2^n sets of n numbers, so 2^n is a number, and not 0.         *)
LEMMA PowerType == ASSUME NEW n \in Nat PROVE 2^n \in Nat \ {0}
<1>1. IsFiniteSet(1..n) /\ Cardinality(1..n) = n
  BY FS_Interval
<1>2. IsFiniteSet(SUBSET (1..n)) /\ Cardinality(SUBSET (1..n)) = 2^n
  BY <1>1, FS_SUBSET
<1>3. Cardinality(SUBSET (1..n)) \in Nat
  BY <1>2, FS_CardinalityType
<1>4. SUBSET (1..n) # {}
  OBVIOUS
<1>5. Cardinality(SUBSET (1..n)) # 0
  BY <1>2, <1>4, FS_EmptySet
<1> QED
  BY <1>2, <1>3, <1>5

(* Each of them is there with and without one more number.                 *)
LEMMA PowerDoubles == ASSUME NEW n \in Nat PROVE 2^(n + 1) = 2 * 2^n
<1> DEFINE Old == SUBSET (1..n)
           New == {s \union {n + 1} : s \in Old}
           All == SUBSET (1..(n + 1))
<1>1. /\ IsFiniteSet(Old) /\ Cardinality(Old) = 2^n
      /\ IsFiniteSet(All) /\ Cardinality(All) = 2^(n + 1)
  <2>1. /\ IsFiniteSet(1..n) /\ Cardinality(1..n) = n
        /\ IsFiniteSet(1..(n + 1)) /\ Cardinality(1..(n + 1)) = n + 1
    BY FS_Interval
  <2> QED
    BY <2>1, FS_SUBSET
<1>2. All = Old \union New
  <2>1. ASSUME NEW s \in All PROVE s \in Old \union New
    <3>1. CASE n + 1 \in s
      <4>1. s \ {n + 1} \in Old /\ s = (s \ {n + 1}) \union {n + 1}
        BY <3>1
      <4> QED
        BY <4>1
    <3>2. CASE n + 1 \notin s
      BY <3>2
    <3> QED
      BY <3>1, <3>2
  <2>2. Old \subseteq All /\ New \subseteq All
    <3>1. 1..n \subseteq 1..(n + 1) /\ n + 1 \in 1..(n + 1)
      OBVIOUS
    <3> QED
      BY <3>1
  <2> QED
    BY <2>1, <2>2
<1>3. Old \intersect New = {}
  <2>1. n + 1 \notin 1..n
    OBVIOUS
  <2> QED
    BY <2>1
<1>4. ExistsBijection(Old, New)
  <2> DEFINE f == [s \in Old |-> s \union {n + 1}]
  <2>1. f \in [Old -> New] /\ \A t \in New : \E s \in Old : f[s] = t
    OBVIOUS
  <2>2. ASSUME NEW s \in Old, NEW t \in Old, f[s] = f[t] PROVE s = t
    <3>1. n + 1 \notin s /\ n + 1 \notin t
      OBVIOUS
    <3> QED
      BY <2>2, <3>1
  <2> HIDE DEF f, Old, New
  <2> QED
    BY <2>1, <2>2 DEF ExistsBijection, Bijection, Injection, Surjection, IsInjective
<1> HIDE DEF Old, New, All
<1>5. IsFiniteSet(New) /\ Cardinality(New) = 2^n
  BY <1>1, <1>4, FS_Bijection
<1>6. Cardinality(Old \union New) =
          Cardinality(Old) + Cardinality(New) - Cardinality(Old \intersect New)
  BY <1>1, <1>5, FS_Union
<1>7. Cardinality(Old \intersect New) = 0
  BY <1>3, FS_EmptySet
<1>8. 2^n \in Nat /\ 2^(n + 1) \in Nat
  BY PowerType
<1> QED
  BY <1>1, <1>2, <1>5, <1>6, <1>7, <1>8

(* A set of numbers has a least one: 0..m for it is the smallest of the    *)
(* intervals 0..n for the others.                                          *)
LEMMA LeastNumber ==
    ASSUME NEW S \in SUBSET Nat, S # {}
    PROVE  \E m \in S : \A n \in S : m <= n
<1> DEFINE Below == {0..n : n \in S}
<1>1. Below \subseteq FiniteSubsetsOf(Nat) /\ Below # {}
  <2>1. \A n \in S : IsFiniteSet(0..n) /\ 0..n \subseteq Nat
    BY FS_Interval
  <2> QED
    BY <2>1 DEF FiniteSubsetsOf
<1> HIDE DEF Below
<1>2. PICK least \in Below :
          \A other \in Below : <<other, least>> \notin StrictSubsetOrdering(Nat)
  BY <1>1, FS_StrictSubsetOrderingWellFounded, WFMin
<1>3. PICK m \in S : least = 0..m
  BY DEF Below
<1>4. ASSUME NEW n \in S, n < m PROVE FALSE
  <2>1. 0..n \in Below /\ 0..n \subseteq 0..m /\ 0..n # 0..m
    <3>1. m \in 0..m /\ m \notin 0..n
      BY <1>4
    <3> QED
      BY <1>4, <3>1 DEF Below
  <2>2. 0..n \in SUBSET Nat /\ 0..m \in SUBSET Nat
    OBVIOUS
  <2> QED
    BY <1>1, <1>2, <1>3, <2>1, <2>2 DEF StrictSubsetOrdering, FiniteSubsetsOf
<1> QED
  BY <1>4

-----------------------------------------------------------------------------
(* Rounding. *)

(* A number of cents and a remainder of them.                              *)
LEMMA Quotient ==
    ASSUME NEW n \in Nat, NEW d \in Nat \ {0}
    PROVE  /\ n \div d \in Nat /\ n % d \in Nat /\ n % d < d
           /\ n = d * (n \div d) + (n % d)
  OBVIOUS

(* A quotient is between its neighbours.                                   *)
LEMMA QuotientUnique ==
    ASSUME NEW n \in Nat, NEW d \in Nat \ {0}, NEW k \in Nat,
           k * d <= n, n < k * d + d
    PROVE  n \div d = k
<1> DEFINE q == n \div d
<1>1. q \in Nat /\ d * q <= n /\ n < d * q + d
  BY Quotient
<1> HIDE DEF q
<1>2. CASE q < k
  <2>1. d * (q + 1) <= d * k
    BY <1>1, <1>2
  <2> QED
    BY <1>1, <2>1
<1>3. CASE q > k
  <2>1. d * (k + 1) <= d * q
    BY <1>1, <1>3
  <2> QED
    BY <1>1, <2>1
<1> QED
  BY <1>1, <1>2, <1>3 DEF q

(* The nearest integer is half a step away at most.                        *)
LEMMA HalfEvenClose ==
    ASSUME NEW n \in Nat, NEW d \in Nat \ {0}
    PROVE  /\ HalfEven(n, d) \in Nat
           /\ 2 * (HalfEven(n, d) * d) <= 2 * n + d
           /\ 2 * n - d <= 2 * (HalfEven(n, d) * d)
<1> DEFINE q == n \div d
           r == n % d
<1>1. q \in Nat /\ r \in Nat /\ r < d /\ n = d * q + r
  BY Quotient
<1>2. \/ HalfEven(n, d) = q /\ 2 * r <= d
      \/ HalfEven(n, d) = q + 1 /\ 2 * r >= d
  <2>1. 2 * r > d \/ 2 * r = d \/ 2 * r < d
    BY <1>1
  <2> QED
    BY <1>1, <2>1 DEF HalfEven
<1> HIDE DEF q, r
<1>3. (q + 1) * d = d * q + d /\ q * d = d * q
  BY <1>1
<1> QED
  BY <1>1, <1>2, <1>3

(* Rounding half up gives k for what is nearer to k than half a step.      *)
LEMMA HalfUpNear ==
    ASSUME NEW n \in Nat, NEW d \in Nat \ {0}, NEW k \in Nat,
           2 * (k * d) - d < 2 * n, 2 * n < 2 * (k * d) + d
    PROVE  HalfUp(n, d) = k
<1>1. 2 * n + d \in Nat /\ 2 * d \in Nat \ {0} /\ k * d \in Nat
  OBVIOUS
<1>2. k * (2 * d) = 2 * (k * d)
  OBVIOUS
<1>3. k * (2 * d) <= 2 * n + d /\ 2 * n + d < k * (2 * d) + 2 * d
  BY <1>1, <1>2
<1> QED
  BY <1>1, <1>3, QuotientUnique DEF HalfUp

-----------------------------------------------------------------------------
(* Numbers of Precision bits. *)

(* Significands and units, whatever the precision.                         *)
LEMMA Sizes ==
    /\ Least \in Nat \ {0}
    /\ Unit = 128 * Least
  BY MoneyAssumption, PowerType, PowerDoubles DEF Least, Unit

(* A number that is neither too small nor too large has a last place.      *)
LEMMA ScaleExists ==
    ASSUME NEW n \in Nat, NEW d \in Nat \ {0},
           Least * d <= n, n < 2 * Least * Unit * d
    PROVE  /\ Scale(n, d) \in Nat \ {0}
           /\ Least * Scale(n, d) * d <= n
<1> DEFINE Large == {j \in 0..(Precision + 6) : n < 2 * Least * 2^j * d}
<1>1. Precision + 6 \in Large
  BY MoneyAssumption DEF Unit
<1>2. PICK m \in Large : \A j \in Large : m <= j
  <2>1. Large \in SUBSET Nat
    BY MoneyAssumption
  <2> HIDE DEF Large
  <2> QED
    BY <1>1, <2>1, LeastNumber
<1>3. Least * 2^m * d <= n
  <2>1. CASE m = 0
    <3>1. 2^m = 1
      BY <2>1
    <3> QED
      BY <3>1, Sizes
  <2>2. CASE m # 0
    <3>1. m \in Nat /\ m - 1 \in Nat /\ m - 1 \in 0..(Precision + 6) /\ m - 1 \notin Large
      BY <1>2, <2>2, MoneyAssumption
    <3>2. 2^m = 2 * 2^(m - 1)
      <4>1. 2^((m - 1) + 1) = 2 * 2^(m - 1) /\ (m - 1) + 1 = m
        BY <3>1, PowerDoubles
      <4> QED
        BY <4>1
    <3>3. 2^(m - 1) \in Nat
      BY <3>1, PowerType
    <3>4. ~(n < 2 * Least * 2^(m - 1) * d)
      BY <3>1
    <3>5. Least * 2^m * d = 2 * Least * 2^(m - 1) * d
      BY <3>2, <3>3, Sizes
    <3>6. 2 * Least * 2^(m - 1) * d \in Int
      BY <3>3, Sizes
    <3> QED
      BY <3>4, <3>5, <3>6
  <2> QED
    BY <2>1, <2>2
<1>4. \E j \in 0..(Precision + 6) : Scales(n, d, j)
  BY <1>2, <1>3 DEF Scales
<1>5. PICK j \in 0..(Precision + 6) : Scales(n, d, j) /\ Scale(n, d) = 2^j
  BY <1>4 DEF Scale
<1>6. 2^j \in Nat \ {0}
  BY <1>5, MoneyAssumption, PowerType
<1> QED
  BY <1>5, <1>6 DEF Scales

(* What is rounded changes by one part in 2 * Least at most.               *)
LEMMA NearestClose ==
    ASSUME NEW n \in Nat, NEW d \in Nat \ {0},
           n = 0 \/ Least * d <= n, n < 2 * Least * Unit * d
    PROVE  /\ Nearest(n, d) \in Nat
           /\ 2 * Least * (Nearest(n, d) * d) <= 2 * Least * n + n
           /\ 2 * Least * n - n <= 2 * Least * (Nearest(n, d) * d)
<1>1. CASE n = 0
  BY <1>1, Sizes DEF Nearest
<1>2. CASE n # 0
  <2> DEFINE w == Scale(n, d)
             m == HalfEven(n, d * w)
  <2>1. w \in Nat \ {0} /\ Least * w * d <= n
    BY <1>2, ScaleExists
  <2> HIDE DEF w
  <2>2. d * w \in Nat \ {0}
    BY <2>1
  <2>3. m \in Nat /\ 2 * (m * (d * w)) <= 2 * n + d * w /\ 2 * n - d * w <= 2 * (m * (d * w))
    BY <2>2, HalfEvenClose
  <2>4. Nearest(n, d) = m * w
    BY <1>2 DEF Nearest, w
  <2> HIDE DEF m
  <2>5. PICK v \in Nat : v = d * w
    BY <2>2
  <2>6. PICK p \in Nat : p = m * v
    BY <2>3, <2>5
  <2>7. (m * w) * d = p
    BY <2>1, <2>3, <2>5, <2>6
  <2>8. Least * v <= n
    BY <2>1, <2>5, Sizes
  <2>9. 2 * p <= 2 * n + v /\ 2 * n - v <= 2 * p
    BY <2>3, <2>5, <2>6
  <2>10. Least * (2 * p) <= Least * (2 * n + v) /\ Least * (2 * n - v) <= Least * (2 * p)
    BY <2>9, Sizes
  <2>11. /\ Least * (2 * n + v) = 2 * Least * n + Least * v
         /\ Least * (2 * n - v) = 2 * Least * n - Least * v
         /\ Least * (2 * p) = 2 * Least * p
    BY Sizes
  <2>12. 2 * Least * p <= 2 * Least * n + n /\ 2 * Least * n - n <= 2 * Least * p
    BY <2>8, <2>10, <2>11, Sizes
  <2>13. m * w \in Nat
    BY <2>1, <2>3
  <2> QED
    BY <2>4, <2>7, <2>12, <2>13
<1> QED
  BY <1>1, <1>2

-----------------------------------------------------------------------------
(* Amounts. *)

(* A price or a total in units.                                            *)
LEMMA Amount ==
    ASSUME NEW k \in Nat, k < Least
    PROVE  /\ k * Unit \in Nat
           /\ k * Unit = 0 \/ 128 * Least <= k * Unit
           /\ k = 0 => k * Unit = 0
           /\ k * Unit < Least * Unit
<1>1. Unit \in Nat \ {0}
  BY Sizes
<1>2. k * Unit \in Nat
  BY <1>1
<1>3. k # 0 => Unit <= k * Unit
  BY <1>1
<1>4. (k + 1) * Unit <= Least * Unit
  BY <1>1, Sizes
<1>5. (k + 1) * Unit = k * Unit + Unit
  BY <1>1
<1> QED
  BY <1>1, <1>2, <1>3, <1>4, <1>5, Sizes

(* The number read for an amount is it, but for one rounding.              *)
LEMMA ReadClose ==
    ASSUME NEW k \in Nat, k < Least
    PROVE  /\ Read(k) \in Nat
           /\ 2 * Least * (Read(k) * 100) <= 2 * Least * (k * Unit) + k * Unit
           /\ 2 * Least * (k * Unit) - k * Unit <= 2 * Least * (Read(k) * 100)
<1> DEFINE n == k * Unit
<1>1. n \in Nat /\ (n = 0 \/ Least * 100 <= n) /\ n < Least * Unit
  BY Amount, Sizes
<1>2. n < 2 * Least * Unit * 100
  <2>1. Least * Unit \in Nat
    BY Sizes
  <2>2. 2 * Least * Unit * 100 = 200 * (Least * Unit)
    BY Sizes
  <2> QED
    BY <1>1, <2>1, <2>2
<1> HIDE DEF n
<1>3. /\ Nearest(n, 100) \in Nat
      /\ 2 * Least * (Nearest(n, 100) * 100) <= 2 * Least * n + n
      /\ 2 * Least * n - n <= 2 * Least * (Nearest(n, 100) * 100)
  BY <1>1, <1>2, NearestClose
<1> QED
  BY <1>3 DEF Read, n

(* What is nearer to k, in units of 2 * Least, than half a step, is k.     *)
LEMMA CentsNear ==
    ASSUME NEW k \in Nat, NEW x \in Nat, NEW err \in Nat, err < Least * Unit,
           2 * Least * x <= 2 * Least * (k * Unit) + err,
           2 * Least * (k * Unit) - err <= 2 * Least * x
    PROVE  HalfUp(x, Unit) = k
<1>1. Least \in Nat \ {0} /\ Unit \in Nat \ {0} /\ k * Unit \in Nat
  BY Sizes
<1>2. PICK n \in Nat : n = k * Unit
  BY <1>1
<1>3. Least * (2 * x) < Least * (2 * n + Unit) /\ Least * (2 * n - Unit) < Least * (2 * x)
  <2>1. /\ Least * (2 * x) = 2 * Least * x
        /\ Least * (2 * n + Unit) = 2 * Least * n + Least * Unit
        /\ Least * (2 * n - Unit) = 2 * Least * n - Least * Unit
    BY <1>1
  <2> QED
    BY <1>1, <1>2, <2>1
<1>4. \A a, b \in Int : Least * a < Least * b => a < b
  <2> SUFFICES ASSUME NEW a \in Int, NEW b \in Int, b <= a
               PROVE  Least * b <= Least * a
    BY <1>1
  <2> QED
    BY <1>1
<1>5. 2 * x < 2 * n + Unit /\ 2 * n - Unit < 2 * x
  BY <1>1, <1>3, <1>4
<1> QED
  BY <1>1, <1>2, <1>5, HalfUpNear

(* An amount that was read is stored as it was.                            *)
LEMMA StoredAsRead ==
    ASSUME NEW k \in Nat, k < Least
    PROVE  Stored(Read(k)) = k
<1>1. Read(k) * 100 \in Nat
  BY ReadClose
<1> QED
  BY <1>1, ReadClose, Amount, CentsNear DEF Stored

(* Math.round(price * 100) gives the cents of a price.                     *)
LEMMA CentsAsRead ==
    ASSUME NEW k \in Nat, 3 * k <= Least
    PROVE  ToCents(Read(k)) = k
<1>1. Least \in Nat \ {0} /\ Unit \in Nat \ {0} /\ k < Least
  BY Sizes
<1>2. PICK n \in Nat : n = k * Unit
  BY <1>1
<1>3. PICK x \in Nat : x = Read(k) * 100
  BY <1>1, ReadClose
<1>4. 2 * Least * x <= 2 * Least * n + n /\ 2 * Least * n - n <= 2 * Least * x
  BY <1>1, <1>2, <1>3, ReadClose
<1>5. n = 0 \/ 128 * Least <= n
  BY <1>1, <1>2, Amount
<1>6. 3 * n <= Least * Unit
  <2>1. (3 * k) * Unit <= Least * Unit
    BY <1>1
  <2>2. (3 * k) * Unit = 3 * n
    BY <1>1, <1>2
  <2> QED
    BY <2>1, <2>2
<1>7. 2 * x <= 3 * n /\ n <= 2 * x
  <2>1. CASE Least = 1
    BY <1>4, <2>1
  <2>2. CASE Least # 1
    <3>1. n <= Least * n
      BY <1>1
    <3>2. Least * (2 * x) <= Least * (3 * n) /\ Least * n <= Least * (2 * x)
      <4>1. PICK a \in Nat : a = Least * n
        BY <1>1
      <4>2. PICK b \in Nat : b = Least * x
        BY <1>1
      <4>3. 2 * b <= 2 * a + n /\ 2 * a - n <= 2 * b /\ n <= a
        BY <1>1, <1>4, <3>1, <4>1, <4>2
      <4>4. Least * (2 * x) = 2 * b /\ Least * (3 * n) = 3 * a
        BY <1>1, <4>1, <4>2
      <4> QED
        BY <4>1, <4>3, <4>4
    <3>3. \A a, b \in Nat : Least * a <= Least * b => a <= b
      <4> SUFFICES ASSUME NEW a \in Nat, NEW b \in Nat, b < a
                   PROVE  Least * b < Least * a
        BY <1>1
      <4>1. Least * (b + 1) <= Least * a /\ Least * (b + 1) = Least * b + Least
        BY <1>1
      <4> QED
        BY <1>1, <4>1
    <3> QED
      BY <3>2, <3>3
  <2> QED
    BY <2>1, <2>2
<1> DEFINE y == Nearest(x, 1)
<1>8. /\ y \in Nat
      /\ 2 * Least * y <= 2 * Least * x + x
      /\ 2 * Least * x - x <= 2 * Least * y
  <2>1. x = 0 \/ Least * 1 <= x
    BY <1>1, <1>5, <1>7
  <2>2. x < 2 * Least * Unit * 1
    <3>1. PICK a \in Nat : a = Least * Unit
      BY <1>1
    <3>2. 2 * Least * Unit * 1 = 2 * a /\ a # 0
      BY <1>1, <3>1
    <3> QED
      BY <1>6, <1>7, <3>1, <3>2
  <2>3. /\ Nearest(x, 1) \in Nat
        /\ 2 * Least * (Nearest(x, 1) * 1) <= 2 * Least * x + x
        /\ 2 * Least * x - x <= 2 * Least * (Nearest(x, 1) * 1)
    BY <2>1, <2>2, NearestClose
  <2> QED
    BY <2>3
<1> HIDE DEF y
<1>9. /\ 2 * Least * y <= 2 * Least * n + (n + x)
      /\ 2 * Least * n - (n + x) <= 2 * Least * y
  BY <1>1, <1>4, <1>8
<1>10. n + x < Least * Unit
  <2>1. 2 * (n + x) <= 5 * n
    BY <1>7
  <2>2. PICK a \in Nat : a = Least * Unit /\ a # 0
    BY <1>1
  <2> QED
    BY <1>6, <2>1, <2>2
<1>11. HalfUp(y, Unit) = k
  BY <1>2, <1>8, <1>9, <1>10, CentsNear
<1>12. ToCents(Read(k)) = HalfUp(y, Unit)
  BY <1>3 DEF ToCents, Times, y
<1> QED
  BY <1>11, <1>12

-----------------------------------------------------------------------------
(* From the request to the order. *)

(* What is known of an amount at each station.                             *)
Carried ==
    /\ price # None => wanted \in Prices /\ price = wanted
    /\ quote # None => wanted \in Prices /\ price = wanted /\ price # None
                         /\ quote = Read(wanted)
    /\ order # None =>
          /\ quote # None
          /\ order.quantity \in 1..MaxTickets
          /\ order.ticketPrice = wanted
          /\ order.totalPrice = wanted * order.quantity
          /\ returned = Read(wanted * order.quantity)
    /\ listed # None => order # None /\ listed = Read(order.totalPrice)

(* A price, and a total of it, is small enough.                            *)
LEMMA Bounded ==
    ASSUME NEW k \in Prices, NEW quantity \in 1..MaxTickets
    PROVE  /\ k \in Nat /\ k < Least /\ 3 * k <= Least
           /\ k * quantity \in Nat /\ k * quantity < Least
<1>1. k \in Nat /\ MaxTickets \in Nat /\ k * MaxTickets < Least /\ 3 * k <= Least
  BY MoneyAssumption
<1>2. k * quantity <= k * MaxTickets /\ k * quantity \in Nat
  BY <1>1
<1>3. k < Least
  BY <1>1, Sizes
<1> QED
  BY <1>1, <1>2, <1>3, Sizes

(* The total of a quote is the number that its cents are read as.          *)
LEMMA TotalRead ==
    ASSUME NEW k \in Prices, NEW quantity \in 1..MaxTickets
    PROVE  Total(Read(k), quantity) = Read(k * quantity)
  BY Bounded, CentsAsRead DEF Total, FromCents, Read

(* No station loses a cent.                                                *)
LEMMA CarriedStep == Carried /\ [Next]_vars => Carried'
<1> SUFFICES ASSUME Carried, [Next]_vars PROVE Carried'
  OBVIOUS
<1>1. ASSUME NEW k \in Prices, SetPrice(k) PROVE Carried'
  <2>1. Stored(Read(k)) = k
    <3>1. k \in Nat /\ k < Least
      BY MoneyAssumption, Sizes
    <3> QED
      BY <3>1, StoredAsRead
  <2> QED
    BY <1>1, <2>1 DEF SetPrice, Carried
<1>2. CASE LookUp
  BY <1>2 DEF LookUp, Carried
<1>3. ASSUME NEW quantity \in 1..MaxTickets, Buy(quantity) PROVE Carried'
  <2>1. wanted \in Prices /\ quote = Read(wanted) /\ quote # None
    BY <1>3 DEF Buy, Carried
  <2>2. /\ Total(quote, quantity) = Read(wanted * quantity)
        /\ Stored(quote) = wanted /\ Stored(Read(wanted * quantity)) = wanted * quantity
    BY <2>1, Bounded, TotalRead, StoredAsRead
  <2> QED
    BY <1>3, <2>1, <2>2 DEF Buy, Carried
<1>4. CASE List
  BY <1>4 DEF List, Carried
<1>5. CASE UNCHANGED vars
  BY <1>5 DEF vars, Carried
<1> QED
  BY <1>1, <1>2, <1>3, <1>4, <1>5 DEF Next

(* So it is at all times.                                                  *)
THEOREM CarriedAlways == Spec => []Carried
<1>1. Init => Carried
  BY DEF Init, Carried
<1> QED
  BY <1>1, CarriedStep, PTL DEF Spec

(* An order holds the price an admin has set, to the cent, and the exact   *)
(* multiple of it, although all of them were floating-point numbers on the *)
(* way.                                                                    *)
THEOREM TotalsAreExact == Spec => []TotalIsExact
  BY CarriedAlways, PTL DEF Carried, TotalIsExact

(* The total a buyer is told is the number every later look at the order   *)
(* gives.                                                                  *)
THEOREM BuyersAreToldTheTotal == Spec => []ToldAsListed
<1>1. Carried => ToldAsListed
  BY DEF Carried, ToldAsListed
<1> QED
  BY <1>1, CarriedAlways, PTL
=============================================================================
