--------------------------- MODULE DecimalsProofs ---------------------------
(***************************************************************************)
(* The theorem of Decimals, for every width, every scale and all amounts.  *)
(* An operation comes to a fraction that is rounded once, toward zero and  *)
(* then away by at most one; of each rounding there is exactly one whole   *)
(* number that stands for a fraction, so an answer is that number, or none *)
(* that fits the width is.                                                 *)
(***************************************************************************)
EXTENDS Decimals, WellFoundedInduction, NaturalsInduction, TLAPS

-----------------------------------------------------------------------------
(* Powers of ten, and sums.                                                *)

\* A set of numbers has a first one.
LEMMA FirstOf ==
  ASSUME NEW S \in SUBSET Nat, S # {}
  PROVE  \E q \in S : \A r \in S : ~(r < q)
PROOF
<1>1. PICK q \in S : \A r \in S : ~(<<r, q>> \in OpToRel(<, Nat))
  BY WFMin, NatLessThanWellFounded
<1> QED
  BY <1>1 DEF OpToRel

\* What holds first and is kept by every step of so many is held by all.
LEMMA Steps ==
  ASSUME NEW n \in Nat, NEW bad \in SUBSET (0 .. n), 0 \notin bad,
         \A k \in 1 .. n : k - 1 \notin bad => k \notin bad
  PROVE  bad = {}
PROOF
<1> SUFFICES ASSUME bad # {} PROVE FALSE
  OBVIOUS
<1>1. PICK k \in bad : \A j \in bad : ~(j < k)
  BY FirstOf
<1>2. k \in 1 .. n /\ k - 1 < k
  BY <1>1
<1> QED
  BY <1>1, <1>2

\* What begins somewhere and goes on step by step gets through them all.
Follows(f, first, step, n) ==
  f[0] = first /\ \A k \in 1 .. n : f[k] = step[k][f[k - 1]]

LEMMA StepsAreTaken ==
  ASSUME NEW V, NEW first \in V, NEW n \in Nat, NEW step \in [1 .. n -> [V -> V]]
  PROVE  \E f \in [0 .. n -> V] : Follows(f, first, step, n)
PROOF
<1> DEFINE Taken(m) == \E f \in [0 .. m -> V] : Follows(f, first, step, m)
           bad == {m \in 0 .. n : ~Taken(m)}
<1>1. 0 \notin bad
  <2> DEFINE f == [k \in 0 .. 0 |-> first]
  <2>1. f \in [0 .. 0 -> V] /\ Follows(f, first, step, 0)
    BY DEF Follows
  <2> QED
    BY <2>1
<1>2. ASSUME NEW k \in 1 .. n, k - 1 \notin bad PROVE k \notin bad
  <2>1. k \in Nat /\ k - 1 \in Nat /\ k - 1 \in 0 .. n /\ k - 1 \in 0 .. k - 1
    OBVIOUS
  <2>2. PICK f \in [0 .. k - 1 -> V] : Follows(f, first, step, k - 1)
    BY <1>2, <2>1
  <2> DEFINE g == [j \in 0 .. k |-> IF j = k THEN step[k][f[k - 1]] ELSE f[j]]
  <2>3. \A j \in 0 .. k : j # k => j \in 0 .. k - 1
    BY <2>1
  <2>4. step[k][f[k - 1]] \in V
    BY <2>1
  <2>5. g \in [0 .. k -> V]
    BY <2>3, <2>4
  <2>6. g[0] = first
    BY <2>1, <2>2 DEF Follows
  <2>7. \A j \in 1 .. k : g[j] = step[j][g[j - 1]]
    <3> TAKE j \in 1 .. k
    <3>1. j \in 0 .. k /\ j - 1 \in 0 .. k /\ j - 1 # k
      BY <2>1
    <3>2. CASE j = k
      BY <3>1, <3>2
    <3>3. CASE j # k
      <4>1. j \in 1 .. k - 1
        BY <3>3
      <4> QED
        BY <2>2, <3>1, <3>3, <4>1 DEF Follows
    <3> QED
      BY <3>2, <3>3
  <2> HIDE DEF g
  <2> QED
    BY <2>5, <2>6, <2>7 DEF Follows
<1>3. bad = {}
  <2>1. bad \in SUBSET (0 .. n)
    OBVIOUS
  <2> HIDE DEF bad
  <2> QED
    BY <1>1, <1>2, <2>1, Steps
<1> QED
  BY <1>3

\* A power of ten is ten times the one before.
LEMMA Powers ==
  ASSUME NEW n \in Nat
  PROVE  \E f \in [0 .. n -> Nat] :
           /\ Pow10(n) = f[n] /\ f[0] = 1
           /\ \A k \in 1 .. n : f[k] = 10 * f[k - 1]
PROOF
<1> DEFINE Solves(f) == f = [k \in 0 .. n |-> IF k = 0 THEN 1 ELSE 10 * f[k - 1]]
           up == CHOOSE f : Solves(f)
           step == [k \in 1 .. n |-> [v \in Nat |-> 10 * v]]
<1>1. Pow10(n) = up[n]
  BY DEF Pow10
<1>2. PICK f \in [0 .. n -> Nat] : Follows(f, 1, step, n)
  <2>1. step \in [1 .. n -> [Nat -> Nat]]
    OBVIOUS
  <2> HIDE DEF step
  <2> QED
    BY <2>1, StepsAreTaken
<1>3. \A k \in 1 .. n : k - 1 \in 0 .. n /\ f[k] = 10 * f[k - 1]
  <2> TAKE k \in 1 .. n
  <2>1. k - 1 \in 0 .. n /\ f[k - 1] \in Nat
    OBVIOUS
  <2>2. step[k] = [v \in Nat |-> 10 * v]
    OBVIOUS
  <2>3. f[k] = step[k][f[k - 1]]
    BY <1>2 DEF Follows
  <2> HIDE DEF step
  <2> QED
    BY <2>1, <2>2, <2>3
<1>4. f[0] = 1
  BY <1>2 DEF Follows
<1>5. Solves(f)
  <2>1. \A k \in 0 .. n : f[k] = IF k = 0 THEN 1 ELSE 10 * f[k - 1]
    BY <1>3, <1>4
  <2> QED
    BY <1>2, <2>1
<1>6. Solves(up)
  <2> HIDE DEF Solves
  <2> QED
    BY <1>5
<1> HIDE DEF up
<1>7. up[0] = 1 /\ \A k \in 1 .. n : up[k] = 10 * up[k - 1]
  BY <1>6
<1>8. \A k \in 0 .. n : up[k] = f[k]
  <2> DEFINE bad == {k \in 0 .. n : up[k] # f[k]}
  <2>1. 0 \notin bad
    BY <1>4, <1>7
  <2>2. ASSUME NEW k \in 1 .. n, k - 1 \notin bad PROVE k \notin bad
    BY <1>3, <1>7, <2>2
  <2>3. bad \in SUBSET (0 .. n)
    OBVIOUS
  <2> HIDE DEF bad
  <2>4. bad = {}
    BY <2>1, <2>2, <2>3, Steps
  <2> QED
    BY <2>4 DEF bad
<1>9. n \in 0 .. n
  OBVIOUS
<1> QED
  BY <1>1, <1>3, <1>4, <1>8, <1>9

\* Powers of ten as they are used.
LEMMA PowersAre ==
  /\ Pow10(0) = 1
  /\ \A n \in Nat : Pow10(n) \in Nat \ {0}
  /\ \A n \in Nat : Pow10(n + 1) = 10 * Pow10(n)
PROOF
<1>1. Pow10(0) = 1
  BY Powers
<1>2. ASSUME NEW n \in Nat PROVE Pow10(n + 1) = 10 * Pow10(n)
  <2>1. PICK f \in [0 .. n -> Nat] :
          /\ Pow10(n) = f[n] /\ f[0] = 1
          /\ \A k \in 1 .. n : f[k] = 10 * f[k - 1]
    BY Powers
  <2>2. PICK g \in [0 .. n + 1 -> Nat] :
          /\ Pow10(n + 1) = g[n + 1] /\ g[0] = 1
          /\ \A k \in 1 .. n + 1 : g[k] = 10 * g[k - 1]
    <3>1. n + 1 \in Nat
      OBVIOUS
    <3> QED
      BY <3>1, Powers
  <2> DEFINE bad == {k \in 0 .. n : g[k] # f[k]}
  <2>3. 0 \notin bad
    BY <2>1, <2>2
  <2>4. ASSUME NEW k \in 1 .. n, k - 1 \notin bad PROVE k \notin bad
    <3>1. k \in 1 .. n + 1 /\ k - 1 \in 0 .. n
      OBVIOUS
    <3> QED
      BY <2>1, <2>2, <2>4, <3>1
  <2>5. bad \in SUBSET (0 .. n)
    OBVIOUS
  <2> HIDE DEF bad
  <2>6. bad = {}
    BY <2>3, <2>4, <2>5, Steps
  <2>7. g[n] = f[n]
    BY <2>6 DEF bad
  <2>8. g[n + 1] = 10 * g[(n + 1) - 1] /\ (n + 1) - 1 = n
    BY <2>2
  <2> QED
    BY <2>1, <2>2, <2>7, <2>8
<1>3. ASSUME NEW n \in Nat PROVE Pow10(n) \in Nat \ {0}
  <2> DEFINE bad == {k \in 0 .. n : Pow10(k) \notin Nat \ {0}}
  <2>1. 0 \notin bad
    BY <1>1
  <2>2. ASSUME NEW k \in 1 .. n, k - 1 \notin bad PROVE k \notin bad
    <3>1. k - 1 \in Nat /\ k - 1 \in 0 .. n /\ (k - 1) + 1 = k
      OBVIOUS
    <3>2. Pow10((k - 1) + 1) = 10 * Pow10(k - 1)
      BY <1>2, <3>1
    <3> QED
      BY <2>2, <3>1, <3>2
  <2>3. bad \in SUBSET (0 .. n)
    OBVIOUS
  <2> HIDE DEF bad
  <2>4. bad = {}
    BY <2>1, <2>2, <2>3, Steps
  <2> QED
    BY <2>4 DEF bad
<1> QED
  BY <1>1, <1>2, <1>3

\* The power of a sum is the product of the powers.
LEMMA PowersMultiply ==
  ASSUME NEW a \in Nat, NEW b \in Nat
  PROVE  Pow10(a + b) = Pow10(a) * Pow10(b)
PROOF
<1> DEFINE bad == {k \in 0 .. b : Pow10(a + k) # Pow10(a) * Pow10(k)}
<1>1. Pow10(a) \in Nat
  BY PowersAre
<1>2. 0 \notin bad
  BY <1>1, PowersAre
<1>3. ASSUME NEW k \in 1 .. b, k - 1 \notin bad PROVE k \notin bad
  <2> DEFINE j == k - 1
  <2>1. j \in Nat /\ j \in 0 .. b /\ j + 1 = k /\ a + k = (a + j) + 1 /\ a + j \in Nat
    OBVIOUS
  <2>2. Pow10(a + j) = Pow10(a) * Pow10(j)
    BY <1>3, <2>1
  <2> HIDE DEF j
  <2>3. Pow10(a + k) = 10 * Pow10(a + j) /\ Pow10(k) = 10 * Pow10(j)
    BY <2>1, PowersAre
  <2>4. Pow10(j) \in Nat
    BY <2>1, PowersAre
  <2>5. \A x, y \in Nat : 10 * (x * y) = x * (10 * y)
    OBVIOUS
  <2> QED
    BY <1>1, <2>2, <2>3, <2>4, <2>5
<1>4. bad \in SUBSET (0 .. b)
  OBVIOUS
<1> HIDE DEF bad
<1>5. bad = {}
  BY <1>2, <1>3, <1>4, Steps
<1> QED
  BY <1>5 DEF bad

\* A sum of three that raises nothing is all of what it added.
LEMMA SumOfThree ==
  ASSUME NEW type, NEW l, NEW m, NEW r,
         l.units \in Int, m.units \in Int, r.units \in Int,
         Sum(type, <<l, m, r>>).raises = "no"
  PROVE  Sum(type, <<l, m, r>>).units = l.units + m.units + r.units
PROOF
<1> DEFINE items == <<l, m, r>>
           V == [raises : {"no", "overflow"}, units : Int]
           Next(v, k) == IF v.raises # "no" THEN v ELSE Fit(v.units + items[k].units)
           Solves(f) == f = [k \in 0 .. Len(items) |-> IF k = 0 THEN Fit(0) ELSE Next(f[k - 1], k)]
           total == CHOOSE f : Solves(f)
           step == [k \in 1 .. 3 |-> [v \in V |-> Next(v, k)]]
<1>1. Len(items) = 3 /\ 1 .. 3 = {1, 2, 3} /\ 0 .. 3 = {0, 1, 2, 3}
      /\ items[1].units = l.units /\ items[2].units = m.units /\ items[3].units = r.units
  OBVIOUS
<1>2. Sum(type, items).raises = total[3].raises /\ Sum(type, items).units = total[3].units
  BY <1>1 DEF Sum, As
<1> HIDE DEF items
<1>3. \A x \in Int : Fit(x) \in V /\ (Fit(x).raises = "no" => Fit(x).units = x)
  BY DEF Fit, Raise
<1>4. \A v \in V, k \in 1 .. 3 : Next(v, k) \in V
  <2> TAKE v \in V, k \in 1 .. 3
  <2>1. v.units + items[k].units \in Int
    BY <1>1
  <2> QED
    BY <1>3, <2>1
<1> HIDE DEF Next, V
<1>5. PICK f \in [0 .. 3 -> V] : Follows(f, Fit(0), step, 3)
  <2>1. step \in [1 .. 3 -> [V -> V]]
    BY <1>4
  <2>2. Fit(0) \in V
    BY <1>3
  <2> HIDE DEF step
  <2> QED
    BY <2>1, <2>2, StepsAreTaken
<1>6. f[0] = Fit(0) /\ \A k \in 1 .. 3 : f[k] = Next(f[k - 1], k)
  <2>1. f[0] = Fit(0) /\ \A k \in 1 .. 3 : f[k] = step[k][f[k - 1]]
    BY <1>5 DEF Follows
  <2>2. ASSUME NEW k \in 1 .. 3 PROVE f[k] = Next(f[k - 1], k)
    <3>1. k - 1 \in 0 .. 3 /\ f[k - 1] \in V
      OBVIOUS
    <3>2. step[k] = [v \in V |-> Next(v, k)]
      OBVIOUS
    <3> HIDE DEF step
    <3> QED
      BY <2>1, <3>1, <3>2
  <2> QED
    BY <2>1, <2>2
<1>7. \E g : Solves(g)
  <2>1. \A k \in 0 .. 3 : f[k] = IF k = 0 THEN Fit(0) ELSE Next(f[k - 1], k)
    <3>1. \A k \in 0 .. 3 : k = 0 \/ k \in 1 .. 3
      OBVIOUS
    <3> QED
      BY <1>6, <3>1
  <2>2. Solves(f)
    BY <1>1, <1>5, <2>1
  <2> QED
    BY <2>2
<1>8. Solves(total)
  <2> HIDE DEF Solves
  <2> QED
    BY <1>7
<1> HIDE DEF total
<1>9. /\ total[0] = Fit(0) /\ total[1] = Next(total[0], 1)
      /\ total[2] = Next(total[1], 2) /\ total[3] = Next(total[2], 3)
  <2>1. \A k \in 0 .. 3 : total[k] = IF k = 0 THEN Fit(0) ELSE Next(total[k - 1], k)
    BY <1>1, <1>8
  <2>2. 1 - 1 = 0 /\ 2 - 1 = 1 /\ 3 - 1 = 2
    OBVIOUS
  <2> QED
    BY <2>1, <2>2, <1>1
<1>10. Fit(0) = [raises |-> "no", units |-> 0]
  BY WidthsAssumption DEF Fit, Units
<1>11. total[3].raises = "no"
  BY <1>2 DEF items
<1>12. total[1] = Fit(l.units)
  BY <1>1, <1>9, <1>10 DEF Next
<1>13. total[2].raises = "no" /\ total[1].raises = "no"
  BY <1>9, <1>11 DEF Next
<1>14. total[1].units = l.units
  BY <1>3, <1>12, <1>13
<1>15. total[2] = Fit(l.units + m.units)
  BY <1>1, <1>9, <1>13, <1>14 DEF Next
<1>16. total[2].units = l.units + m.units
  BY <1>3, <1>13, <1>15
<1>17. total[3] = Fit(l.units + m.units + r.units)
  BY <1>1, <1>9, <1>13, <1>16 DEF Next
<1>18. total[3].units = l.units + m.units + r.units
  BY <1>3, <1>11, <1>17
<1> QED
  BY <1>2, <1>18 DEF items

-----------------------------------------------------------------------------
(* Roundings.                                                              *)

\* A multiple of a number, from so many times it.
LEMMA Multiples ==
  ASSUME NEW e \in Nat \ {0}, NEW k \in Int
  PROVE  /\ k * e \in Int
         /\ k <= -2 => k * e <= -2 * e
         /\ k = -1 => k * e = -e
         /\ k = 0 => k * e = 0
         /\ k = 1 => k * e = e
         /\ k >= 2 => k * e >= 2 * e
PROOF
<1>1. ASSUME NEW a \in Nat PROVE a * e \in Nat
  OBVIOUS
<1>2. CASE k >= 2
  <2>1. k - 2 \in Nat
    BY <1>2
  <2>2. (k - 2) * e \in Nat
    BY <1>1, <2>1
  <2>3. (k - 2) * e = k * e - 2 * e
    OBVIOUS
  <2> QED
    BY <1>2, <2>2, <2>3
<1>3. CASE k <= -2
  <2>1. -2 - k \in Nat
    BY <1>3
  <2>2. (-2 - k) * e \in Nat
    BY <1>1, <2>1
  <2>3. (-2 - k) * e = -2 * e - k * e
    OBVIOUS
  <2> QED
    BY <1>3, <2>2, <2>3
<1> QED
  BY <1>2, <1>3

\* What stands for a fraction that is not negative, of each rounding.
Off(m, e, w) == Magnitude(m - w * e)

RoundedAt(m, e, q, r, w) ==
  /\ Off(m, e, w) = 0 <=> r = 0 /\ w = q
  /\ Off(m, e, w) < e /\ Magnitude(w * e) <= m <=> w = q
  /\ (\/ 2 * Off(m, e, w) < e
      \/ 2 * Off(m, e, w) = e /\ Magnitude(w * e) > m)
       <=> w = IF 2 * r >= e THEN q + 1 ELSE q
  /\ (\/ 2 * Off(m, e, w) < e
      \/ 2 * Off(m, e, w) = e /\ w % 2 = 0)
       <=> w = IF 2 * r > e \/ (2 * r = e /\ q % 2 # 0) THEN q + 1 ELSE q

LEMMA RoundedOnce ==
  ASSUME NEW e \in Nat \ {0}, NEW q \in Nat, NEW r \in 0 .. e - 1, NEW m \in Nat,
         m = e * q + r, NEW w \in Int
  PROVE  RoundedAt(m, e, q, r, w)
PROOF
<1> DEFINE k == w - q
           x == k * e
           p == q * e
<1>1. k \in Int /\ x \in Int /\ p \in Nat
  OBVIOUS
<1>2. w * e = p + x /\ m = p + r
  OBVIOUS
<1>3. /\ k <= -2 => x <= -2 * e
      /\ k = -1 => x = -e
      /\ k = 0 => x = 0
      /\ k = 1 => x = e
      /\ k >= 2 => x >= 2 * e
  BY <1>1, Multiples
<1>4. Off(m, e, w) = (IF r - x < 0 THEN x - r ELSE r - x)
  BY <1>1, <1>2 DEF Off, Magnitude
<1>5. Magnitude(w * e) = (IF p + x < 0 THEN -(p + x) ELSE p + x)
  BY <1>2 DEF Magnitude
<1>6. w = q + k
  OBVIOUS
<1>7. (q + 1) % 2 = 0 <=> q % 2 # 0
  OBVIOUS
<1> HIDE DEF x, p, k
<1> DEFINE off == Off(m, e, w)
           mag == Magnitude(w * e)
<1>8. off = (IF r - x < 0 THEN x - r ELSE r - x)
  BY <1>4
<1>9. mag = (IF p + x < 0 THEN -(p + x) ELSE p + x)
  BY <1>5
<1> HIDE DEF off, mag
<1>10. off \in Nat /\ mag \in Nat /\ e > 0
  BY <1>1, <1>2, <1>8, <1>9
<1>11. off = 0 <=> r = 0 /\ w = q
  BY <1>1, <1>2, <1>3, <1>6, <1>8
<1>12. off < e /\ mag <= m <=> w = q
  <2>1. CASE k = 0
    BY <1>1, <1>2, <1>3, <1>6, <1>8, <1>9, <2>1
  <2>2. CASE k = 1
    BY <1>1, <1>2, <1>3, <1>6, <1>8, <1>9, <2>2
  <2>3. CASE k # 0 /\ k # 1
    BY <1>1, <1>2, <1>3, <1>6, <1>8, <2>3
  <2> QED
    BY <2>1, <2>2, <2>3
<1>13. (2 * off < e \/ (2 * off = e /\ mag > m)) <=> w = IF 2 * r >= e THEN q + 1 ELSE q
  <2>1. CASE k = 0
    BY <1>1, <1>2, <1>3, <1>6, <1>8, <1>9, <2>1
  <2>2. CASE k = 1
    BY <1>1, <1>2, <1>3, <1>6, <1>8, <1>9, <2>2
  <2>3. CASE k # 0 /\ k # 1
    BY <1>1, <1>2, <1>3, <1>6, <1>8, <2>3
  <2> QED
    BY <2>1, <2>2, <2>3
<1>14. (2 * off < e \/ (2 * off = e /\ w % 2 = 0))
         <=> w = IF 2 * r > e \/ (2 * r = e /\ q % 2 # 0) THEN q + 1 ELSE q
  <2>1. CASE k = 0
    BY <1>1, <1>2, <1>3, <1>6, <1>8, <2>1
  <2>2. CASE k = 1
    BY <1>1, <1>2, <1>3, <1>6, <1>7, <1>8, <2>2
  <2>3. CASE k # 0 /\ k # 1
    BY <1>1, <1>2, <1>3, <1>6, <1>8, <2>3
  <2> QED
    BY <2>1, <2>2, <2>3
<1> QED
  BY <1>11, <1>12, <1>13, <1>14 DEF off, mag, RoundedAt

\* A number is its quotient by another, so many times, and its remainder.
LEMMA DivMod ==
  ASSUME NEW a \in Nat, NEW b \in Nat \ {0}
  PROVE  a \div b \in Nat /\ a % b \in 0 .. b - 1 /\ a = b * (a \div b) + (a % b)
PROOF
<1>1. a % b \in 0 .. b - 1
  OBVIOUS
<1>2. a \div b \in Int
  OBVIOUS
<1>3. a = b * (a \div b) + (a % b)
  OBVIOUS
<1>4. a \div b >= 0
  BY <1>1, <1>2, <1>3, SMTT(30)
<1> QED
  BY <1>1, <1>2, <1>3, <1>4

\* Division goes toward zero, and leaves the sign of what it divided.
LEMMA Divides ==
  ASSUME NEW n \in Int, NEW d \in Int, d # 0
  PROVE  \E q \in Nat, r \in Nat :
           /\ Magnitude(n) \in Nat /\ Magnitude(d) \in Nat \ {0} /\ r < Magnitude(d)
           /\ Magnitude(n) = Magnitude(d) * q + r
           /\ Quotient(n, d) = IF (n < 0) = (d < 0) THEN q ELSE -q
           /\ Remainder(n, d) = IF n < 0 THEN -r ELSE r
PROOF
<1> DEFINE m == Magnitude(n)
           e == Magnitude(d)
           q == m \div e
           r == m % e
<1>1. /\ m \in Nat /\ e \in Nat \ {0}
      /\ m = IF n < 0 THEN -n ELSE n
      /\ e = IF d < 0 THEN -d ELSE d
  BY DEF Magnitude
<1>2. Quotient(n, d) = IF (n < 0) = (d < 0) THEN q ELSE -q
  BY DEF Quotient
<1>3. Remainder(n, d) = n - d * Quotient(n, d)
  BY DEF Remainder
<1> HIDE DEF m, e
<1>4. q \in Nat /\ r \in 0 .. e - 1 /\ m = e * q + r
  <2>1. m \in Nat /\ e \in Nat \ {0}
    BY <1>1
  <2>2. m \div e \in Nat
    BY <2>1, DivMod
  <2>3. m % e \in 0 .. e - 1
    BY <2>1, DivMod
  <2>4. m = e * (m \div e) + (m % e)
    BY <2>1, DivMod
  <2> QED
    BY <2>2, <2>3, <2>4
<1> HIDE DEF q, r
<1>5. d * q = (IF d < 0 THEN -(e * q) ELSE e * q)
  <2>1. \A x \in Int, y \in Nat : (-x) * y = -(x * y)
    OBVIOUS
  <2>2. d = (IF d < 0 THEN -e ELSE e)
    BY <1>1
  <2> QED
    BY <1>1, <1>4, <2>1, <2>2
<1>6. d * (-q) = -(d * q)
  BY <1>4
<1>7. e * q \in Nat
  BY <1>1, <1>4
<1>8. Remainder(n, d) = IF n < 0 THEN -r ELSE r
  <2>1. CASE (n < 0) = (d < 0)
    BY <1>1, <1>2, <1>3, <1>4, <1>5, <1>7, <2>1
  <2>2. CASE (n < 0) # (d < 0)
    BY <1>1, <1>2, <1>3, <1>4, <1>5, <1>6, <1>7, <2>2
  <2> QED
    BY <2>1, <2>2
<1> QED
  BY <1>1, <1>2, <1>4, <1>8 DEF m, e

\* Of each rounding one whole number stands for a fraction, the one that the
\* division and its adjustment come to.
LEMMA OneStands ==
  ASSUME NEW n \in Int, NEW d \in Int, d # 0, NEW u \in Int
  PROVE  /\ Quotient(n, d) \in Int /\ Remainder(n, d) \in Int
         /\ Stands(u, [n |-> n, d |-> d], "Exact") <=> Remainder(n, d) = 0 /\ u = Quotient(n, d)
         /\ \A by \in Roundings :
              /\ Adjust(n, d, by) \in Int
              /\ Remainder(n, d) = 0 => Adjust(n, d, by) = 0
              /\ Stands(u, [n |-> n, d |-> d], by) <=> u = Quotient(n, d) + Adjust(n, d, by)
PROOF
<1> DEFINE m == Magnitude(n)
           e == Magnitude(d)
           same == (n < 0) = (d < 0)
           w == IF same THEN u ELSE -u
<1>1. PICK q \in Nat, r \in Nat :
        /\ m \in Nat /\ e \in Nat \ {0} /\ r < e
        /\ m = e * q + r
        /\ Quotient(n, d) = IF same THEN q ELSE -q
        /\ Remainder(n, d) = IF n < 0 THEN -r ELSE r
  BY Divides
<1>2. m = (IF n < 0 THEN -n ELSE n) /\ e = (IF d < 0 THEN -d ELSE d)
  BY DEF Magnitude
<1>3. w \in Int /\ Away(n, d) = IF same THEN 1 ELSE -1
  BY DEF Away
<1>4. u * d \in Int /\ w * e \in Int /\ u * d = IF n < 0 THEN -(w * e) ELSE w * e
  <2>1. \A x, y \in Int : (-x) * (-y) = x * y /\ (-x) * y = -(x * y) /\ x * (-y) = -(x * y)
    OBVIOUS
  <2> QED
    BY <1>2, <2>1
<1>5. Magnitude(Remainder(n, d)) = r /\ (Remainder(n, d) = 0 <=> r = 0)
  BY <1>1 DEF Magnitude
<1>6. Magnitude(u * d) = Magnitude(w * e) /\ Magnitude(n - u * d) = Off(m, e, w)
  <2> DEFINE x == u * d
             y == w * e
  <2>1. x \in Int /\ y \in Int /\ x = (IF n < 0 THEN -y ELSE y)
    BY <1>4
  <2> HIDE DEF x, y, m, e, w
  <2>2. Magnitude(x) = Magnitude(y) /\ Magnitude(n - x) = Magnitude(m - y)
    BY <1>2, <2>1 DEF Magnitude
  <2> QED
    BY <2>2 DEF x, y, Off
<1>7. u % 2 = 0 <=> w % 2 = 0
  OBVIOUS
<1>8. Remainder(Quotient(n, d), 2) # 0 <=> q % 2 # 0
  <2> DEFINE x == Quotient(n, d)
  <2>1. x \in Int /\ (x = q \/ x = -q)
    BY <1>1
  <2> HIDE DEF x
  <2>2. Magnitude(2) = 2 /\ Magnitude(x) = q
    BY <2>1 DEF Magnitude
  <2>3. Quotient(x, 2) = IF x < 0 THEN -(q \div 2) ELSE q \div 2
    BY <2>2 DEF Quotient
  <2>4. Remainder(x, 2) = x - 2 * Quotient(x, 2)
    BY DEF Remainder
  <2> QED
    BY <2>1, <2>3, <2>4 DEF x
<1>9. RoundedAt(m, e, q, r, w)
  <2>1. r \in 0 .. e - 1 /\ e \in Nat \ {0} /\ m \in Nat /\ m = e * q + r /\ w \in Int
    BY <1>1, <1>3
  <2> HIDE DEF m, e, w
  <2> QED
    BY <2>1, RoundedOnce
<1> DEFINE f == [n |-> n, d |-> d]
<1>10. /\ Stands(u, f, "Exact") <=> Off(m, e, w) = 0
       /\ Stands(u, f, "Down") <=> Off(m, e, w) < e /\ Magnitude(w * e) <= m
       /\ Stands(u, f, "HalfUp") <=>
            \/ 2 * Off(m, e, w) < e
            \/ 2 * Off(m, e, w) = e /\ Magnitude(w * e) > m
       /\ Stands(u, f, "HalfEven") <=>
            \/ 2 * Off(m, e, w) < e
            \/ 2 * Off(m, e, w) = e /\ w % 2 = 0
  BY <1>6, <1>7 DEF Stands
<1>11. /\ Adjust(n, d, "Down") = 0
       /\ Adjust(n, d, "HalfUp") = IF 2 * r >= e THEN Away(n, d) ELSE 0
       /\ Adjust(n, d, "HalfEven") = IF 2 * r > e \/ (2 * r = e /\ q % 2 # 0) THEN Away(n, d) ELSE 0
  BY <1>5, <1>8 DEF Adjust
<1>12. Quotient(n, d) \in Int /\ Remainder(n, d) \in Int
  BY <1>1
<1>13. Stands(u, f, "Exact") <=> Remainder(n, d) = 0 /\ u = Quotient(n, d)
  BY <1>1, <1>5, <1>9, <1>10 DEF RoundedAt
<1> HIDE DEF f, m, e
<1>14. ASSUME NEW by \in Roundings
       PROVE  /\ Adjust(n, d, by) \in Int
              /\ Remainder(n, d) = 0 => Adjust(n, d, by) = 0
              /\ Stands(u, f, by) <=> u = Quotient(n, d) + Adjust(n, d, by)
  <2>1. by = "Down" \/ by = "HalfUp" \/ by = "HalfEven"
    BY DEF Roundings
  <2>2. CASE by = "Down"
    BY <1>1, <1>3, <1>5, <1>9, <1>10, <1>11, <2>2 DEF RoundedAt
  <2>3. CASE by = "HalfUp"
    BY <1>1, <1>3, <1>5, <1>9, <1>10, <1>11, <2>3 DEF RoundedAt
  <2>4. CASE by = "HalfEven"
    BY <1>1, <1>3, <1>5, <1>9, <1>10, <1>11, <2>4 DEF RoundedAt
  <2> QED
    BY <2>1, <2>2, <2>3, <2>4
<1> QED
  BY <1>12, <1>13, <1>14 DEF f

\* As many times two numbers stand to each other as the two do.
LEMMA Times ==
  ASSUME NEW a \in Nat \ {0}, NEW x \in Int, NEW y \in Int
  PROVE  /\ a * x \in Int /\ a * y \in Int
         /\ a * x < a * y <=> x < y
         /\ a * x = a * y <=> x = y
PROOF
<1>1. \A z \in Nat \ {0} : a * z > 0
  OBVIOUS
<1>2. a * (y - x) = a * y - a * x /\ a * (x - y) = a * x - a * y
  OBVIOUS
<1>3. a * x \in Int /\ a * y \in Int
  OBVIOUS
<1>4. CASE x < y
  <2>1. y - x \in Nat \ {0}
    BY <1>4
  <2>2. a * (y - x) > 0
    BY <1>1, <2>1
  <2> QED
    BY <1>2, <1>3, <1>4, <2>2
<1>5. CASE y < x
  <2>1. x - y \in Nat \ {0}
    BY <1>5
  <2>2. a * (x - y) > 0
    BY <1>1, <2>1
  <2> QED
    BY <1>2, <1>3, <1>5, <2>2
<1> QED
  BY <1>3, <1>4, <1>5

\* What stands for a fraction stands for it however it is extended.
Fraction(n, d) == [n |-> n, d |-> d]
Methods == Roundings \cup {"Exact"}

LEMMA SameFraction ==
  ASSUME NEW n \in Int, NEW d \in Int, NEW a \in Nat \ {0}, NEW u \in Int, NEW by \in Methods
  PROVE  Stands(u, Fraction(n * a, d * a), by) <=> Stands(u, Fraction(n, d), by)
PROOF
<1> DEFINE x == n - u * d
           y == u * d
<1>1. x \in Int /\ y \in Int /\ u * (d * a) = a * y
  OBVIOUS
<1>2. n * a - u * (d * a) = a * x
  OBVIOUS
<1>3. n * a = a * n /\ d * a = a * d
  OBVIOUS
<1>4. \A z \in Int : a * z \in Int /\ Magnitude(z) \in Nat /\ Magnitude(a * z) = a * Magnitude(z)
  <2> TAKE z \in Int
  <2>1. a * z \in Int /\ a * (-z) = -(a * z) /\ a * 0 = 0
    OBVIOUS
  <2>2. a * z < 0 <=> z < 0
    <3>1. a * z < a * 0 <=> z < 0
      BY Times
    <3> QED
      BY <2>1, <3>1
  <2> QED
    BY <2>1, <2>2 DEF Magnitude
<1> DEFINE off == Magnitude(x)
           one == Magnitude(d)
           mag == Magnitude(y)
           all == Magnitude(n)
<1>5. off \in Nat /\ one \in Nat /\ mag \in Nat /\ all \in Nat
  BY <1>1, <1>4
<1>6. /\ Magnitude(n * a - u * (d * a)) = a * off
      /\ Magnitude(d * a) = a * one
      /\ Magnitude(u * (d * a)) = a * mag
      /\ Magnitude(n * a) = a * all
  BY <1>1, <1>2, <1>3, <1>4
<1> HIDE DEF off, one, mag, all
<1>7. /\ a * off < a * one <=> off < one
      /\ a * mag < a * all <=> mag < all
      /\ a * mag = a * all <=> mag = all
      /\ a * all < a * mag <=> all < mag
      /\ a * off = a * 0 <=> off = 0
      /\ a * (2 * off) < a * one <=> 2 * off < one
      /\ a * (2 * off) = a * one <=> 2 * off = one
  <2>1. 0 \in Int /\ off \in Int /\ one \in Int /\ mag \in Int /\ all \in Int /\ 2 * off \in Int
    BY <1>5
  <2>2. a * off < a * one <=> off < one
    BY <2>1, Times
  <2>3. (a * mag < a * all <=> mag < all) /\ (a * mag = a * all <=> mag = all)
    BY <2>1, Times
  <2>4. a * all < a * mag <=> all < mag
    BY <2>1, Times
  <2>5. a * off = a * 0 <=> off = 0
    BY <2>1, Times
  <2>6. (a * (2 * off) < a * one <=> 2 * off < one) /\ (a * (2 * off) = a * one <=> 2 * off = one)
    BY <2>1, Times
  <2> QED
    BY <2>2, <2>3, <2>4, <2>5, <2>6
<1>8. /\ a * off \in Int /\ a * one \in Int /\ a * mag \in Int /\ a * all \in Int
      /\ a * (2 * off) = 2 * (a * off) /\ a * 0 = 0
  BY <1>5
<1>9. /\ Stands(u, Fraction(n, d), "Exact") <=> off = 0
      /\ Stands(u, Fraction(n, d), "Down") <=> off < one /\ mag <= all
      /\ Stands(u, Fraction(n, d), "HalfUp") <=> 2 * off < one \/ (2 * off = one /\ mag > all)
      /\ Stands(u, Fraction(n, d), "HalfEven") <=> 2 * off < one \/ (2 * off = one /\ u % 2 = 0)
  BY DEF Stands, Fraction, off, one, mag, all
<1>10. /\ Stands(u, Fraction(n * a, d * a), "Exact") <=> a * off = 0
       /\ Stands(u, Fraction(n * a, d * a), "Down") <=> a * off < a * one /\ a * mag <= a * all
       /\ Stands(u, Fraction(n * a, d * a), "HalfUp") <=>
            2 * (a * off) < a * one \/ (2 * (a * off) = a * one /\ a * mag > a * all)
       /\ Stands(u, Fraction(n * a, d * a), "HalfEven") <=>
            2 * (a * off) < a * one \/ (2 * (a * off) = a * one /\ u % 2 = 0)
  BY <1>6 DEF Stands, Fraction
<1>11. by \in {"Exact", "Down", "HalfUp", "HalfEven"}
  BY DEF Methods, Roundings
<1> QED
  BY <1>5, <1>7, <1>8, <1>9, <1>10, <1>11

-----------------------------------------------------------------------------
(* Results.                                                                *)

\* What fits the narrow width fits the wide one, with whatever two of it, or
\* one and the places of a ratio, come to.
LEMMA WidthsHold ==
  /\ Units \subseteq Int /\ Units \subseteq Wide /\ 0 \in Units
  /\ \A a, b \in Units : a * b \in Wide
  /\ \A a \in Units : a * Pow10(RatioScale) \in Wide
PROOF
<1> DEFINE c == MaxUnits + 1
<1>1. MaxUnits \in Nat /\ MaxWide \in Nat /\ c \in Nat /\ c * c <= MaxWide
  BY WidthsAssumption
<1>2. \A x \in Nat : x <= MaxWide => x \in Wide /\ -x \in Wide
  BY <1>1 DEF Wide
<1>3. ASSUME NEW a \in -c .. c, NEW e \in Nat, NEW b \in -e .. e, c * e <= MaxWide
      PROVE  a * b \in Wide
  <2>1. Magnitude(a) \in 0 .. c /\ Magnitude(b) \in 0 .. e
    BY <1>1 DEF Magnitude
  <2>2. ASSUME NEW x \in 0 .. c, NEW y \in 0 .. e PROVE x * y \in Nat /\ x * y <= MaxWide
    <3>1. c - x \in Nat /\ e - y \in Nat /\ x \in Nat /\ y \in Nat
      BY <1>1
    <3>2. (c - x) * e \in Nat /\ x * (e - y) \in Nat
      BY <3>1
    <3>3. (c - x) * e = c * e - x * e /\ x * (e - y) = x * e - x * y
      BY <1>1
    <3>4. c * e \in Int /\ x * e \in Int /\ x * y \in Nat
      BY <1>1, <3>1
    <3> QED
      BY <1>1, <1>3, <3>2, <3>3, <3>4
  <2>3. Magnitude(a) * Magnitude(b) \in Wide /\ -(Magnitude(a) * Magnitude(b)) \in Wide
    BY <1>2, <2>1, <2>2
  <2>4. \A x, y \in Int : (-x) * (-y) = x * y /\ (-x) * y = -(x * y) /\ x * (-y) = -(x * y)
    OBVIOUS
  <2>5. a * b = Magnitude(a) * Magnitude(b) \/ a * b = -(Magnitude(a) * Magnitude(b))
    BY <1>1, <2>4 DEF Magnitude
  <2> QED
    BY <2>3, <2>5
<1>4. \A a \in Units : a \in -c .. c
  BY <1>1 DEF Units
<1>5. Units \subseteq Int /\ 0 \in Units
  BY <1>1 DEF Units
<1>6. \A a, b \in Units : a * b \in Wide
  BY <1>1, <1>3, <1>4
<1>7. \A a \in Units : a * Pow10(RatioScale) \in Wide
  <2>1. Pow10(RatioScale) \in Nat /\ c * Pow10(RatioScale) <= MaxWide
    BY WidthsAssumption, PowersAre
  <2>2. Pow10(RatioScale) \in -Pow10(RatioScale) .. Pow10(RatioScale)
    BY <2>1
  <2> QED
    BY <1>3, <1>4, <2>1, <2>2
<1>8. Units \subseteq Wide
  <2>1. c * MaxUnits \in Nat /\ c * c = c * MaxUnits + c
    BY <1>1
  <2> QED
    BY <1>1, <2>1 DEF Units, Wide
<1> QED
  BY <1>5, <1>6, <1>7, <1>8

\* A result settles a fraction: it is refused as it should be, or is the one
\* whole number that stands for it, if that fits.
IsAlone(v, n, d, by) == v \in Int /\ \A u \in Int : Stands(u, Fraction(n, d), by) <=> u = v

Settles(result, n, d, by) ==
  \/ result = Raise("zero") /\ d = 0
  \/ /\ result = Raise("inexact") /\ d # 0 /\ by = "Exact"
     /\ \A u \in Int : ~Stands(u, Fraction(n, d), by)
  \/ d # 0 /\ \E v \in Int : result = Fit(v) /\ IsAlone(v, n, d, by)

\* A division that rounds.
LEMMA RoundDivSettles ==
  ASSUME NEW n \in Int, NEW d \in Int, NEW by \in Roundings
  PROVE  Settles(RoundDiv(n, d, by), n, d, by)
PROOF
<1>1. CASE d = 0
  BY <1>1 DEF RoundDiv, Settles
<1>2. CASE d # 0
  <2> DEFINE v == Quotient(n, d) + Adjust(n, d, by)
  <2>1. /\ Quotient(n, d) \in Int /\ Adjust(n, d, by) \in Int
        /\ Remainder(n, d) = 0 => Adjust(n, d, by) = 0
        /\ \A u \in Int : Stands(u, Fraction(n, d), by) <=> u = v
    <3>1. 0 \in Int
      OBVIOUS
    <3> QED
      BY <1>2, <3>1, OneStands DEF Fraction
  <2>2. v \in Int /\ (Remainder(n, d) = 0 => v = Quotient(n, d))
    BY <2>1
  <2>3. Widened(v, Fit(v)) = Fit(v)
    BY WidthsHold DEF Widened, Fit
  <2>4. RoundDiv(n, d, by) = Fit(v)
    BY <1>2, <2>2, <2>3 DEF RoundDiv
  <2> HIDE DEF v
  <2> QED
    BY <1>2, <2>1, <2>2, <2>4 DEF Settles, IsAlone
<1> QED
  BY <1>1, <1>2

\* A division that may not.
LEMMA ExactDivSettles ==
  ASSUME NEW n \in Int, NEW d \in Int
  PROVE  Settles(ExactDiv(n, d), n, d, "Exact")
PROOF
<1>1. CASE d = 0
  BY <1>1 DEF ExactDiv, Settles
<1>2. CASE d # 0
  <2> DEFINE v == Quotient(n, d)
  <2>1. /\ v \in Int
        /\ \A u \in Int : Stands(u, Fraction(n, d), "Exact") <=> Remainder(n, d) = 0 /\ u = v
    <3>1. 0 \in Int
      OBVIOUS
    <3> QED
      BY <1>2, <3>1, OneStands DEF Fraction
  <2>2. ExactDiv(n, d) = IF Remainder(n, d) # 0 THEN Raise("inexact") ELSE Fit(v)
    BY <1>2 DEF ExactDiv
  <2> HIDE DEF v
  <2> QED
    BY <1>2, <2>1, <2>2 DEF Settles, IsAlone
<1> QED
  BY <1>1, <1>2

\* A division toward zero.
LEMMA QuotientSettles ==
  ASSUME NEW n \in Int, NEW d \in Int, d # 0
  PROVE  Settles(Fit(Quotient(n, d)), n, d, "Down")
PROOF
<1>1. Adjust(n, d, "Down") = 0
  BY DEF Adjust
<1>2. "Down" \in Roundings
  BY DEF Roundings
<1>3. ASSUME NEW u \in Int PROVE Stands(u, Fraction(n, d), "Down") <=> u = Quotient(n, d)
  <2>1. Quotient(n, d) \in Int /\ (Stands(u, Fraction(n, d), "Down") <=> u = Quotient(n, d) + Adjust(n, d, "Down"))
    BY <1>2, OneStands DEF Fraction
  <2> QED
    BY <1>1, <2>1
<1>4. Quotient(n, d) \in Int
  <2>1. 0 \in Int
    OBVIOUS
  <2> QED
    BY <2>1, OneStands
<1> QED
  BY <1>3, <1>4 DEF Settles, IsAlone

\* A whole number is itself.
LEMMA WholeSettles ==
  ASSUME NEW v \in Int
  PROVE  Settles(Fit(v), v, 1, "Exact")
PROOF
<1>1. ASSUME NEW u \in Int PROVE Stands(u, Fraction(v, 1), "Exact") <=> u = v
  BY DEF Stands, Fraction, Magnitude
<1> QED
  BY <1>1 DEF Settles, IsAlone

\* What is asked of an answer, and that a settled one is that, of the fraction
\* however it is extended.
Judged(raises, units, f, by) ==
  CASE raises = "no"       -> Stands(units, f, by)
    [] raises = "zero"     -> f.d = 0
    [] raises = "inexact"  -> by = "Exact" /\ f.n % Magnitude(f.d) # 0
    [] raises = "overflow" -> \A u \in Units : ~Stands(u, f, by)
    [] OTHER -> FALSE

LEMMA SettledIsJudged ==
  ASSUME NEW n \in Int, NEW d \in Int, NEW a \in Nat \ {0}, NEW by \in Methods, NEW result,
         Settles(result, n, d, by)
  PROVE  Judged(result.raises, result.units, Fraction(n * a, d * a), by)
PROOF
<1> DEFINE f == Fraction(n * a, d * a)
<1>1. \A u \in Int : Stands(u, f, by) <=> Stands(u, Fraction(n, d), by)
  BY SameFraction
<1>2. f.n = n * a /\ f.d = d * a /\ f.n \in Int /\ f.d \in Int
  BY DEF Fraction
<1> HIDE DEF f
<1>3. CASE result = Raise("zero") /\ d = 0
  <2>1. 0 * a = 0
    OBVIOUS
  <2> QED
    BY <1>2, <1>3, <2>1 DEF Judged, Raise, f
<1>4. CASE /\ result = Raise("inexact") /\ d # 0 /\ by = "Exact"
           /\ \A u \in Int : ~Stands(u, Fraction(n, d), by)
  <2> SUFFICES ASSUME f.n % Magnitude(f.d) = 0 PROVE FALSE
    BY <1>4 DEF Judged, Raise, f
  <2> DEFINE x == f.n
             e == Magnitude(f.d)
  <2>1. f.d # 0
    <3>1. (a * d = a * 0 <=> d = 0) /\ a * d = d * a /\ a * 0 = 0
      <4>1. 0 \in Int
        OBVIOUS
      <4> QED
        BY <4>1, Times
    <3> QED
      BY <1>2, <1>4, <3>1
  <2>2. x \in Int /\ e \in Nat \ {0} /\ x % e = 0 /\ (f.d = e \/ f.d = -e)
    BY <1>2, <2>1 DEF Magnitude
  <2> HIDE DEF x, e
  <2>3. x \div e \in Int /\ x = e * (x \div e) + (x % e)
    BY <2>2
  <2> DEFINE k == x \div e
  <2>4. k \in Int /\ x = e * k
    BY <2>2, <2>3
  <2> HIDE DEF k
  <2>5. \E u \in Int : x - u * f.d = 0
    <3>1. k * e = e * k /\ (-k) * (-e) = e * k
      BY <2>2, <2>4
    <3>2. CASE f.d = e
      BY <2>2, <2>4, <3>1, <3>2
    <3>3. CASE f.d = -e
      <4>1. -k \in Int /\ x - (-k) * f.d = 0
        BY <2>2, <2>4, <3>1, <3>3
      <4> QED
        BY <4>1
    <3> QED
      BY <2>2, <3>2, <3>3
  <2>6. PICK u \in Int : x - u * f.d = 0
    BY <2>5
  <2>7. Stands(u, f, "Exact")
    BY <2>6 DEF Stands, Magnitude, x
  <2> QED
    BY <1>1, <1>4, <2>7
<1>5. CASE d # 0 /\ \E v \in Int : result = Fit(v) /\ IsAlone(v, n, d, by)
  <2>1. PICK v \in Int : result = Fit(v) /\ IsAlone(v, n, d, by)
    BY <1>5
  <2>2. \A u \in Int : Stands(u, f, by) <=> u = v
    BY <1>1, <2>1 DEF IsAlone
  <2>3. Units \subseteq Int
    BY WidthsHold
  <2>4. CASE v \in Units
    <3>1. result.raises = "no" /\ result.units = v
      BY <2>1, <2>4 DEF Fit
    <3> QED
      BY <2>2, <3>1 DEF Judged, f
  <2>5. CASE v \notin Units
    <3>1. result.raises = "overflow"
      BY <2>1, <2>5 DEF Fit, Raise
    <3>2. \A u \in Units : ~Stands(u, f, by)
      BY <2>2, <2>3, <2>5
    <3> QED
      BY <3>1, <3>2 DEF Judged, f
  <2> QED
    BY <2>4, <2>5
<1> QED
  BY <1>3, <1>4, <1>5 DEF Settles

-----------------------------------------------------------------------------
(* Operations.                                                             *)

\* A calculation's result settles what it should exactly be.
Meets(op, l, r, by, scale, result) ==
  \E n \in Int, d \in Int, a \in Nat \ {0} :
     Exactly(op, l, r, scale) = Fraction(n * a, d * a) /\ Settles(result, n, d, by)

IsAmount(a) ==
  /\ a.units \in Units
  /\ \/ a.is = "Int" /\ a.scale = 0
     \/ a.is \in {"Decimal", "Money"} /\ a.scale \in Nat

LEMMA AmountsAre ==
  /\ \A a \in Amounts : IsAmount(a) /\ IsAmount(Amount(TypeOf(a), 0))
  /\ \A a : IsAmount(a) => a.units \in Int /\ a.scale \in Nat /\ Pow10(a.scale) \in Nat \ {0}
PROOF
<1>1. ASSUME NEW a \in Amounts PROVE IsAmount(a) /\ IsAmount(Amount(TypeOf(a), 0))
  <2>1. \A is, scale : TypeOf(a) = Bare(is, scale) => a.is = is /\ a.scale = scale
    BY DEF TypeOf, Bare
  <2>2. a.units \in Units
    BY AmountsAssumption
  <2>3. CASE TypeOf(a) = Bare("Int", 0)
    BY <2>1, <2>2, <2>3, WidthsHold DEF IsAmount, Amount, TypeOf, Bare
  <2>4. CASE \E scale \in 0 .. MaxScale : TypeOf(a) \in {Bare("Decimal", scale), Bare("Money", scale)}
    <3>1. PICK scale \in 0 .. MaxScale : TypeOf(a) \in {Bare("Decimal", scale), Bare("Money", scale)}
      BY <2>4
    <3>2. a.is \in {"Decimal", "Money"} /\ a.scale = scale /\ scale \in Nat
      BY <2>1, <3>1
    <3> QED
      BY <2>2, <3>2, WidthsHold DEF IsAmount, Amount, TypeOf, Bare
  <2> QED
    BY <2>3, <2>4, AmountsAssumption
<1>2. ASSUME NEW a, IsAmount(a)
      PROVE  a.units \in Int /\ a.scale \in Nat /\ Pow10(a.scale) \in Nat \ {0}
  <2>1. a.units \in Units /\ Units \subseteq Int
    BY <1>2, WidthsHold DEF IsAmount
  <2>2. a.scale = 0 \/ a.scale \in Nat
    BY <1>2 DEF IsAmount
  <2>3. a.scale \in Nat
    BY <2>2
  <2> QED
    BY <2>1, <2>3, PowersAre
<1> QED
  BY <1>1, <1>2

\* Those of one scale are added and taken away.
LEMMA AddsAndTakes ==
  ASSUME NEW l, IsAmount(l), NEW r, IsAmount(r), l.scale = r.scale, NEW op \in {"+", "-"}
  PROVE  Meets(op, l, r, "Exact", l.scale, Arith(op, l.units, r.units))
PROOF
<1> DEFINE x == l.units
           y == r.units
           p == Pow10(l.scale)
           v == IF op = "+" THEN x + y ELSE x - y
<1>1. x \in Int /\ y \in Int /\ p \in Nat \ {0} /\ Pow10(r.scale) = p
  BY AmountsAre
<1>2. Pow10(l.scale + r.scale) = p * p
  BY AmountsAre, PowersMultiply
<1>3. Arith(op, x, y) = Fit(v)
  BY DEF Arith
<1>4. Exactly(op, l, r, l.scale)
        = Fraction((IF op = "+" THEN x * p + y * p ELSE x * p - y * p) * p, p * p)
  BY <1>1, <1>2 DEF Exactly, Fraction
<1> HIDE DEF x, y, p
<1>5. v \in Int /\ p * p \in Nat \ {0} /\ 1 * (p * p) = p * p
  BY <1>1
<1>6. (IF op = "+" THEN x * p + y * p ELSE x * p - y * p) * p = v * (p * p)
  <2>1. (x + y) * (p * p) = (x * p + y * p) * p /\ (x - y) * (p * p) = (x * p - y * p) * p
    BY <1>1
  <2> QED
    BY <2>1
<1> HIDE DEF v
<1>7. Settles(Fit(v), v, 1, "Exact")
  BY <1>5, WholeSettles
<1>8. Exactly(op, l, r, l.scale) = Fraction(v * (p * p), 1 * (p * p))
  BY <1>4, <1>5, <1>6
<1>9. Arith(op, l.units, r.units) = Fit(v)
  BY <1>3 DEF x, y
<1> QED
  <2> DEFINE a == p * p
  <2>1. a \in Nat \ {0} /\ v \in Int /\ 1 \in Int /\ Exactly(op, l, r, l.scale) = Fraction(v * a, 1 * a)
    BY <1>5, <1>8
  <2> HIDE DEF a
  <2> QED
    BY <1>7, <1>9, <2>1 DEF Meets

\* A whole number of times.
LEMMA Multiplies ==
  ASSUME NEW l, IsAmount(l), NEW r, IsAmount(r), NEW scale,
         \/ r.scale = 0 /\ scale = l.scale
         \/ l.scale = 0 /\ scale = r.scale
  PROVE  Meets("*", l, r, "Exact", scale, Arith("*", l.units, r.units))
PROOF
<1> DEFINE v == l.units * r.units
           p == Pow10(scale)
<1>1. v \in Int /\ p \in Nat \ {0} /\ l.scale + r.scale = scale
  BY AmountsAre
<1>2. Arith("*", l.units, r.units) = Fit(v)
  BY DEF Arith
<1>3. Exactly("*", l, r, scale) = Fraction(v * p, 1 * p)
  BY <1>1 DEF Exactly, Fraction
<1> HIDE DEF v, p
<1> QED
  <2>1. Settles(Fit(v), v, 1, "Exact") /\ 1 \in Int
    BY <1>1, WholeSettles
  <2> QED
    BY <1>1, <1>2, <1>3, <2>1 DEF Meets

\* Divided by a whole number, in each of the ways there are.
LEMMA DividesByWhole ==
  ASSUME NEW l, IsAmount(l), NEW r, IsAmount(r), r.scale = 0
  PROVE  /\ Meets("/", l, r, "Down", l.scale, Arith("/", l.units, r.units))
         /\ Meets("/", l, r, "Exact", l.scale, ExactDiv(l.units, r.units))
         /\ \A by \in Roundings : Meets("/", l, r, by, l.scale, RoundDiv(l.units, r.units, by))
PROOF
<1> DEFINE n == l.units
           d == r.units
           p == Pow10(l.scale)
<1>1. n \in Int /\ d \in Int /\ p \in Nat \ {0}
  BY AmountsAre
<1>2. Exactly("/", l, r, l.scale) = Fraction(n * p, d * p)
  <2>1. Exactly("/", l, r, l.scale) = Fraction(n * 1 * p, d * p)
    BY PowersAre DEF Exactly, Fraction
  <2> QED
    BY <1>1, <2>1
<1>3. Settles(Arith("/", n, d), n, d, "Down")
  <2>1. CASE d = 0
    <3>1. Arith("/", n, d) = Raise("zero")
      BY <2>1 DEF Arith
    <3> QED
      BY <2>1, <3>1 DEF Settles
  <2>2. CASE d # 0
    <3>1. Arith("/", n, d) = Fit(Quotient(n, d))
      BY <2>2 DEF Arith
    <3> HIDE DEF n, d
    <3> QED
      BY <1>1, <2>2, <3>1, QuotientSettles
  <2> QED
    BY <2>1, <2>2
<1>4. Settles(ExactDiv(n, d), n, d, "Exact")
  BY <1>1, ExactDivSettles
<1>5. \A by \in Roundings : Settles(RoundDiv(n, d, by), n, d, by)
  BY <1>1, RoundDivSettles
<1>6. Meets("/", l, r, "Down", l.scale, Arith("/", n, d))
  BY <1>1, <1>2, <1>3 DEF Meets
<1>7. Meets("/", l, r, "Exact", l.scale, ExactDiv(n, d))
  BY <1>1, <1>2, <1>4 DEF Meets
<1>8. ASSUME NEW by \in Roundings PROVE Meets("/", l, r, by, l.scale, RoundDiv(n, d, by))
  BY <1>1, <1>2, <1>5 DEF Meets
<1> QED
  BY <1>6, <1>7, <1>8

\* The ratio of two of one scale.
LEMMA TakesTheRatio ==
  ASSUME NEW l, IsAmount(l), NEW r, IsAmount(r), l.scale = r.scale
  PROVE  Meets("/", l, r, "HalfUp", RatioScale, Ratio(l.units, r.units))
PROOF
<1> DEFINE n == l.units * Pow10(RatioScale)
           d == r.units
           p == Pow10(l.scale)
<1>1. l.units \in Int /\ d \in Int /\ p \in Nat \ {0} /\ Pow10(RatioScale) \in Nat
  BY AmountsAre, PowersAre, WidthsAssumption
<1>2. n \in Int
  BY <1>1
<1>3. Ratio(l.units, r.units) = RoundDiv(n, d, "HalfUp")
  BY WidthsHold DEF Ratio, Widened, IsAmount
<1>4. Exactly("/", l, r, RatioScale) = Fraction(n * p, d * p)
  <2>1. Exactly("/", l, r, RatioScale) = Fraction(l.units * p * Pow10(RatioScale), d * p)
    BY DEF Exactly, Fraction
  <2>2. l.units * p * Pow10(RatioScale) = n * p
    <3>1. \A x, y, z \in Int : x * y * z = (x * z) * y
      OBVIOUS
    <3> QED
      BY <1>1, <3>1
  <2> QED
    BY <2>1, <2>2
<1>5. "HalfUp" \in Roundings
  BY DEF Roundings
<1> HIDE DEF n, d, p
<1> QED
  BY <1>1, <1>2, <1>3, <1>4, <1>5, RoundDivSettles DEF Meets

\* Money times a decimal, at the money's scale, from either side.
LEMMA TakesAPart ==
  ASSUME NEW l, IsAmount(l), NEW r, IsAmount(r)
  PROVE  /\ Meets("*", l, r, "Exact", l.scale, MulRatioExact(l.units, r.units, r.scale))
         /\ Meets("*", l, r, "Exact", r.scale, MulRatioExact(r.units, l.units, l.scale))
         /\ \A by \in Roundings :
              Meets("*", l, r, by, l.scale, MulRatio(l.units, r.units, r.scale, by))
PROOF
<1> DEFINE n == l.units * r.units
           p == Pow10(l.scale)
           q == Pow10(r.scale)
<1>1. /\ l.units \in Int /\ r.units \in Int /\ n \in Int
      /\ p \in Nat \ {0} /\ q \in Nat \ {0}
  BY AmountsAre
<1>2. Pow10(l.scale + r.scale) = p * q
  BY AmountsAre, PowersMultiply
<1>3. p * q = q * p /\ r.units * l.units = n
  BY <1>1
<1>4. n \in Wide
  BY WidthsHold DEF IsAmount
<1>5. /\ Exactly("*", l, r, l.scale) = Fraction(n * p, q * p)
      /\ Exactly("*", l, r, r.scale) = Fraction(n * q, p * q)
  BY <1>2, <1>3 DEF Exactly, Fraction
<1>6. /\ MulRatioExact(l.units, r.units, r.scale) = ExactDiv(n, q)
      /\ MulRatioExact(r.units, l.units, l.scale) = ExactDiv(n, p)
      /\ \A by \in Roundings : MulRatio(l.units, r.units, r.scale, by) = RoundDiv(n, q, by)
  BY <1>3, <1>4 DEF MulRatioExact, MulRatio, Widened
<1> HIDE DEF n, p, q
<1>7. Settles(ExactDiv(n, q), n, q, "Exact") /\ Settles(ExactDiv(n, p), n, p, "Exact")
  BY <1>1, ExactDivSettles
<1>8. \A by \in Roundings : Settles(RoundDiv(n, q, by), n, q, by)
  BY <1>1, RoundDivSettles
<1>9. p \in Int /\ q \in Int
  BY <1>1
<1>10. Meets("*", l, r, "Exact", l.scale, ExactDiv(n, q))
  BY <1>1, <1>5, <1>7, <1>9 DEF Meets
<1>11. Meets("*", l, r, "Exact", r.scale, ExactDiv(n, p))
  BY <1>1, <1>5, <1>7, <1>9 DEF Meets
<1>12. ASSUME NEW by \in Roundings PROVE Meets("*", l, r, by, l.scale, RoundDiv(n, q, by))
  BY <1>1, <1>5, <1>8, <1>9 DEF Meets
<1> QED
  BY <1>6, <1>10, <1>11, <1>12

\* What the table says of the types and what runs, of each pair there is.
Same(l, r) == l.is = r.is /\ l.scale = r.scale

Plain(op, l, r) ==
  \/ l.is = "Int" /\ r.is = "Int"
  \/ Same(l, r) /\ l.is \in {"Decimal", "Money"} /\ op \in {"+", "-"}
  \/ l.is = "Decimal" /\ r.is = "Int" /\ op \in {"*", "/"}
  \/ l.is = "Money" /\ r.is = "Int" /\ op = "*"
Turned(op, l, r) == l.is = "Int" /\ r.is \in {"Decimal", "Money"} /\ op = "*"
Ratioed(op, l, r) == l.is = "Money" /\ Same(l, r) /\ op = "/"
Shared(op, l, r) == l.is = "Money" /\ r.is = "Int" /\ op = "/"
Parted(op, l, r) == l.is = "Money" /\ r.is = "Decimal" /\ op = "*"
PartOf(op, l, r) == l.is = "Decimal" /\ r.is = "Money" /\ op = "*"
Allowed(op, l, r) ==
  \/ Plain(op, l, r) \/ Turned(op, l, r) \/ Ratioed(op, l, r)
  \/ Shared(op, l, r) \/ Parted(op, l, r) \/ PartOf(op, l, r)

Entry(op, l, r, is, scale, result) ==
  /\ Arithmetic(op, TypeOf(l), TypeOf(r)) = Bare(is, scale)
  /\ Binary(op, l, r) = As(is, scale, result)

LEMMA TheTables ==
  ASSUME NEW op \in Operators, NEW l, IsAmount(l), NEW r, IsAmount(r)
  PROVE  /\ Plain(op, l, r) => Entry(op, l, r, l.is, l.scale, Arith(op, l.units, r.units))
         /\ Turned(op, l, r) => Entry(op, l, r, r.is, r.scale, Arith(op, l.units, r.units))
         /\ Ratioed(op, l, r) => Entry(op, l, r, "Decimal", RatioScale, Ratio(l.units, r.units))
         /\ Shared(op, l, r) => Entry(op, l, r, "Money", l.scale, ExactDiv(l.units, r.units))
         /\ Parted(op, l, r) =>
              Entry(op, l, r, "Money", l.scale, MulRatioExact(l.units, r.units, r.scale))
         /\ PartOf(op, l, r) =>
              Entry(op, l, r, "Money", r.scale, MulRatioExact(r.units, l.units, l.scale))
         /\ ~Allowed(op, l, r) =>
              Arithmetic(op, TypeOf(l), TypeOf(r)) = NoType /\ Binary(op, l, r) = NoOperands
PROOF
<1> DEFINE L == TypeOf(l)
           R == TypeOf(r)
           plain == Arith(op, l.units, r.units)
<1>1. /\ L.is = l.is /\ L.scale = l.scale /\ R.is = r.is /\ R.scale = r.scale
      /\ L = Bare(l.is, l.scale) /\ R = Bare(r.is, r.scale)
      /\ L = R <=> Same(l, r)
  BY DEF TypeOf, Bare, Same
<1>2. l.is \in {"Int", "Decimal", "Money"} /\ r.is \in {"Int", "Decimal", "Money"}
  BY DEF IsAmount
<1>3. (l.is = "Int" => l.scale = 0) /\ (r.is = "Int" => r.scale = 0)
  BY DEF IsAmount
<1> HIDE DEF L, R, plain
<1>4. ASSUME Plain(op, l, r) PROVE Entry(op, l, r, l.is, l.scale, plain)
  <2>1. Arithmetic(op, L, R) = L
    BY <1>1, <1>2, <1>4 DEF Arithmetic, Plain
  <2>2. Binary(op, l, r) = As(l.is, l.scale, plain)
    BY <1>1, <1>2, <1>3, <1>4 DEF Binary, Plain, L, R, plain
  <2> QED
    BY <1>1, <2>1, <2>2 DEF Entry, L, R
<1>5. ASSUME Turned(op, l, r) PROVE Entry(op, l, r, r.is, r.scale, plain)
  <2>1. Arithmetic(op, L, R) = R
    BY <1>1, <1>2, <1>5 DEF Arithmetic, Turned
  <2>2. Binary(op, l, r) = As(r.is, r.scale, plain)
    BY <1>1, <1>2, <1>3, <1>5 DEF Binary, Turned, L, R, plain
  <2> QED
    BY <1>1, <2>1, <2>2 DEF Entry, L, R
<1>6. ASSUME Ratioed(op, l, r)
      PROVE  Entry(op, l, r, "Decimal", RatioScale, Ratio(l.units, r.units))
  <2>1. Arithmetic(op, L, R) = Bare("Decimal", RatioScale)
    BY <1>1, <1>2, <1>6 DEF Arithmetic, Ratioed
  <2>2. Binary(op, l, r) = As("Decimal", RatioScale, Ratio(l.units, r.units))
    BY <1>1, <1>2, <1>6 DEF Binary, Ratioed, L, R
  <2> QED
    BY <2>1, <2>2 DEF Entry, L, R
<1>7. ASSUME Shared(op, l, r)
      PROVE  Entry(op, l, r, "Money", l.scale, ExactDiv(l.units, r.units))
  <2>1. Arithmetic(op, L, R) = L
    BY <1>1, <1>2, <1>7 DEF Arithmetic, Shared, Same
  <2>2. Binary(op, l, r) = As("Money", l.scale, ExactDiv(l.units, r.units))
    BY <1>1, <1>2, <1>7 DEF Binary, Shared, L, R, Same
  <2> QED
    BY <1>1, <1>7, <2>1, <2>2 DEF Entry, Shared, L, R
<1>8. ASSUME Parted(op, l, r)
      PROVE  Entry(op, l, r, "Money", l.scale, MulRatioExact(l.units, r.units, r.scale))
  <2>1. Arithmetic(op, L, R) = L
    BY <1>1, <1>2, <1>8 DEF Arithmetic, Parted, Same
  <2>2. Binary(op, l, r) = As("Money", l.scale, MulRatioExact(l.units, r.units, r.scale))
    BY <1>1, <1>2, <1>8 DEF Binary, Parted, L, R, Same
  <2> QED
    BY <1>1, <1>8, <2>1, <2>2 DEF Entry, Parted, L, R
<1>9. ASSUME PartOf(op, l, r)
      PROVE  Entry(op, l, r, "Money", r.scale, MulRatioExact(r.units, l.units, l.scale))
  <2>1. Arithmetic(op, L, R) = R
    BY <1>1, <1>2, <1>9 DEF Arithmetic, PartOf, Same
  <2>2. Binary(op, l, r) = As("Money", r.scale, MulRatioExact(r.units, l.units, l.scale))
    BY <1>1, <1>2, <1>9 DEF Binary, PartOf, L, R, Same
  <2> QED
    BY <1>1, <1>9, <2>1, <2>2 DEF Entry, PartOf, L, R
<1>10. ASSUME ~Allowed(op, l, r) PROVE Arithmetic(op, L, R) = NoType /\ Binary(op, l, r) = NoOperands
  <2>1. Arithmetic(op, L, R) = NoType
    BY <1>1, <1>2, <1>10
       DEF Arithmetic, Allowed, Plain, Turned, Ratioed, Shared, Parted, PartOf, Same
  <2>2. Binary(op, l, r) = NoOperands
    BY <1>1, <1>2, <1>10
       DEF Binary, Allowed, Plain, Turned, Ratioed, Shared, Parted, PartOf, Same, L, R
  <2> QED
    BY <2>1, <2>2
<1> QED
  BY <1>4, <1>5, <1>6, <1>7, <1>8, <1>9, <1>10 DEF L, R, plain

\* What is left over has the sign of what was divided, and is less than what
\* divided it.
LeftOver(a, b, result) ==
  CASE result.raises = "zero" -> b = 0
    [] result.raises = "overflow" -> Quotient(a, b) \notin Units
    [] OTHER -> /\ result.raises = "no"
                /\ \E q \in Units : q * b + result.units = a
                /\ Magnitude(result.units) < Magnitude(b)
                /\ result.units * a >= 0

LEMMA Remainders ==
  ASSUME NEW a \in Units, NEW b \in Units
  PROVE  LeftOver(a, b, Arith("%", a, b))
PROOF
<1>1. a \in Int /\ b \in Int
  BY WidthsHold
<1>2. CASE b = 0
  <2>1. Arith("%", a, b) = Raise("zero")
    BY <1>2 DEF Arith
  <2> QED
    BY <1>2, <2>1 DEF LeftOver, Raise
<1>3. CASE b # 0 /\ Quotient(a, b) \notin Units
  <2>1. Arith("%", a, b) = Raise("overflow")
    BY <1>3 DEF Arith
  <2> QED
    BY <1>3, <2>1 DEF LeftOver, Raise
<1>4. CASE b # 0 /\ Quotient(a, b) \in Units
  <2>1. PICK q \in Nat, r \in Nat :
          /\ Magnitude(a) \in Nat /\ Magnitude(b) \in Nat \ {0} /\ r < Magnitude(b)
          /\ Magnitude(a) = Magnitude(b) * q + r
          /\ Quotient(a, b) = IF (a < 0) = (b < 0) THEN q ELSE -q
          /\ Remainder(a, b) = IF a < 0 THEN -r ELSE r
    BY <1>1, <1>4, Divides
  <2> DEFINE x == Remainder(a, b)
             k == Quotient(a, b)
  <2>2. x \in Int /\ k \in Int /\ x = a - b * k
    BY <1>1, <2>1 DEF Remainder
  <2>3. x \in Units
    <3>1. Magnitude(b) <= MaxUnits + 1 /\ MaxUnits \in Nat
      BY WidthsAssumption DEF Units, Magnitude
    <3> QED
      BY <2>1, <3>1 DEF Units
  <2>4. Arith("%", a, b) = [raises |-> "no", units |-> x]
    <3>1. Arith("%", a, b) = Fit(x)
      BY <1>4 DEF Arith
    <3> QED
      BY <2>3, <3>1 DEF Fit
  <2>5. Magnitude(x) < Magnitude(b)
    BY <2>1 DEF Magnitude
  <2>6. x * a >= 0
    <3>1. \A y, z \in Nat : y * z \in Nat /\ (-y) * (-z) = y * z
      OBVIOUS
    <3>2. a = IF a < 0 THEN -Magnitude(a) ELSE Magnitude(a)
      BY <1>1 DEF Magnitude
    <3>3. r * Magnitude(a) \in Nat /\ x * a = r * Magnitude(a)
      BY <2>1, <3>1, <3>2
    <3> QED
      BY <3>3
  <2>7. k \in Units /\ k * b + x = a
    <3>1. k * b = b * k /\ b * k \in Int
      BY <1>1, <2>2
    <3> HIDE DEF k, x
    <3>2. k * b + x = a
      BY <1>1, <2>2, <3>1
    <3> QED
      BY <1>4, <3>2 DEF k
  <2> HIDE DEF x, k
  <2>8. \E c \in Units : c * b + x = a
    BY <2>7
  <2> QED
    BY <2>4, <2>5, <2>6, <2>8 DEF LeftOver
<1> QED
  BY <1>2, <1>3, <1>4

-----------------------------------------------------------------------------
(* Answers.                                                                *)

\* `AnswersStand`, of one calculation.
Answers(op, l, r, rounding, result) ==
  LET type == Arithmetic(op, TypeOf(l), TypeOf(r))
      by   == IF rounding = "" THEN BareRounding(op, l, r) ELSE rounding
  IN  IF rounding = "" /\ type = NoType THEN result.raises = "operands"
      ELSE IF op = "%" THEN LeftOver(l.units, r.units, result)
      ELSE /\ rounding = "" => TypeOf(result) = type
           /\ Judged(result.raises, result.units, Exactly(op, l, r, result.scale), by)

LEMMA MetIsJudged ==
  ASSUME NEW op, NEW l, NEW r, NEW by \in Methods, NEW scale, NEW result,
         Meets(op, l, r, by, scale, result)
  PROVE  Judged(result.raises, result.units, Exactly(op, l, r, scale), by)
PROOF
<1>1. PICK n \in Int, d \in Int, a \in Nat \ {0} :
        Exactly(op, l, r, scale) = Fraction(n * a, d * a) /\ Settles(result, n, d, by)
  BY DEF Meets
<1>2. Judged(result.raises, result.units, Fraction(n * a, d * a), by)
  BY <1>1, SettledIsJudged
<1> QED
  BY <1>1, <1>2

\* A bare operator of two amounts.
LEMMA BareAnswers ==
  ASSUME NEW op \in Operators, NEW l, IsAmount(l), NEW r, IsAmount(r)
  PROVE  Answers(op, l, r, "", Binary(op, l, r))
PROOF
<1> DEFINE result == Binary(op, l, r)
           type == Arithmetic(op, TypeOf(l), TypeOf(r))
           by == BareRounding(op, l, r)
<1>1. CASE ~Allowed(op, l, r)
  <2>1. type = NoType /\ result.raises = "operands"
    BY <1>1, TheTables DEF NoOperands, As, Raise
  <2> QED
    BY <2>1 DEF Answers
<1>2. ASSUME Allowed(op, l, r), op = "%" PROVE Answers(op, l, r, "", result)
  <2>1. Plain(op, l, r) /\ l.is = "Int"
    BY <1>2 DEF Allowed, Plain, Turned, Ratioed, Shared, Parted, PartOf
  <2>2. /\ type = Bare("Int", l.scale)
        /\ result = As("Int", l.scale, Arith(op, l.units, r.units))
    BY <2>1, TheTables DEF Entry
  <2>3. type # NoType
    BY <2>2 DEF Bare, NoType
  <2>4. LeftOver(l.units, r.units, Arith(op, l.units, r.units))
    BY <1>2, Remainders DEF IsAmount
  <2>5. LeftOver(l.units, r.units, result)
    BY <2>2, <2>4 DEF LeftOver, As
  <2> HIDE DEF result
  <2> QED
    BY <1>2, <2>3, <2>5 DEF Answers
<1>3. ASSUME NEW is \in {"Int", "Decimal", "Money"}, NEW scale, NEW plain, op # "%",
             Entry(op, l, r, is, scale, plain), Meets(op, l, r, by, scale, plain)
      PROVE  Answers(op, l, r, "", result)
  <2>1. type = Bare(is, scale) /\ result = As(is, scale, plain)
    BY <1>3 DEF Entry
  <2>2. type # NoType /\ TypeOf(result) = type
    BY <2>1 DEF Bare, NoType, TypeOf, As
  <2>3. by \in Methods
    BY DEF BareRounding, Methods, Roundings
  <2>4. result.raises = plain.raises /\ result.units = plain.units /\ result.scale = scale
    BY <2>1 DEF As
  <2>5. Judged(result.raises, result.units, Exactly(op, l, r, result.scale), by)
    <3> HIDE DEF by, result
    <3> QED
      BY <1>3, <2>3, <2>4, MetIsJudged
  <2> HIDE DEF result
  <2> QED
    BY <1>3, <2>2, <2>5 DEF Answers
<1> HIDE DEF result
<1>4. /\ l.is \in {"Int", "Decimal", "Money"} /\ r.is \in {"Int", "Decimal", "Money"}
      /\ l.is = "Int" => l.scale = 0
      /\ r.is = "Int" => r.scale = 0
      /\ op \in {"+", "-", "*", "/", "%"}
  BY DEF IsAmount, Operators
<1>5. ASSUME Plain(op, l, r), op # "%" PROVE Answers(op, l, r, "", result)
  <2>1. Entry(op, l, r, l.is, l.scale, Arith(op, l.units, r.units))
    BY <1>5, TheTables
  <2>2. Meets(op, l, r, by, l.scale, Arith(op, l.units, r.units))
    <3>1. CASE op \in {"+", "-"}
      <4>1. l.scale = r.scale /\ by = "Exact"
        BY <1>4, <1>5, <3>1 DEF Plain, Same, BareRounding
      <4> QED
        BY <3>1, <4>1, AddsAndTakes
    <3>2. CASE op = "*"
      <4>1. r.scale = 0 /\ by = "Exact"
        BY <1>4, <1>5, <3>2 DEF Plain, BareRounding
      <4> QED
        BY <3>2, <4>1, Multiplies
    <3>3. CASE op = "/"
      <4>1. r.scale = 0 /\ by = "Down"
        BY <1>4, <1>5, <3>3 DEF Plain, BareRounding
      <4> QED
        BY <3>3, <4>1, DividesByWhole
    <3> QED
      BY <1>4, <1>5, <3>1, <3>2, <3>3
  <2> QED
    BY <1>3, <1>4, <1>5, <2>1, <2>2
<1>6. ASSUME Turned(op, l, r) PROVE Answers(op, l, r, "", result)
  <2>1. op = "*" /\ l.scale = 0 /\ by = "Exact"
    BY <1>4, <1>6 DEF Turned, BareRounding
  <2>2. Entry(op, l, r, r.is, r.scale, Arith(op, l.units, r.units))
    BY <1>6, TheTables
  <2>3. Meets(op, l, r, by, r.scale, Arith(op, l.units, r.units))
    BY <2>1, Multiplies
  <2> QED
    BY <1>3, <1>4, <2>1, <2>2, <2>3
<1>7. ASSUME Ratioed(op, l, r) PROVE Answers(op, l, r, "", result)
  <2>1. op = "/" /\ l.scale = r.scale /\ by = "HalfUp"
    BY <1>7 DEF Ratioed, Same, BareRounding
  <2>2. Entry(op, l, r, "Decimal", RatioScale, Ratio(l.units, r.units))
    BY <1>7, TheTables
  <2>3. Meets(op, l, r, by, RatioScale, Ratio(l.units, r.units))
    BY <2>1, TakesTheRatio
  <2> QED
    BY <1>3, <2>1, <2>2, <2>3
<1>8. ASSUME Shared(op, l, r) PROVE Answers(op, l, r, "", result)
  <2>1. op = "/" /\ r.scale = 0 /\ by = "Exact"
    BY <1>4, <1>8 DEF Shared, BareRounding
  <2>2. Entry(op, l, r, "Money", l.scale, ExactDiv(l.units, r.units))
    BY <1>8, TheTables
  <2>3. Meets(op, l, r, by, l.scale, ExactDiv(l.units, r.units))
    BY <2>1, DividesByWhole
  <2> QED
    BY <1>3, <2>1, <2>2, <2>3
<1>9. ASSUME Parted(op, l, r) PROVE Answers(op, l, r, "", result)
  <2>1. op = "*" /\ by = "Exact"
    BY <1>9 DEF Parted, BareRounding
  <2>2. Entry(op, l, r, "Money", l.scale, MulRatioExact(l.units, r.units, r.scale))
    BY <1>9, TheTables
  <2>3. Meets(op, l, r, by, l.scale, MulRatioExact(l.units, r.units, r.scale))
    BY <2>1, TakesAPart
  <2> QED
    BY <1>3, <2>1, <2>2, <2>3
<1>10. ASSUME PartOf(op, l, r) PROVE Answers(op, l, r, "", result)
  <2>1. op = "*" /\ by = "Exact"
    BY <1>10 DEF PartOf, BareRounding
  <2>2. Entry(op, l, r, "Money", r.scale, MulRatioExact(r.units, l.units, l.scale))
    BY <1>10, TheTables
  <2>3. Meets(op, l, r, by, r.scale, MulRatioExact(r.units, l.units, l.scale))
    BY <2>1, TakesAPart
  <2> QED
    BY <1>3, <2>1, <2>2, <2>3
<1> QED
  BY <1>1, <1>2, <1>5, <1>6, <1>7, <1>8, <1>9, <1>10 DEF Allowed, result

\* Money multiplied and divided as it is said to round.
LEMMA RoundedAnswers ==
  ASSUME NEW by \in Roundings, NEW l, IsAmount(l), NEW r, IsAmount(r)
  PROVE  /\ Answers("*", l, r, by, MoneyMul(l, r, by))
         /\ r.is = "Int" => Answers("/", l, r, by, MoneyDiv(l, r, by))
PROOF
<1>1. by \in Methods /\ by # ""
  BY DEF Methods, Roundings
<1>2. ASSUME NEW op \in {"*", "/"}, NEW plain, Meets(op, l, r, by, l.scale, plain)
      PROVE  Answers(op, l, r, by, As("Money", l.scale, plain))
  <2> DEFINE result == As("Money", l.scale, plain)
  <2>1. result.raises = plain.raises /\ result.units = plain.units /\ result.scale = l.scale
    BY DEF As
  <2> HIDE DEF result
  <2>2. Judged(plain.raises, plain.units, Exactly(op, l, r, l.scale), by)
    BY <1>1, <1>2, MetIsJudged
  <2>3. Judged(result.raises, result.units, Exactly(op, l, r, result.scale), by)
    BY <2>1, <2>2
  <2>4. op # "%"
    OBVIOUS
  <2>5. Answers(op, l, r, by, result)
    BY <1>1, <2>3, <2>4 DEF Answers
  <2> QED
    BY <2>5 DEF result
<1>3. Meets("*", l, r, by, l.scale, MulRatio(l.units, r.units, r.scale, by))
  BY TakesAPart
<1>4. ASSUME r.is = "Int" PROVE Meets("/", l, r, by, l.scale, RoundDiv(l.units, r.units, by))
  <2>1. r.scale = 0
    BY <1>4 DEF IsAmount
  <2> QED
    BY <2>1, DividesByWhole
<1> QED
  BY <1>2, <1>3, <1>4 DEF MoneyMul, MoneyDiv

\* A negation is what zero of its type comes to less it.
LEMMA NegationAnswers ==
  ASSUME NEW l, IsAmount(l), IsAmount(Amount(TypeOf(l), 0))
  PROVE  Answers("-", Amount(TypeOf(l), 0), l, "", Neg(l))
PROOF
<1> DEFINE zero == Amount(TypeOf(l), 0)
<1>1. zero.is = l.is /\ zero.scale = l.scale /\ zero.units = 0 /\ IsAmount(zero)
  BY DEF Amount, TypeOf, Bare
<1> HIDE DEF zero
<1>2. "-" \in Operators
  BY DEF Operators
<1>3. Plain("-", zero, l)
  BY <1>1 DEF Plain, Same, IsAmount
<1>4. Binary("-", zero, l) = As(l.is, l.scale, Arith("-", 0, l.units))
  BY <1>1, <1>2, <1>3, TheTables DEF Entry
<1>5. Arith("-", 0, l.units) = Fit(-l.units)
  <2>1. Arith("-", 0, l.units) = Fit(0 - l.units)
    BY DEF Arith
  <2>2. 0 - l.units = -l.units
    BY AmountsAre
  <2> QED
    BY <2>1, <2>2
<1>6. Neg(l) = Binary("-", zero, l)
  BY <1>4, <1>5 DEF Neg
<1>7. Answers("-", zero, l, "", Binary("-", zero, l))
  BY <1>1, <1>2, BareAnswers
<1> QED
  BY <1>6, <1>7 DEF zero

\* What is written out is read back whole, or refused for its places or for the
\* width.
LEMMA ReadBack ==
  ASSUME NEW l, IsAmount(l), NEW type, type.scale \in Nat
  PROVE  LET result == ParseScaled(Text(l), type)
         IN  CASE result.raises = "no" ->
                    result.units * Pow10(l.scale) = l.units * Pow10(type.scale)
               [] result.raises = "overflow" ->
                    l.units * Pow10(type.scale - l.scale) \notin Units
               [] OTHER -> type.scale < l.scale
PROOF
<1> DEFINE result == ParseScaled(Text(l), type)
           text == Text(l)
           p == Pow10(l.scale)
           digits == Magnitude(l.units)
<1>1. l.units \in Units /\ l.units \in Int /\ l.scale \in Nat /\ p \in Nat \ {0}
  BY AmountsAre DEF IsAmount
<1>2. /\ text.negative = (l.units < 0) /\ text.whole = digits \div p
      /\ text.fraction = digits % p /\ text.places = l.scale
  BY DEF Text
<1>3. digits \in Nat /\ l.units = IF l.units < 0 THEN -digits ELSE digits
  BY <1>1 DEF Magnitude
<1> HIDE DEF p, digits
<1>4. text.whole * Pow10(text.places) + text.fraction = digits
  <2>1. digits \div p \in Nat /\ digits % p \in 0 .. p - 1 /\ digits = p * (digits \div p) + (digits % p)
    BY <1>1, <1>3, DivMod
  <2>2. (digits \div p) * p = p * (digits \div p)
    BY <1>1, <2>1
  <2>3. text.whole * Pow10(text.places) + text.fraction = (digits \div p) * p + (digits % p)
    BY <1>2 DEF p
  <2> QED
    BY <1>1, <1>3, <2>1, <2>2, <2>3
<1>5. result = Resolve(l.units, l.scale, type)
  <2>1. result = Resolve(IF text.negative THEN -digits ELSE digits, text.places, type)
    <3> HIDE DEF text
    <3> QED
      BY <1>4 DEF ParseScaled, text
  <2>2. (IF text.negative THEN -digits ELSE digits) = l.units
    BY <1>2, <1>3
  <2> QED
    BY <1>2, <2>1, <2>2
<1> HIDE DEF result, text
<1>6. CASE type.scale < l.scale
  <2>1. result = As(type.is, type.scale, Raise("too precise"))
    BY <1>1, <1>5, <1>6 DEF Resolve
  <2>2. result.raises = "too precise"
    BY <2>1 DEF As, Raise
  <2> QED
    BY <1>6, <2>2 DEF result
<1>7. CASE l.scale <= type.scale
  <2> DEFINE more == type.scale - l.scale
             value == l.units * Pow10(more)
  <2>1. more \in Nat /\ l.scale + more = type.scale
    BY <1>1, <1>7
  <2>2. Pow10(more) \in Nat /\ Pow10(type.scale) = p * Pow10(more)
    BY <1>1, <2>1, PowersAre, PowersMultiply DEF p
  <2>3. value \in Int /\ value * p = l.units * Pow10(type.scale)
    <3>1. \A x, y, z \in Int : (x * y) * z = x * (z * y)
      OBVIOUS
    <3> QED
      BY <1>1, <2>2, <3>1
  <2>4. Rescale(l.units, l.scale, type.scale) = Fit(value)
    <3>1. Widened(value, Fit(value)) = Fit(value)
      BY WidthsHold DEF Widened, Fit
    <3> QED
      BY <1>7, <1>1, <3>1 DEF Rescale
  <2>5. result = As(type.is, type.scale, Fit(value))
    <3>1. ~(l.scale > type.scale)
      BY <1>1, <1>7
    <3> HIDE DEF value
    <3> QED
      BY <1>1, <1>5, <2>4, <3>1 DEF Resolve
  <2> HIDE DEF value
  <2>6. CASE value \in Units
    <3>1. result.raises = "no" /\ result.units = value
      BY <2>5, <2>6 DEF As, Fit
    <3> QED
      BY <2>3, <3>1 DEF p, result
  <2>7. CASE value \notin Units
    <3>1. result.raises = "overflow"
      BY <2>5, <2>7 DEF As, Fit, Raise
    <3> QED
      BY <2>7, <3>1 DEF value, result
  <2> QED
    BY <2>6, <2>7
<1> QED
  BY <1>1, <1>6, <1>7

\* An answer that stands, in the state its calculation leads to.
LEMMA AnsweredStands ==
  ASSUME NEW op \in Operators, NEW l, NEW r, NEW by,
         asked' = Asked(op, <<l, r>>, by), Answers(op, l, r, by, answer')
  PROVE  AmountsHold'
PROOF
<1>1. asked'.op = op /\ asked'.of[1] = l /\ asked'.of[2] = r /\ asked'.by = by
  BY DEF Asked
<1>2. AnswersStand'
  BY <1>1 DEF AnswersStand, Answers, LeftOver, Judged
<1>3. asked'.op # "read" /\ asked'.op # "sum"
  BY <1>1 DEF Operators
<1>4. NothingIsLost'
  BY <1>3 DEF NothingIsLost
<1> QED
  BY <1>2, <1>4 DEF AmountsHold

\* Both, of every amount the language computes: the one number that stands for
\* what its operands come to, rounded as it was asked for, or a refusal because
\* there is none or it does not fit; and an amount written out and read back,
\* or a sum, loses nothing (src/scaled.rs, `binary` of src/interp.rs). This is
\* so of sixty-four bits as of the eight that are enumerated.
THEOREM AmountsAreExact == DecimalSpec => []AmountsHold
PROOF
<1>1. DecimalInit => AmountsHold
  <2> SUFFICES ASSUME DecimalInit PROVE AmountsHold
    OBVIOUS
  <2>1. asked.op = "nothing"
    BY DEF DecimalInit, Asked
  <2> QED
    BY <2>1 DEF AmountsHold, AnswersStand, NothingIsLost, Operators
<1>2. AmountsHold /\ [DecimalNext]_decimalVars => AmountsHold'
  <2> SUFFICES ASSUME AmountsHold, [DecimalNext]_decimalVars PROVE AmountsHold'
    OBVIOUS
  <2>1. CASE UNCHANGED decimalVars
    BY <2>1 DEF decimalVars, AmountsHold, AnswersStand, NothingIsLost
  <2>2. CASE Calculate
    <3>1. PICK op \in Operators, l \in Amounts, r \in Amounts :
            asked' = Asked(op, <<l, r>>, "") /\ answer' = Binary(op, l, r)
      BY <2>2 DEF Calculate
    <3>2. Answers(op, l, r, "", Binary(op, l, r))
      BY AmountsAre, BareAnswers
    <3> QED
      BY <3>1, <3>2, AnsweredStands
  <2>3. CASE Round
    <3>1. PICK by \in Roundings, l \in Amounts, r \in Amounts :
            \/ asked' = Asked("*", <<l, r>>, by) /\ answer' = MoneyMul(l, r, by)
            \/ r.is = "Int" /\ asked' = Asked("/", <<l, r>>, by) /\ answer' = MoneyDiv(l, r, by)
      BY <2>3 DEF Round
    <3>2. /\ Answers("*", l, r, by, MoneyMul(l, r, by))
          /\ r.is = "Int" => Answers("/", l, r, by, MoneyDiv(l, r, by))
      BY AmountsAre, RoundedAnswers
    <3>3. "*" \in Operators /\ "/" \in Operators
      BY DEF Operators
    <3>4. CASE asked' = Asked("*", <<l, r>>, by) /\ answer' = MoneyMul(l, r, by)
      BY <3>2, <3>3, <3>4, AnsweredStands
    <3>5. CASE r.is = "Int" /\ asked' = Asked("/", <<l, r>>, by) /\ answer' = MoneyDiv(l, r, by)
      BY <3>2, <3>3, <3>5, AnsweredStands
    <3> QED
      BY <3>1, <3>4, <3>5
  <2>4. CASE Negate
    <3>1. PICK l \in Amounts :
            asked' = Asked("-", <<Amount(TypeOf(l), 0), l>>, "") /\ answer' = Neg(l)
      BY <2>4 DEF Negate
    <3>2. Answers("-", Amount(TypeOf(l), 0), l, "", Neg(l))
      BY AmountsAre, NegationAnswers
    <3>3. "-" \in Operators
      BY DEF Operators
    <3> QED
      BY <3>1, <3>2, <3>3, AnsweredStands
  <2>5. CASE Total
    <3>1. PICK l \in Amounts, m \in Amounts, r \in Amounts :
            asked' = Asked("sum", <<l, m, r>>, "") /\ answer' = Sum(TypeOf(l), <<l, m, r>>)
      BY <2>5 DEF Total
    <3>2. l.units \in Int /\ m.units \in Int /\ r.units \in Int
      BY AmountsAre
    <3>3. /\ asked'.op = "sum" /\ asked'.of[1] = l
          /\ asked'.of[2] = m /\ asked'.of[3] = r
      BY <3>1 DEF Asked
    <3>4. answer'.raises = "no" => answer'.units = l.units + m.units + r.units
      <4> DEFINE whole == Sum(TypeOf(l), <<l, m, r>>)
      <4>1. whole.raises = "no" => whole.units = l.units + m.units + r.units
        BY <3>2, SumOfThree
      <4> HIDE DEF whole
      <4>2. answer' = whole
        BY <3>1 DEF whole
      <4> QED
        BY <4>1, <4>2
    <3>5. NothingIsLost'
      BY <3>3, <3>4 DEF NothingIsLost
    <3>6. AnswersStand'
      BY <3>3 DEF AnswersStand, Operators
    <3> QED
      BY <3>5, <3>6 DEF AmountsHold
  <2>6. CASE Reread
    <3>1. PICK l \in Amounts, as \in Amounts :
            /\ asked' = Asked("read", <<l, Amount(TypeOf(as), 0)>>, "")
            /\ answer' = ParseScaled(Text(l), TypeOf(as))
      BY <2>6 DEF Reread
    <3> DEFINE type == TypeOf(as)
    <3>2. /\ asked'.op = "read" /\ asked'.of[1] = l
          /\ TypeOf(asked'.of[2]) = type
      BY <3>1 DEF Asked, Amount, TypeOf, Bare
    <3>3. type.scale \in Nat
      BY AmountsAre DEF TypeOf, Bare
    <3> HIDE DEF type
    <3>4. CASE answer'.raises = "no"
      <4>1. answer'.units * Pow10(l.scale) = l.units * Pow10(type.scale)
        BY <3>1, <3>3, <3>4, AmountsAre, ReadBack DEF type
      <4> QED
        BY <3>2, <3>4, <4>1 DEF AmountsHold, NothingIsLost, AnswersStand, Operators
    <3>5. CASE answer'.raises = "overflow"
      <4>1. l.units * Pow10(type.scale - l.scale) \notin Units
        BY <3>1, <3>3, <3>5, AmountsAre, ReadBack DEF type
      <4> QED
        BY <3>2, <3>5, <4>1 DEF AmountsHold, NothingIsLost, AnswersStand, Operators
    <3>6. CASE answer'.raises # "no" /\ answer'.raises # "overflow"
      <4>1. type.scale < l.scale
        BY <3>1, <3>3, <3>6, AmountsAre, ReadBack DEF type
      <4> QED
        BY <3>2, <3>6, <4>1 DEF AmountsHold, NothingIsLost, AnswersStand, Operators
    <3> QED
      BY <3>4, <3>5, <3>6
  <2> QED
    BY <2>1, <2>2, <2>3, <2>4, <2>5, <2>6 DEF DecimalNext
<1> QED
  BY <1>1, <1>2, PTL DEF DecimalSpec
=============================================================================
