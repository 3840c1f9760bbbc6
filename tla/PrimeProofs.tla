----------------------------- MODULE PrimeProofs -----------------------------
(***************************************************************************)
(* check_prime is right for every width of its integers, and so is what    *)
(* every execution of a worker reports.                                    *)
(***************************************************************************)
EXTENDS PrimeWorker, WorkerProofs, WellFoundedInduction, TLAPS

(* A set of natural numbers has a least element.                           *)
Least(S) == CHOOSE k \in S : \A j \in S : k <= j

LEMMA LeastExists ==
  ASSUME NEW S \in SUBSET Nat, S # {}
  PROVE  Least(S) \in S /\ \A j \in S : Least(S) <= j
<1>1. PICK k \in S : \A j \in S : ~(<<j, k>> \in OpToRel(<, Nat))
  BY NatLessThanWellFounded, WFMin
<1>2. ASSUME NEW j \in S PROVE k <= j
  <2>1. <<j, k>> \in Nat \X Nat /\ ~(<<j, k>> \in OpToRel(<, Nat))
    BY <1>1
  <2>2. ~(j < k)
    BY <2>1 DEF OpToRel
  <2>. QED BY <2>2
<1>. QED BY <1>2 DEF Least

-----------------------------------------------------------------------------
(* Arithmetic.                                                             *)

LEMMA Quotient ==
  ASSUME NEW n \in Nat, NEW d \in Nat \ {0}, Divides(d, n)
  PROVE  \E q \in Nat : n = d * q
<1>1. n \div d \in Nat /\ n = d * (n \div d)
  BY DEF Divides
<1>. QED BY <1>1

LEMMA Multiple ==
  ASSUME NEW q \in Nat, NEW d \in Nat \ {0}
  PROVE  Divides(d, d * q)
BY DEF Divides

LEMMA DividesTransitive ==
  ASSUME NEW n \in Nat, NEW d \in Nat \ {0}, NEW e \in Nat \ {0}, Divides(d, e), Divides(e, n)
  PROVE  Divides(d, n)
<1>1. PICK q \in Nat : e = d * q
  BY Quotient
<1>2. PICK r \in Nat : n = e * r
  BY Quotient
<1>3. n = d * (q * r) /\ q * r \in Nat
  BY <1>1, <1>2
<1>. QED BY <1>3, Multiple

LEMMA Remainder ==
  ASSUME NEW m \in Nat \ {0}, NEW q \in Nat, NEW r \in 0..m - 1
  PROVE  ((m * q) + r) % m = r
<1>. DEFINE x == (m * q) + r
            p == x \div m
<1>1. x \in Nat /\ p \in Nat /\ x % m \in 0..m - 1 /\ x = (m * p) + (x % m)
  OBVIOUS
<1>. HIDE DEF p, x
<1>2. ASSUME NEW a \in Nat, NEW b \in Nat, a < b PROVE (m * a) + m <= m * b
  <2>1. m * (b - a) >= m
    BY <1>2
  <2>. QED BY <2>1
<1>3. ~(p < q)
  BY <1>1, <1>2 DEF x
<1>4. ~(q < p)
  BY <1>1, <1>2 DEF x
<1>5. p = q
  BY <1>1, <1>3, <1>4
<1>. QED BY <1>1, <1>5 DEF x

LEMMA WrapAdd ==
  ASSUME NEW x \in Nat, NEW y \in Nat
  PROVE  Wrap(Wrap(x) + y) = Wrap(x + y)
<1>. DEFINE q == x \div Modulus
            z == Wrap(x) + y
            p == z \div Modulus
<1>1. q \in Nat /\ x = (Modulus * q) + Wrap(x) /\ Wrap(x) \in UInt
  BY ModulusAssumption DEF Wrap, UInt
<1>2. z \in Nat /\ p \in Nat /\ z = (Modulus * p) + Wrap(z) /\ Wrap(z) \in UInt
  BY <1>1, ModulusAssumption DEF Wrap, UInt
<1>. HIDE DEF q, p
<1>3. Modulus * (q + p) = (Modulus * q) + (Modulus * p)
  BY <1>1, <1>2, ModulusAssumption
<1>4. Modulus * q \in Nat /\ Modulus * p \in Nat /\ Wrap(x) \in Nat /\ Wrap(z) \in Nat
  BY <1>1, <1>2, ModulusAssumption DEF UInt
<1>5. x + y = (Modulus * (q + p)) + Wrap(z)
  <2>. HIDE DEF Wrap
  <2>. QED BY <1>1, <1>2, <1>3, <1>4
<1>6. ((Modulus * (q + p)) + Wrap(z)) % Modulus = Wrap(z)
  <2>1. q + p \in Nat /\ Wrap(z) \in 0..Modulus - 1 /\ Modulus \in Nat \ {0}
    BY <1>1, <1>2, ModulusAssumption DEF UInt
  <2>. HIDE DEF z
  <2>. QED BY <2>1, Remainder
<1>. QED BY <1>5, <1>6 DEF Wrap
-----------------------------------------------------------------------------
(* The loop.                                                               *)

(* At i the loop ends, and with which result.                              *)
Ends(n, i) == Wrap(i * i) > n \/ Divides(i, n) \/ Divides(Wrap(i + 2), n)
Result(n, i) ==
  IF Wrap(i * i) > n THEN Prime
  ELSE IF Divides(i, n) THEN NotPrime(i) ELSE NotPrime(Wrap(i + 2))

(* What the recursive function of TrialDivision has to satisfy.            *)
Loop(n, trial) ==
  [i \in UInt |-> IF Ends(n, i) THEN Result(n, i) ELSE trial[Wrap(i + 6)]]

(* After so many rounds from i on it ends.                                 *)
Rounds(n, i) == {k \in Nat : Ends(n, Wrap(i + 6 * k))}

LEMMA NextRounds ==
  ASSUME NEW n, NEW i \in UInt
  PROVE  /\ Wrap(i) = i
         /\ \A k \in Nat : k \in Rounds(n, Wrap(i + 6)) <=> k + 1 \in Rounds(n, i)
<1>1. Wrap(i) = i
  BY ModulusAssumption DEF Wrap, UInt
<1>2. ASSUME NEW k \in Nat
      PROVE  Wrap(Wrap(i + 6) + (6 * k)) = Wrap(i + (6 * (k + 1)))
  <2>1. Wrap(Wrap(i + 6) + (6 * k)) = Wrap((i + 6) + (6 * k))
    BY WrapAdd DEF UInt
  <2>2. (i + 6) + (6 * k) = i + (6 * (k + 1))
    BY DEF UInt
  <2>. QED BY <2>1, <2>2
<1>. QED BY <1>1, <1>2 DEF Rounds

(* There is such a function, also for an i from where the loop would go on *)
(* for ever.                                                               *)
LEMMA LoopExists ==
  ASSUME NEW n
  PROVE  \E trial : trial = Loop(n, trial)
<1>. DEFINE last(i) == Wrap(i + (6 * Least(Rounds(n, i))))
            f == [i \in UInt |-> IF Rounds(n, i) = {} THEN Prime ELSE Result(n, last(i))]
<1>1. ASSUME NEW i \in UInt
      PROVE  f[i] = IF Ends(n, i) THEN Result(n, i) ELSE f[Wrap(i + 6)]
  <2>. DEFINE j == Wrap(i + 6)
  <2>0. Rounds(n, i) \in SUBSET Nat /\ Rounds(n, j) \in SUBSET Nat
    BY DEF Rounds
  <2>1. j \in UInt /\ i \in Nat /\ j \in Nat
    BY ModulusAssumption DEF Wrap, UInt
  <2>2. 0 \in Rounds(n, i) <=> Ends(n, i)
    <3>1. i + (6 * 0) = i /\ Wrap(i) = i
      BY <2>1, NextRounds
    <3>. HIDE DEF f
    <3>. QED BY <3>1 DEF Rounds
  <2>. HIDE DEF j
  <2>3. CASE Ends(n, i)
    <3>1. Rounds(n, i) # {} /\ Least(Rounds(n, i)) = 0
      BY <2>0, <2>2, <2>3, LeastExists
    <3>. QED BY <2>1, <2>3, <3>1, NextRounds
  <2>4. CASE ~Ends(n, i)
    <3>1. \A k \in Nat : k \in Rounds(n, j) <=> k + 1 \in Rounds(n, i)
      BY NextRounds DEF j
    <3>2. \A k \in Rounds(n, i) : k - 1 \in Nat /\ k - 1 \in Rounds(n, j)
      BY <2>0, <2>2, <2>4, <3>1
    <3>3. CASE Rounds(n, i) = {}
      <4>1. Rounds(n, j) = {}
        BY <2>0, <3>1, <3>3
      <4>. QED BY <2>1, <2>4, <3>3, <4>1 DEF j
    <3>4. CASE Rounds(n, i) # {}
      <4>. DEFINE k == Least(Rounds(n, i))
                  l == Least(Rounds(n, j))
      <4>1. Rounds(n, j) # {}
        BY <3>2, <3>4
      <4>2. k \in Rounds(n, i) /\ \A m \in Rounds(n, i) : k <= m
        BY <2>0, <3>4, LeastExists
      <4>3. l \in Rounds(n, j) /\ \A m \in Rounds(n, j) : l <= m
        BY <2>0, <4>1, LeastExists
      <4>. HIDE DEF k, l
      <4>4. k = l + 1
        BY <2>0, <3>1, <3>2, <4>2, <4>3
      <4>5. Wrap(j + (6 * l)) = Wrap((i + 6) + (6 * l))
        BY <2>0, <2>1, <4>3, WrapAdd DEF j
      <4>6. (i + 6) + (6 * l) = i + (6 * k)
        BY <2>0, <2>1, <4>3, <4>4
      <4>7. last(j) = last(i)
        BY <4>5, <4>6 DEF k, l
      <4>. HIDE DEF last
      <4>. QED BY <2>1, <2>4, <3>4, <4>1, <4>7 DEF j
    <3>. QED BY <3>3, <3>4
  <2>. QED BY <2>3, <2>4
<1>2. f = Loop(n, f)
  <2>. HIDE DEF f
  <2>1. f = [i \in UInt |-> f[i]]
    BY DEF f
  <2>. QED BY <1>1, <2>1 DEF Loop
<1>. QED BY <1>2

(* TrialDivision is what such a function says of 5.                        *)
LEMMA TrialLoop ==
  ASSUME NEW n
  PROVE  \E trial : trial = Loop(n, trial) /\ TrialDivision(n) = trial[5]
<1>. DEFINE trial == CHOOSE trial : trial = Loop(n, trial)
<1>1. trial = Loop(n, trial)
  BY LoopExists
<1>2. TrialDivision(n) = trial[5]
  BY DEF TrialDivision, Loop, Ends, Result
<1>. QED BY <1>1, <1>2
(* From a first divisor on that the function does not stop at it goes on   *)
(* until it does.                                                          *)
LEMMA LoopResult ==
  ASSUME NEW n, NEW trial, trial = Loop(n, trial),
         NEW K \in Nat, 5 + 6 * K \in UInt, Ends(n, 5 + 6 * K),
         \A k \in Nat : k < K => ~Ends(n, 5 + 6 * k)
  PROVE  trial[5] = Result(n, 5 + 6 * K)
<1>. DEFINE i(k) == 5 + (6 * k)
            away == {k \in Nat : k <= K /\ trial[i(k)] # trial[5]}
<1>1. \A j \in UInt : trial[j] = IF Ends(n, j) THEN Result(n, j) ELSE trial[Wrap(j + 6)]
  BY Zenon DEF Loop
<1>2. ASSUME away # {} PROVE FALSE
  <2>. DEFINE k == Least(away)
  <2>1. k \in away /\ \A m \in away : k <= m
    BY <1>2, LeastExists
  <2>. HIDE DEF k
  <2>2. k # 0 /\ k \in Nat /\ k <= K
    BY <2>1
  <2>3. k - 1 \in Nat /\ k - 1 < K /\ k - 1 \notin away
    BY <2>1, <2>2
  <2>4. trial[i(k - 1)] = trial[5] /\ ~Ends(n, i(k - 1))
    BY <2>3
  <2>5. i(k - 1) \in UInt /\ i(k - 1) + 6 = i(k) /\ i(k) \in UInt
    BY <2>2, ModulusAssumption DEF UInt
  <2>6. Wrap(i(k)) = i(k)
    BY <2>5, NextRounds
  <2>. HIDE DEF i
  <2>7. trial[i(k - 1)] = trial[i(k)]
    BY <1>1, <2>4, <2>5, <2>6
  <2>. QED BY <2>1, <2>4, <2>7
<1>3. trial[i(K)] = trial[5]
  BY <1>2
<1>. QED BY <1>1, <1>3

-----------------------------------------------------------------------------
(* The least factor.                                                       *)

LEMMA LeastFactor ==
  ASSUME NEW n \in Nat, n >= 2
  PROVE  LET p == Least(Factors(n))
         IN  /\ p \in 2..n /\ Divides(p, n)
             /\ \A d \in 2..n : Divides(d, n) => p <= d
             /\ Expected(n) = IF p = n THEN Prime ELSE NotPrime(p)
             /\ p # n => p * p <= n
<1>. DEFINE p == Least(Factors(n))
<1>1. n \in Factors(n) /\ Factors(n) \in SUBSET Nat
  BY DEF Factors, Divides
<1>2. p \in Factors(n) /\ \A d \in Factors(n) : p <= d
  BY <1>1, LeastExists
<1>3. Expected(n) = IF p = n THEN Prime ELSE NotPrime(p)
  BY DEF Expected, Least
<1>. HIDE DEF p
<1>4. p \in 2..n /\ Divides(p, n) /\ \A d \in 2..n : Divides(d, n) => p <= d
  BY <1>2 DEF Factors
<1>5. ASSUME p # n PROVE p * p <= n
  <2>1. PICK q \in Nat : n = p * q
    BY <1>4, Quotient
  <2>2. q # 0 /\ q # 1
    BY <1>4, <1>5, <2>1
  <2>3. n = q * p
    BY <1>4, <2>1
  <2>4. q <= n
    BY <1>4, <2>2, <2>3
  <2>5. Divides(q, n)
    BY <1>4, <2>2, <2>3, Multiple
  <2>6. p <= q
    BY <1>4, <2>2, <2>4, <2>5
  <2>7. p * (q - p) >= 0 /\ p * (q - p) = p * q - p * p
    BY <1>4, <2>6
  <2>. QED BY <1>4, <2>1, <2>7
<1>. QED BY <1>3, <1>4, <1>5 DEF p

(* Without the factors 2 and 3 it is one that the loop tries.              *)
LEMMA LeastFactorTried ==
  ASSUME NEW n \in Nat, NEW p \in 2..n, Divides(p, n), ~Divides(2, n), ~Divides(3, n)
  PROVE  \E k \in Nat : p = 5 + 6 * k \/ p = 7 + 6 * k
<1>1. ~Divides(2, p) /\ ~Divides(3, p)
  BY DividesTransitive
<1>2. p % 2 # 0 /\ p % 3 # 0
  BY <1>1 DEF Divides
<1>3. p % 6 \in {1, 5}
  BY <1>2
<1>4. p >= 5
  BY <1>2
<1>5. CASE p % 6 = 5
  <2>1. p \div 6 \in Nat /\ p = 5 + (6 * (p \div 6))
    BY <1>5
  <2>. QED BY <2>1
<1>6. CASE p % 6 = 1
  <2>1. (p \div 6) - 1 \in Nat /\ p = 7 + (6 * ((p \div 6) - 1))
    BY <1>4, <1>6
  <2>. QED BY <2>1
<1>. QED BY <1>3, <1>5, <1>6
-----------------------------------------------------------------------------
(* check_prime.                                                            *)

(* The loop ends at the least factor at the latest.  If it ends before     *)
(* there is none but n, if it ends there it gives the least factor, and it *)
(* cannot get to n itself past a square that ends it.                      *)
LEMMA TrialDivisionRight ==
  ASSUME NEW n \in UInt, n > 3, ~Divides(2, n), ~Divides(3, n)
  PROVE  \/ TrialDivision(n) = Expected(n)
         \/ Expected(n) = Prime /\ ~SquareFits(n) /\ TrialDivision(n) = NotPrime(n)
<1>. DEFINE p == Least(Factors(n))
            i(k) == 5 + (6 * k)
            K == Least(Rounds(n, 5))
            z == i(K)
<1>1. n \in Nat /\ n < Modulus /\ Modulus \in Nat
  BY ModulusAssumption DEF UInt
<1>2. /\ p \in 2..n /\ Divides(p, n)
      /\ \A d \in 2..n : Divides(d, n) => p <= d
      /\ Expected(n) = IF p = n THEN Prime ELSE NotPrime(p)
      /\ p # n => p * p <= n
  BY <1>1, LeastFactor
<1>. HIDE DEF p, K
<1>3. p \in Nat /\ p >= 2 /\ p <= n
  BY <1>1, <1>2
<1>4. \A x \in Nat : x < Modulus => x \in UInt /\ Wrap(x) = x
  BY <1>1, NextRounds DEF UInt
<1>5. PICK l \in Nat : p = i(l) \/ p = i(l) + 2
  <2>1. PICK l \in Nat : p = 5 + 6 * l \/ p = 7 + 6 * l
    BY <1>1, <1>2, LeastFactorTried
  <2>2. 7 + (6 * l) = (5 + (6 * l)) + 2
    OBVIOUS
  <2>. QED BY <2>1, <2>2
<1>6. \A k \in Nat : i(k) \in Nat /\ i(k) >= 5 /\ (k <= l => i(k) <= p)
  BY <1>3, <1>5
<1>7. \A k \in Nat : k <= l => i(k) \in UInt /\ Wrap(i(k)) = i(k)
  <2>. HIDE DEF i
  <2>. QED BY <1>1, <1>3, <1>4, <1>6
<1>8. l \in Rounds(n, 5)
  <2>1. Ends(n, i(l))
    <3>. HIDE DEF i
    <3>1. CASE p = i(l)
      BY <1>2, <3>1 DEF Ends
    <3>2. CASE p = i(l) + 2
      <4>1. Wrap(i(l) + 2) = p
        BY <1>1, <1>3, <1>4, <3>2
      <4>. QED BY <1>2, <4>1 DEF Ends
    <3>. QED BY <1>5, <3>1, <3>2
  <2>. QED BY <1>7, <2>1 DEF Rounds
<1>9. K \in Nat /\ K <= l /\ Ends(n, i(K)) /\ \A k \in Nat : k < K => ~Ends(n, i(k))
  <2>1. Rounds(n, 5) \in SUBSET Nat /\ Rounds(n, 5) # {}
    BY <1>8 DEF Rounds
  <2>2. K \in Rounds(n, 5) /\ \A k \in Rounds(n, 5) : K <= k
    BY <2>1, LeastExists DEF K
  <2>3. K \in Nat /\ K <= l /\ \A k \in Nat : k < K => k \notin Rounds(n, 5)
    BY <1>8, <2>1, <2>2
  <2>4. \A k \in Nat : k <= l => (k \in Rounds(n, 5) <=> Ends(n, i(k)))
    BY <1>7 DEF Rounds
  <2>. QED BY <2>2, <2>3, <2>4
<1>10. z \in Nat /\ z >= 5 /\ z <= p /\ z \in UInt /\ Wrap(z) = z
  BY <1>6, <1>7, <1>9
<1>11. TrialDivision(n) = Result(n, z)
  <2>1. PICK trial : trial = Loop(n, trial) /\ TrialDivision(n) = trial[5]
    BY TrialLoop
  <2>. QED BY <1>9, <1>10, <2>1, LoopResult
\* A square that is larger ends the loop, if it does not wrap around.
<1>12. ASSUME SquareFits(n) PROVE Wrap(z * z) > n \/ z + 2 < n
  <2>1. PICK j \in UInt : j % 6 = 5 /\ n < j * j /\ j * j \in UInt
    BY <1>12 DEF SquareFits
  <2>2. PICK m \in Nat : j = i(m)
    <3>1. j \in Nat
      BY <2>1 DEF UInt
    <3>2. j \div 6 \in Nat /\ j = 5 + (6 * (j \div 6))
      BY <2>1, <3>1
    <3>. QED BY <3>2
  <2>3. Wrap(j * j) > n
    BY <2>1, NextRounds
  <2>4. Ends(n, i(m))
    BY <2>2, <2>3 DEF Ends
  <2>5. K <= m
    BY <1>9, <2>2, <2>4
  <2>6. z <= j
    BY <1>9, <2>2, <2>5
  <2>. HIDE DEF z, i
  <2>7. z * z <= j * j /\ z * z \in Nat
    BY <1>10, <2>1, <2>6 DEF UInt
  <2>8. Wrap(z * z) = z * z
    BY <1>1, <1>4, <2>1, <2>7 DEF UInt
  <2>9. z * z > z + 2
    BY <1>10
  <2>. QED BY <1>1, <1>10, <2>7, <2>8, <2>9
<1>. HIDE DEF z
<1>13. CASE Wrap(z * z) > n
  <2>1. p = n
    <3>1. SUFFICES ASSUME p # n PROVE FALSE
      OBVIOUS
    <3>2. z * z <= p * p /\ z * z \in Nat
      BY <1>3, <1>10
    <3>3. z * z <= n
      BY <1>1, <1>2, <1>3, <3>1, <3>2
    <3>. QED BY <1>1, <1>4, <1>13, <3>2, <3>3
  <2>. QED BY <1>2, <1>11, <1>13, <2>1 DEF Result
<1>14. CASE ~(Wrap(z * z) > n) /\ Divides(z, n)
  <2>1. z = p
    BY <1>1, <1>2, <1>3, <1>10, <1>14
  <2>2. TrialDivision(n) = NotPrime(p)
    BY <1>11, <1>14, <2>1 DEF Result
  <2>3. p = n => ~SquareFits(n)
    BY <1>3, <1>12, <1>14, <2>1
  <2>. QED BY <1>2, <2>2, <2>3
<1>15. CASE ~(Wrap(z * z) > n) /\ ~Divides(z, n)
  <2>1. z # p
    BY <1>2, <1>15
  <2>2. p >= z + 2
    <3>1. z = 5 + (6 * K) /\ (p = 5 + (6 * l) \/ p = (5 + (6 * l)) + 2)
      BY <1>5 DEF z
    <3>. QED BY <1>9, <2>1, <3>1
  <2>3. Wrap(z + 2) = z + 2
    BY <1>1, <1>3, <1>4, <1>10, <2>2
  <2>4. Divides(z + 2, n)
    BY <1>9, <1>15, <2>3 DEF Ends, z
  <2>5. p = z + 2
    BY <1>1, <1>2, <1>3, <1>10, <2>2, <2>4
  <2>6. TrialDivision(n) = NotPrime(p)
    BY <1>11, <1>15, <2>3, <2>5 DEF Result
  <2>7. p = n => ~SquareFits(n)
    BY <1>3, <1>10, <1>12, <1>15, <2>5
  <2>. QED BY <1>2, <2>6, <2>7
<1>. QED BY <1>13, <1>14, <1>15

(* check_prime is right with its smallest factor for all numbers but large *)
(* primes, and takes such a prime for a prime or for its own factor.       *)
THEOREM CheckPrimeIsRight == CheckPrimeRight
<1>. SUFFICES ASSUME NEW n \in UInt
              PROVE  \/ check_prime(n) = Expected(n)
                     \/ Expected(n) = Prime /\ ~SquareFits(n) /\ check_prime(n) = NotPrime(n)
  BY DEF CheckPrimeRight, AnswerRight
<1>. DEFINE p == Least(Factors(n))
<1>1. n \in Nat
  BY ModulusAssumption DEF UInt
<1>2. n >= 2 =>
        /\ p \in 2..n /\ Divides(p, n)
        /\ \A d \in 2..n : Divides(d, n) => p <= d
        /\ Expected(n) = IF p = n THEN Prime ELSE NotPrime(p)
  BY <1>1, LeastFactor
<1>. HIDE DEF p
<1>3. CASE n < 2
  BY <1>1, <1>3 DEF check_prime, Expected
<1>4. CASE n \in {2, 3}
  <2>1. ~(3 % 2 = 0)
    OBVIOUS
  <2>2. p = n
    BY <1>2, <1>4, <2>1 DEF Divides
  <2>. QED BY <1>2, <1>4, <2>2 DEF check_prime
<1>5. CASE n > 3 /\ Divides(2, n)
  <2>1. p = 2
    BY <1>1, <1>2, <1>5
  <2>2. check_prime(n) = NotPrime(2)
    BY <1>1, <1>5 DEF check_prime
  <2>. QED BY <1>1, <1>2, <1>5, <2>1, <2>2
<1>6. CASE n > 3 /\ ~Divides(2, n) /\ Divides(3, n)
  <2>1. p = 3
    BY <1>1, <1>2, <1>6
  <2>2. check_prime(n) = NotPrime(3)
    BY <1>1, <1>6 DEF check_prime
  <2>. QED BY <1>1, <1>2, <1>6, <2>1, <2>2
<1>7. CASE n > 3 /\ ~Divides(2, n) /\ ~Divides(3, n)
  <2>1. check_prime(n) = TrialDivision(n)
    BY <1>1, <1>7 DEF check_prime
  <2>. QED BY <1>7, <2>1, TrialDivisionRight
<1>. QED BY <1>1, <1>3, <1>4, <1>5, <1>6, <1>7
-----------------------------------------------------------------------------
(* The worker's executions.                                                *)

(* The payloads and reports change nothing else: what is proved of the     *)
(* worker, its count, its capacity and its drain, holds with them.         *)
THEOREM LocalsChangeNothing == PrimeSpec => Spec
<1>1. PrimeInit => Init
  BY DEF PrimeInit
<1>2. [PrimeNext]_<<vars, locals>> => [Next]_vars
  <2>. SUFFICES ASSUME PrimeNext PROVE Next
    BY Zenon DEF vars
  <2>1. CASE \E a \in AssignThread : Admits(a) \/ Spawns(a)
    BY Zenon, <2>1 DEF PrimeNext, Admits, Spawns, Next, Handler
  <2>2. CASE \E e \in ExecThread : Computes(e) \/ Reports(e)
    BY Zenon, <2>2 DEF PrimeNext, Computes, Reports, Next, Execution
  <2>3. CASE Others
    BY Zenon, <2>3 DEF PrimeNext, Others, Next, Execution
  <2>. QED BY Zenon, <2>1, <2>2, <2>3 DEF PrimeNext
<1>. QED BY <1>1, <1>2, PTL DEF PrimeSpec, Spec

(* What run_prime_task ends with is right.                                 *)
LEMMA RunPrimeTaskRight == \A p \in Payload : run_prime_task(p) \in RightReports(p)
<1>1. ASSUME NEW n \in Number
      PROVE  AnswerRight(n, check_prime(n)) /\ check_prime(n) \in {Expected(n), NotPrime(n)}
  BY NumberAssumption, CheckPrimeIsRight DEF CheckPrimeRight, AnswerRight
<1>. QED BY Zenon, <1>1 DEF Payload, run_prime_task, RightReports

(* A thread that computes has a payload, and one that reports has what     *)
(* run_prime_task made of it.                                              *)
LocalsInv ==
  /\ DOMAIN payload = ExecThread /\ payload = [e \in ExecThread |-> payload[e]]
  /\ DOMAIN report = ExecThread /\ report = [e \in ExecThread |-> report[e]]
  /\ \A e \in ExecThread :
        /\ exec[e].pc \in {"run", "report"} => payload[e] \in Payload
        /\ exec[e].pc = "report" => report[e] = run_prime_task(payload[e])

(* A step that leaves the locals alone has no thread begin or report.      *)
LEMMA LocalsStay ==
  ASSUME LocalsInv, UNCHANGED locals,
         \A e \in ExecThread : exec'[e].pc \in {"run", "report"} => exec'[e].pc = exec[e].pc
  PROVE  LocalsInv'
BY DEF LocalsInv, locals

LEMMA LocalsStep == TypeOK /\ LocalsInv /\ [PrimeNext]_<<vars, locals>> => LocalsInv'
<1>. SUFFICES ASSUME TypeOK, LocalsInv, [PrimeNext]_<<vars, locals>> PROVE LocalsInv'
  OBVIOUS
<1>. USE DEF TypeOK
<1>1. CASE UNCHANGED <<vars, locals>>
  BY <1>1, LocalsStay DEF vars
<1>2. ASSUME NEW a \in AssignThread, Admits(a) PROVE LocalsInv'
  BY <1>2, LocalsStay DEF Admits, AssignTask, TestCapacity, IncrementActive
<1>3. ASSUME NEW a \in AssignThread, Spawns(a) PROVE LocalsInv'
  <2>1. PICK e \in ExecThread : exec[e].pc = "idle" /\ exec' = [exec EXCEPT ![e].pc = "run"]
    BY <1>3 DEF Spawns, SpawnAndAccept
  <2>2. \A f \in ExecThread : exec'[f].pc = IF f = e THEN "run" ELSE exec[f].pc
    BY <2>1
  <2>3. PICK p \in Payload :
          payload' = [f \in ExecThread |->
                        IF exec[f].pc = "idle" /\ exec'[f].pc = "run" THEN p ELSE payload[f]]
    BY <1>3 DEF Spawns
  <2>4. \A f \in ExecThread : payload'[f] = IF f = e THEN p ELSE payload[f]
    BY <2>1, <2>2, <2>3
  <2>5. DOMAIN payload' = ExecThread /\ payload' = [f \in ExecThread |-> payload'[f]]
    BY <2>3
  <2>. QED BY <1>3, <2>2, <2>4, <2>5 DEF Spawns, LocalsInv
<1>4. ASSUME NEW e \in ExecThread, Computes(e) PROVE LocalsInv'
  <2>1. exec[e].pc = "run" /\ \A f \in ExecThread : exec'[f].pc = IF f = e THEN "report" ELSE exec[f].pc
    BY <1>4 DEF Computes, RunPrimeTask, ThreadIs
  <2>2. payload' = payload /\ report' = [report EXCEPT ![e] = run_prime_task(payload[e])]
    BY <1>4 DEF Computes
  <2>. QED BY <2>1, <2>2 DEF LocalsInv
<1>5. ASSUME NEW e \in ExecThread, Reports(e) PROVE LocalsInv'
  <2>1. exec[e].pc = "report" /\ \A f \in ExecThread \ {e} : exec'[f] = exec[f]
    BY <1>5 DEF Reports, ReportAcknowledged, ReportFails, ThreadIs
  <2>2. exec'[e].pc \in {"report", "ended"}
    BY <1>5 DEF Reports, ReportAcknowledged, ReportFails, ThreadIs
  <2>3. CASE exec'[e].pc = "report"
    BY <1>5, <2>1, <2>3, LocalsStay DEF Reports
  <2>4. CASE exec'[e].pc = "ended"
    <3>1. payload' = [payload EXCEPT ![e] = None] /\ report' = [report EXCEPT ![e] = None]
      BY <1>5, <2>4 DEF Reports
    <3>. QED BY <2>1, <2>4, <3>1 DEF LocalsInv
  <2>. QED BY <2>2, <2>3, <2>4
<1>6. CASE Others
  <2>1. ASSUME NEW e \in ExecThread, ExecutionEnds(e)
        PROVE  \A f \in ExecThread : exec'[f].pc \in {"run", "report"} => exec'[f].pc = exec[f].pc
    BY <2>1 DEF ExecutionEnds, ThreadIs, Idle
  <2>2. ASSUME SignalArrives \/ SignalEnds \/ HeartbeatLoop \/ Main PROVE exec' = exec
    BY <2>2 DEF SignalArrives, SignalEnds, HeartbeatLoop, TestShutdown, HeartbeatReturns,
         HeartbeatWakes, HeartbeatIs, Main, Registers, Listens, ListenFails, LeaveServing,
         LeaveDraining, ShutdownCalled, ShutdownReturns, MainReturns, MainGoes
  <2>. QED BY <1>6, <2>1, <2>2, LocalsStay DEF Others
<1>. QED BY <1>1, <1>2, <1>3, <1>4, <1>5, <1>6 DEF PrimeNext

(* Every report that a worker sends, in whatever attempt and beside        *)
(* whatever other executions, is right for the payload of its task.        *)
THEOREM ResultsAreRight == PrimeSpec => []ResultsRight
<1>1. PrimeInit => LocalsInv
  BY DEF PrimeInit, Init, Idle, LocalsInv
<1>2. LocalsInv => ResultsRight
  BY Zenon, RunPrimeTaskRight DEF LocalsInv, ResultsRight
<1>. QED BY <1>1, <1>2, LocalsStep, LocalsChangeNothing, WorkerTypes, PTL DEF PrimeSpec

=============================================================================
