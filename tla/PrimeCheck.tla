------------------------------ MODULE PrimeCheck ------------------------------
(***************************************************************************)
(* check_prime of worker/main.cpp, the computation a task stands for, over *)
(* unsigned integers below Modulus (2^64 in the program), whose products   *)
(* wrap around.                                                            *)
(***************************************************************************)
EXTENDS Integers

CONSTANT Modulus

ASSUME ModulusAssumption == Modulus \in Nat \ {0}

UInt == 0..Modulus - 1
Wrap(x) == x % Modulus

Prime == [is_prime |-> TRUE, smallest_factor |-> 0]
NotPrime(factor) == [is_prime |-> FALSE, smallest_factor |-> factor]

Divides(d, n) == n % d = 0

\* Variant: the loop ends one square too early.
TrialDivision_BelowSquare(n) ==
    LET trial[i \in UInt] ==
          IF Wrap(i * i) >= n THEN Prime
          ELSE IF Divides(i, n) THEN NotPrime(i)
          ELSE IF Divides(Wrap(i + 2), n) THEN NotPrime(Wrap(i + 2))
          ELSE trial[Wrap(i + 6)]
    IN  trial[5]

\* The loop over 6k-1 and 6k+1.  It gets to a divisor equal to n at the latest,
\* before i wraps around.
TrialDivision(n) ==
    LET trial[i \in UInt] ==
          IF Wrap(i * i) > n THEN Prime
          ELSE IF Divides(i, n) THEN NotPrime(i)
          ELSE IF Divides(Wrap(i + 2), n) THEN NotPrime(Wrap(i + 2))
          ELSE trial[Wrap(i + 6)]
    IN  trial[5]

check_prime(n) ==
    CASE n < 2 -> NotPrime(0)
      [] n \in {2, 3} -> Prime
      [] n > 3 /\ Divides(2, n) -> NotPrime(2)
      [] n > 3 /\ ~Divides(2, n) /\ Divides(3, n) -> NotPrime(3)
      [] OTHER -> TrialDivision(n)

-----------------------------------------------------------------------------
Factors(n) == {d \in 2..n : Divides(d, n)}

\* What the result should be, from the definition of a prime number.
Expected(n) ==
    IF n < 2 THEN NotPrime(0)
    ELSE LET least == CHOOSE d \in Factors(n) : \A e \in Factors(n) : d <= e
         IN  IF least = n THEN Prime ELSE NotPrime(least)

\* There is a divisor to try whose square is above n and does not wrap around.
SquareFits(n) == \E i \in UInt : i % 6 = 5 /\ n < i * i /\ i * i \in UInt

\* A right answer for n; the second one only for a prime without such a divisor.
AnswerRight(n, answer) ==
    \/ answer = Expected(n)
    \/ Expected(n) = Prime /\ ~SquareFits(n) /\ answer = NotPrime(n)

(***************************************************************************)
(* check_prime answers rightly, with the smallest factor, for every number *)
(* that is not a prime, and for the primes for which there is a divisor    *)
(* that ends the loop.  For the primes above, all squares that are large   *)
(* enough wrap around, and the loop does not end at the square root: it    *)
(* may get as far as i = n and take a prime for its own factor.  It gets   *)
(* no further, so that its own factor is the only one a prime is given.    *)
(***************************************************************************)
CheckPrimeRight == \A n \in UInt : AnswerRight(n, check_prime(n))

=============================================================================
