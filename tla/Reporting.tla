------------------------------- MODULE Reporting -------------------------------
(***************************************************************************)
(* How an uncertainty and a result are rounded for a certificate, and how  *)
(* an uncertainty is put together from its contributions.                  *)
(*                                                                         *)
(* A number is an integer in units of 10^-Decimals; what the code computes *)
(* in floating point is computed here exactly and cut off at that unit.    *)
(* Squares of standard uncertainties are held twelvefold, so that the      *)
(* divisors 12 of a resolution and k^2 of a coverage factor 2 are exact.   *)
(***************************************************************************)
EXTENDS Integers, Sequences

CONSTANT Decimals  \* decimal places of the unit the numbers are integers of

\* A number has at most the nine digits that Digits counts.
ASSUME ReportingAssumption == Decimals \in 0..8

Magnitude(v) == IF v < 0 THEN -v ELSE v

Larger(a, b) == IF a < b THEN b ELSE a

Digits(v) == CHOOSE n \in 1..9 : 10^(n - 1) <= v /\ (n = 9 \/ v < 10^n)

(***************************************************************************)
(* Rounding                                                                *)
(***************************************************************************)

\* The place of the second significant digit, relative to the unit: zero
\* keeps one decimal, whatever the unit.
Place(v) == IF v = 0 THEN Decimals - 1 ELSE Digits(v) - 2

\* Nothing changes at a place below the unit.
HalfUp(v, place) ==
  IF place <= 0 THEN v
  ELSE LET q == 10^place
           rounded == q * ((2 * Magnitude(v) + q) \div (2 * q))
       IN IF v < 0 THEN -rounded ELSE rounded

Ceiling(v, place) ==
  IF place <= 0 THEN v
  ELSE LET q == 10^place IN q * ((v + q - 1) \div q)

\* An edit: the floor is applied before rounding only.
RoundedBelowFloor(u, floor) == HalfUp(u, Place(u))

RoundedUncertainty(u, floor) ==
  LET rounded == HalfUp(u, Place(u))
  IN IF rounded < floor THEN Ceiling(u, Place(u)) ELSE rounded

\* The decimals a reader sees; the exponent is that of the value before it
\* was rounded, and never below whole units.
DecimalPlaces(u) == Larger(Decimals - Place(u), 0)

RoundedResult(result, u) == HalfUp(result, Decimals - DecimalPlaces(u))

(***************************************************************************)
(* Statistics and contributions                                            *)
(***************************************************************************)

\* The sum of a sequence, one value after the other.
Total(values) ==
  LET sum[n \in 0..Len(values)] ==
        IF n = 0 THEN 0 ELSE sum[n - 1] + values[n]
  IN sum[Len(values)]

Mean(values) == Total(values) \div Len(values)

\* Type A: the variance of the mean, from the n - 1 sample variance.
TypeA(values) ==
  LET n == Len(values)
      squares == Total([i \in 1..n |-> values[i] * values[i]])
  IN (12 * (n * squares - Total(values) * Total(values))) \div (n * n * (n - 1))

FromExpanded(u, k) == (12 * u * u) \div (k * k)

FromResolution(r) == r * r

FromAdditional(a) ==
  12 * (a.sensitivity * a.uncertainty) * (a.sensitivity * a.uncertainty)

\* The root, cut off at the unit.
Root(square) ==
  CHOOSE r \in 0..square : r * r <= square /\ square < (r + 1) * (r + 1)

\* k times the root of the sum of squares.
Expanded(parts, k) == Root((k * k * Total(parts)) \div 12)

================================================================================
