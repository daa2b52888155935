------------------------------ MODULE Detector ------------------------------
(***************************************************************************)
(* degradation-v2: rates and their drop in decimal arithmetic of limited   *)
(* precision, the smoothed two-sample score, and the verdict.              *)
(***************************************************************************)
EXTENDS Integers

CONSTANTS
  MINIMUM_BASELINE_SAMPLE,      \* bound: 100
  MINIMUM_OBSERVATION_SAMPLE,   \* bound: 30
  Precision                     \* bound: 10 to the power of the significant digits, 50

ASSUME DetectorAssumption ==
  /\ MINIMUM_BASELINE_SAMPLE \in Nat \ {0} /\ MINIMUM_OBSERVATION_SAMPLE \in Nat \ {0}
  /\ Precision \in Nat \ {0} /\ Precision % 10 = 0

\* Decimals are multiples of a hundredth of 1 / Precision: enough for
\* quotients down to a thousandth.
One == 100 * Precision

RoundHalfEven(a, b) ==
  LET q == a \div b
      twice == 2 * (a % b)
  IN IF twice > b \/ (twice = b /\ q % 2 = 1) THEN q + 1 ELSE q

\* The power of ten that takes the zeros behind the point of the quotient
\* a / b away, at most two of them.
Scale(a, b) == IF 10 * a >= b THEN 1 ELSE IF 100 * a >= b THEN 10 ELSE 100

\* a / b with all its significant digits, for 0 <= a <= b.
Quotient(a, b) ==
  RoundHalfEven(a * Precision * Scale(a, b), b) * (100 \div Scale(a, b))

\* A decimal rounded to the significant digits.
Rounded(size) ==
  LET step == 100 \div Scale(size, One)
  IN RoundHalfEven(size, step) * step

\* The difference of two decimals.
Difference(x, y) == IF x >= y THEN Rounded(x - y) ELSE -Rounded(y - x)

\* A sample: baseline events and successes, observed events and successes.
Sample(bn, bs, on, os) == [bn |-> bn, bs |-> bs, on |-> on, os |-> os]

\* Mutant: a rise is a drop, too.
AbsoluteDropUnsigned(s) ==
  LET drop == Difference(Quotient(s.bs, s.bn), Quotient(s.os, s.on))
  IN IF drop >= 0 THEN drop ELSE -drop

\* The baseline's success rate less the observed one; negative for a rise.
AbsoluteDrop(s) == Difference(Quotient(s.bs, s.bn), Quotient(s.os, s.on))

\* drop / sqrt(p (1 - p) (1 / bn + 1 / on)) >= z with the smoothed proportion
\* p = successes / all, both sides squared.
ScoreAtLeast(z, s) ==
  LET drop == s.bs * s.on - s.os * s.bn
      successes == s.bs + s.os + 1
      failures == s.bn - s.bs + s.on - s.os + 1
      all == successes + failures
  IN /\ drop >= 0
     /\ drop * all * drop * all
          >= z * z * successes * failures * (s.bn + s.on) * s.bn * s.on

Percent(n) == n * (One \div 100)

Degraded(s) == AbsoluteDrop(s) >= Percent(10) /\ ScoreAtLeast(3, s)

Severity(s) ==
  IF AbsoluteDrop(s) >= Percent(35) THEN "critical"
  ELSE IF AbsoluteDrop(s) >= Percent(20) THEN "high" ELSE "medium"

Sufficient(s) == s.bn >= MINIMUM_BASELINE_SAMPLE /\ s.on >= MINIMUM_OBSERVATION_SAMPLE

\* detect_degradation_v2: the outcome, or the severity of a degradation.
Verdict(s) ==
  IF ~Sufficient(s) THEN "insufficient"
  ELSE IF Degraded(s) THEN Severity(s)
  ELSE IF AbsoluteDrop(s) <= Percent(5) THEN "healthy" ELSE "watch"

Hardness == [insufficient |-> 0, healthy |-> 0, watch |-> 1, medium |-> 2, high |-> 3,
             critical |-> 4]
=============================================================================
