---------------------- MODULE ContextualScoringProofs ----------------------
(***************************************************************************)
(* What the scoring promises for every score, impact and threshold: the    *)
(* runs of ItemGraph meet a few of them only.                              *)
(***************************************************************************)
EXTENDS ContextualScoring, TLAPS

\* The base score is a score, whatever scoring.py finds (clamp_score).
LEMMA ClampedIsScore ==
    ASSUME NEW s \in Int
    PROVE  ClampScore(s) \in 0 .. 100
BY DEF ClampScore

\* What is missing to 100 is lifted by a percentage of it, in hundredths.
LEMMA LiftBounds ==
    ASSUME NEW base \in 0 .. 100, NEW impact \in 0 .. 100
    PROVE  /\ 100 * base + (100 - base) * impact \in Int
           /\ 100 * base <= 100 * base + (100 - base) * impact
           /\ 100 * base + (100 - base) * impact <= 10000
<1> DEFINE room == 100 - base
<1>1. room \in 0 .. 100
    OBVIOUS
<1>2. room * impact \in Int /\ 0 <= room * impact
    BY <1>1
<1>3. room * impact <= room * 100
    BY <1>1
<1> QED
    BY <1>1, <1>2, <1>3

\* Rounding to whole points, as ContextualScore does.
Rounded(n) ==
    LET score == n \div 100  rest == n % 100
    IN IF rest > 50 \/ (rest = 50 /\ score % 2 = 1) THEN score + 1 ELSE score

LEMMA RoundedIsNear ==
    ASSUME NEW n \in Int, 0 <= n
    PROVE  LET q == n \div 100  r == n % 100 IN
           /\ q \in Int /\ r \in 0 .. 99 /\ n = 100 * q + r
           /\ Rounded(n) = IF r > 50 \/ (r = 50 /\ q % 2 = 1) THEN q + 1 ELSE q
           /\ Rounded(n) \in Int /\ q <= Rounded(n) /\ Rounded(n) <= q + 1
           /\ r = 0 => Rounded(n) = q
<1> DEFINE q == n \div 100  r == n % 100
<1>1. q \in Int /\ r \in 0 .. 99 /\ n = 100 * q + r
    OBVIOUS
<1>2. Rounded(n) = IF r > 50 \/ (r = 50 /\ q % 2 = 1) THEN q + 1 ELSE q
    BY DEF Rounded
<1> HIDE DEF q, r
<1>3. Rounded(n) \in Int /\ q <= Rounded(n) /\ Rounded(n) <= q + 1
    BY <1>1, <1>2
<1>4. r = 0 => Rounded(n) = q
    BY <1>1, <1>2
<1> QED
    BY <1>1, <1>2, <1>3, <1>4 DEF q, r

LEMMA RoundedKeepsOrder ==
    ASSUME NEW m \in Int, NEW n \in Int, 0 <= m, m <= n
    PROVE  Rounded(m) <= Rounded(n)
<1> DEFINE p == m \div 100  q == n \div 100
           r == m % 100     s == n % 100
<1>1. /\ p \in Int /\ r \in 0 .. 99 /\ m = 100 * p + r
      /\ Rounded(m) = IF r > 50 \/ (r = 50 /\ p % 2 = 1) THEN p + 1 ELSE p
      /\ Rounded(m) \in Int /\ Rounded(m) <= p + 1
    BY RoundedIsNear, ZenonT(60)
<1>2. 0 <= n
    OBVIOUS
<1>3. /\ q \in Int /\ s \in 0 .. 99 /\ n = 100 * q + s
      /\ Rounded(n) = IF s > 50 \/ (s = 50 /\ q % 2 = 1) THEN q + 1 ELSE q
      /\ Rounded(n) \in Int /\ q <= Rounded(n)
    BY <1>2, RoundedIsNear
<1> HIDE DEF p, q, r, s
<1>4. p < q \/ p = q
    BY <1>1, <1>3
<1>5. CASE p < q
    <2>1. p + 1 <= q
        BY <1>1, <1>3, <1>5
    <2> QED
        BY <2>1, <1>1, <1>3
<1>6. CASE p = q
    <2>1. r <= s
        BY <1>1, <1>3, <1>6
    <2> QED
        BY <2>1, <1>1, <1>3, <1>6
<1> QED
    BY <1>4, <1>5, <1>6

LEMMA RoundedBounds ==
    ASSUME NEW base \in 0 .. 100, NEW n \in Int, 100 * base <= n, n <= 10000
    PROVE  Rounded(n) \in base .. 100
<1> DEFINE q == n \div 100  r == n % 100
<1>1. 0 <= n
    OBVIOUS
<1>2. /\ q \in Int /\ r \in 0 .. 99 /\ n = 100 * q + r
      /\ Rounded(n) \in Int /\ q <= Rounded(n) /\ Rounded(n) <= q + 1
      /\ r = 0 => Rounded(n) = q
    BY <1>1, RoundedIsNear
<1> HIDE DEF q, r
<1>3. base <= q
    BY <1>2
<1>4. q < 100 \/ (q = 100 /\ r = 0)
    BY <1>2
<1> QED
    BY <1>2, <1>3, <1>4

LEMMA ContextualScoreIsRounded ==
    ASSUME NEW base \in 0 .. 100, NEW impact \in 0 .. 100
    PROVE  /\ ContextualScore(base, impact) = Rounded(100 * base + (100 - base) * impact)
           /\ ContextualScore(base, impact) \in base .. 100
<1> DEFINE n == 100 * base + (100 - base) * impact
<1>1. n \in Int /\ 100 * base <= n /\ n <= 10000
    BY LiftBounds
<1>2. ContextualScore(base, impact) = ClampScore(Rounded(n))
    BY DEF ContextualScore, Rounded
<1> HIDE DEF n
<1>3. Rounded(n) \in base .. 100
    BY <1>1, RoundedBounds
<1>4. ClampScore(Rounded(n)) = Rounded(n)
    BY <1>3 DEF ClampScore
<1> QED
    BY <1>2, <1>3, <1>4 DEF n

\* Contextual scoring is forward-only: it keeps or raises the base score, and
\* the result is a score (core/contextual_scoring.py
\* build_contextual_score_evidence; docs/configuration-reference.md).
THEOREM ContextIsForwardOnly ==
    ASSUME NEW base \in 0 .. 100, NEW impact \in 0 .. 100
    PROVE  ContextualScore(base, impact) \in base .. 100
BY ContextualScoreIsRounded

\* More context never scores less: the cap and the rounding keep the order of
\* impacts.
THEOREM MoreContextScoresNoLess ==
    ASSUME NEW base \in 0 .. 100, NEW low \in 0 .. 100, NEW high \in low .. 100
    PROVE  ContextualScore(base, low) <= ContextualScore(base, high)
<1> DEFINE room == 100 - base
           m == 100 * base + room * low
           n == 100 * base + room * high
<1>1. high \in 0 .. 100 /\ room \in 0 .. 100
    OBVIOUS
<1>2. m \in Int /\ 0 <= m /\ n \in Int
    BY <1>1, LiftBounds
<1>3. room * low <= room * high /\ room * low \in Int /\ room * high \in Int
    BY <1>1
<1>4. m <= n
    BY <1>1, <1>3
<1>5. ContextualScore(base, low) = Rounded(m)
    BY ContextualScoreIsRounded
<1>6. ContextualScore(base, high) = Rounded(n)
    BY <1>1, ContextualScoreIsRounded
<1> HIDE DEF room, m, n
<1>7. Rounded(m) <= Rounded(n)
    BY <1>2, <1>4, RoundedKeepsOrder
<1> QED
    BY <1>5, <1>6, <1>7

\* What is let in with a score is let in with a higher one.
LEMMA HigherScoreStaysIn ==
    ASSUME NEW age \in Int, NEW s \in Int, NEW t \in Int, s <= t,
           ShouldIngest(age, s) = "ingest"
    PROVE  ShouldIngest(age, t) = "ingest"
<1>1. /\ ~IsTooOld(age)
      /\ s >= QuarantineThreshold /\ s >= MinScore
      /\ ~(IsOld(age) /\ s < MinScoreOld)
    BY ScoringAssumption DEF ShouldIngest
<1>2. /\ t >= QuarantineThreshold /\ t >= MinScore
      /\ ~(IsOld(age) /\ t < MinScoreOld)
    BY <1>1, ScoringAssumption
<1> QED
    BY <1>1, <1>2, ScoringAssumption DEF ShouldIngest

\* No setting and no context takes an item out that its base score lets in
\* (core/policy.py should_ingest on the contextual score).
THEOREM ContextKeepsIngested ==
    ASSUME NEW age \in Int, NEW base \in 0 .. 100, NEW impact \in 0 .. 100,
           ShouldIngest(age, base) = "ingest"
    PROVE  ShouldIngest(age, ContextualScore(base, impact)) = "ingest"
<1>1. ContextualScore(base, impact) \in base .. 100
    BY ContextIsForwardOnly
<1> QED
    BY <1>1, HigherScoreStaysIn
=============================================================================
