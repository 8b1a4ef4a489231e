----------------------------- MODULE Mixing_proofs -----------------------------
(***************************************************************************)
(* Proofs about Mixing and the operators of Format, for any sources, any   *)
(* rates of devices and presets, and any chunk duration: the arithmetic of *)
(* the conversion, sums over a set of sources, and what holds of a window  *)
(* and of its average.                                                     *)
(***************************************************************************)
EXTENDS Mixing, TLAPS, FiniteSetTheorems, SequenceTheorems, WellFoundedInduction

-----------------------------------------------------------------------------
\* Integer division, with the product that it cuts down.
LEMMA Division ==
  ASSUME NEW n \in Nat, NEW d \in Nat, d > 0
  PROVE  n \div d \in Nat /\ n % d \in 0 .. d - 1 /\ d * (n \div d) + (n % d) = n
OBVIOUS

\* A product grows with its first factor.
LEMMA Grows ==
  ASSUME NEW a \in Int, NEW b \in Int, NEW c \in Nat, a <= b
  PROVE  a * c \in Int /\ b * c \in Int /\ a * c <= b * c
<1>1. PICK e \in Nat : b = a + e
  <2>1. b - a \in Nat /\ b = a + (b - a)
    OBVIOUS
  <2> QED  BY <2>1
<1>2. b * c = a * c + e * c /\ a * c \in Int /\ e * c \in Nat
  BY <1>1
<1> DEFINE ac == a * c
           ec == e * c
           bc == b * c
<1> HIDE DEF ac, ec, bc
<1>3. ac \in Int /\ ec \in Nat /\ bc = ac + ec
  BY <1>2 DEF ac, ec, bc
<1> QED  BY <1>3 DEF ac, bc

\* ... and shrinks with it.
LEMMA Shrinks ==
  ASSUME NEW a \in Int, NEW b \in Int, NEW c \in Nat, c > 0, a * c <= b * c
  PROVE  a <= b
<1>1. CASE b + 1 <= a
  <2>1. (b + 1) * c <= a * c /\ (b + 1) * c = b * c + c /\ b * c \in Int /\ a * c \in Int
    BY <1>1, Grows
  <2> QED  BY <2>1
<1> QED  BY <1>1

\* Integer division towards zero cuts off less than the divisor.
LEMMA Truncates ==
  ASSUME NEW n \in Int, NEW d \in Nat, d > 0
  PROVE  /\ Trunc(n, d) \in Int /\ Trunc(n, d) * d - n \in 1 - d .. d - 1
         /\ n % d = 0 => Trunc(n, d) * d = n
<1>1. CASE n >= 0
  <2>1. n \in Nat /\ Trunc(n, d) = n \div d
    BY <1>1 DEF Trunc
  <2>2. n \div d \in Nat /\ n % d \in 0 .. d - 1 /\ d * (n \div d) + (n % d) = n
    BY <2>1, Division
  <2> DEFINE q == n \div d
             qd == q * d
             r == n % d
  <2>3. q \in Nat /\ r \in 0 .. d - 1 /\ qd + r = n /\ qd \in Int
    BY <2>2
  <2> HIDE DEF q, qd, r
  <2>4. qd - n \in 1 - d .. d - 1 /\ (r = 0 => qd = n)
    BY <2>3
  <2> QED  BY <2>1, <2>3, <2>4 DEF q, qd, r
<1>2. CASE n < 0
  <2> DEFINE m == -n
             q == m \div d
             r == m % d
             qd == q * d
  <2>1. m \in Nat /\ Trunc(n, d) = -q
    BY <1>2 DEF Trunc
  <2>2. q \in Nat /\ r \in 0 .. d - 1 /\ d * q + r = m
    BY <2>1, Division
  <2>3. n % d = 0 => r = 0
    <3>1. n % d \in 0 .. d - 1 /\ d * (n \div d) + (n % d) = n /\ n \div d \in Int
      OBVIOUS
    <3> DEFINE k == n \div d
    <3>2. ASSUME n % d = 0  PROVE r = 0
      <4>1. d * k = n /\ k \in Int
        BY <3>1, <3>2
      <4> HIDE DEF k
      <4>2. (-k) * d = m
        BY <4>1
      <4>3. -k \in Nat
        <5>1. CASE -k <= -1
          <6>1. (-k) * d <= (-1) * d
            BY <4>1, <5>1, Grows
          <6> QED  BY <4>2, <6>1, <2>1
        <5> QED  BY <4>1, <5>1
      <4>4. CASE -k <= q
        <5>1. PICK e \in Nat : q = -k + e
          <6>1. q - (-k) \in Nat /\ q = -k + (q - (-k))
            BY <2>2, <4>3, <4>4
          <6> QED  BY <6>1
        <5>2. d * q = (-k) * d + e * d
          BY <5>1, <4>1
        <5> HIDE DEF q, r, m
        <5>3. e * d + r = 0 /\ e * d \in Nat
          BY <5>1, <5>2, <4>2, <2>2, <2>1
        <5> QED  BY <5>3, <2>2
      <4>5. CASE q + 1 <= -k
        <5>1. (q + 1) * d <= (-k) * d /\ (q + 1) * d = d * q + d
          BY <2>2, <4>1, <4>5, Grows
        <5> HIDE DEF q, r, m
        <5> DEFINE dq == d * q
        <5>2. dq \in Int /\ dq + r = m /\ dq + d <= m
          BY <5>1, <4>2, <2>2
        <5> HIDE DEF dq
        <5> QED  BY <5>2, <2>1, <2>2
      <4> QED  BY <4>4, <4>5, <4>1, <2>2
    <3> QED  BY <3>2
  <2>4. qd + r = m /\ qd \in Int /\ (-q) * d = -qd
    BY <2>2
  <2> HIDE DEF q, qd, r
  <2>5. -qd - n \in 1 - d .. d - 1 /\ (r = 0 => -qd = n)
    BY <2>1, <2>2, <2>4
  <2> QED  BY <2>1, <2>2, <2>3, <2>4, <2>5
<1> QED  BY <1>1, <1>2

\* So a quotient stays where its dividend is.
LEMMA TruncatesWithin ==
  ASSUME NEW n \in Int, NEW d \in Nat, d > 0, NEW a \in Int, NEW b \in Int,
         a <= 0, b >= 0, a * d <= n, n <= b * d
  PROVE  Trunc(n, d) \in a .. b
<1> DEFINE t == Trunc(n, d)
           td == t * d
<1>1. t \in Int /\ td - n \in 1 - d .. d - 1 /\ td \in Int
  BY Truncates
<1>2. t <= b
  <2>1. CASE b + 1 <= t
    <3>1. (b + 1) * d <= t * d /\ (b + 1) * d = b * d + d /\ b * d \in Int
      BY <1>1, <2>1, Grows
    <3> HIDE DEF t
    <3> QED  BY <1>1, <3>1
  <2> QED  BY <1>1, <2>1
<1>3. a <= t
  <2>1. CASE t <= a - 1
    <3>1. t * d <= (a - 1) * d /\ (a - 1) * d = a * d - d /\ a * d \in Int
      BY <1>1, <2>1, Grows
    <3> HIDE DEF t
    <3> QED  BY <1>1, <3>1
  <2> QED  BY <1>1, <2>1
<1> QED  BY <1>1, <1>2, <1>3

-----------------------------------------------------------------------------
\* What keeps to 16 bits.
LEMMA Sixteen ==
  ASSUME NEW a
  PROVE  a \in I16 <=> a \in Int /\ -32768 <= a /\ a <= 32767
<1> DEFINE low  == -32768
           high == 32767
<1>1. low \in Int /\ high \in Int
  OBVIOUS
<1>2. I16 = low .. high
  BY DEF I16
<1> HIDE DEF low, high
<1>3. a \in I16 <=> a \in Int /\ low <= a /\ a <= high
  BY <1>1, <1>2
<1> QED  BY <1>3 DEF low, high

\* v is a value of 16 bits times c.
Within(v, c) == v \in Int /\ (-32768) * c <= v /\ v <= 32767 * c

\* A sample times a natural number.
LEMMA Scaled ==
  ASSUME NEW a \in I16, NEW c \in Nat
  PROVE  a \in Int /\ a * c \in Int /\ Within(a * c, c)
<1>1. a \in Int /\ -32768 <= a /\ a <= 32767
  BY Sixteen
<1>2. -32768 \in Int /\ 32767 \in Int
  OBVIOUS
<1>3. (-32768) * c <= a * c /\ a * c \in Int
  BY <1>1, <1>2, Grows
<1>4. a * c <= 32767 * c
  BY <1>1, <1>2, Grows
<1> QED  BY <1>1, <1>3, <1>4 DEF Within

\* A point on the line between two samples, times the target rate: a weighted sum
\* of the two, which stays between the extremes of 16 bits.
LEMMA OnTheLine ==
  ASSUME NEW a \in I16, NEW b \in I16, NEW to \in Nat, NEW frac \in 0 .. to
  PROVE  /\ a * to + (b - a) * frac = a * (to - frac) + b * frac
         /\ Within(a * (to - frac) + b * frac, to)
<1> DEFINE rest == to - frac
           ar == a * rest
           bf == b * frac
           af == a * frac
           at == a * to
<1>1. rest \in Nat /\ frac \in Nat /\ to = rest + frac /\ a \in Int /\ b \in Int
  BY Scaled
<1> HIDE DEF rest
<1>2. at = ar + af /\ (b - a) * frac = bf - af /\ af \in Int
  <2>1. a * (rest + frac) = a * rest + a * frac
    BY <1>1
  <2>2. (b - a) * frac = b * frac - a * frac
    BY <1>1
  <2> QED  BY <1>1, <2>1, <2>2
<1>3. ar \in Int /\ Within(ar, rest)
  BY <1>1, Scaled
<1>4. bf \in Int /\ Within(bf, frac)
  BY <1>1, Scaled
<1> HIDE DEF ar, bf, af, at
<1>5. Within(ar + bf, to)
  BY <1>1, <1>3, <1>4 DEF Within
<1>6. at + (b - a) * frac = ar + bf
  BY <1>2, <1>3, <1>4
<1> QED  BY <1>5, <1>6 DEF ar, bf, at, rest

\* Where output sample i (from 0) falls between the input samples.
LEMMA Position ==
  ASSUME NEW i \in Nat, NEW from \in Nat, NEW to \in Nat \ {0}
  PROVE  (i * from) \div to \in Nat /\ (i * from) % to \in 0 .. to - 1
<1>1. i * from \in Nat
  OBVIOUS
<1> DEFINE p == i * from
<1> HIDE DEF p
<1> QED  BY <1>1, Division DEF p

\* An interpolated value, of any samples that keep to 16 bits, does so too.
LEMMA InterpolatedType ==
  ASSUME NEW samples \in Seq(I16), samples # <<>>,
         NEW i \in Nat, NEW from \in Nat, NEW to \in Nat \ {0}
  PROVE  LET idx  == (i * from) \div to
             frac == (i * from) % to
         IN  /\ Interpolated(samples, i, from, to) =
                  IF idx + 1 < Len(samples)
                    THEN samples[idx + 1] * (to - frac) + samples[idx + 2] * frac
                    ELSE samples[Len(samples)] * to
             /\ Within(Interpolated(samples, i, from, to), to)
<1> DEFINE idx  == (i * from) \div to
           frac == (i * from) % to
           n    == Len(samples)
<1>1. idx \in Nat /\ frac \in 0 .. to - 1 /\ n \in Nat /\ n > 0 /\ to \in Nat
  <2>1. n \in Nat /\ n > 0
    OBVIOUS
  <2> QED  BY <2>1, Position
<1>2. \A j \in 1 .. n : samples[j] \in I16
  OBVIOUS
<1>3. Last(samples) = samples[n]
  BY DEF Last
<1>4. Interpolated(samples, i, from, to) =
        IF idx + 1 < n THEN samples[idx + 1] * to + (samples[idx + 2] - samples[idx + 1]) * frac
                       ELSE samples[n] * to
  BY <1>3 DEF Interpolated
<1> HIDE DEF idx, frac, n
<1>5. CASE idx + 1 < n
  <2>1. samples[idx + 1] \in I16 /\ samples[idx + 2] \in I16 /\ frac \in 0 .. to
    BY <1>1, <1>2, <1>5
  <2> DEFINE a == samples[idx + 1]
             b == samples[idx + 2]
  <2>2. a * to + (b - a) * frac = a * (to - frac) + b * frac
    BY <1>1, <2>1, OnTheLine
  <2>3. Within(a * (to - frac) + b * frac, to)
    BY <1>1, <2>1, OnTheLine
  <2>4. Interpolated(samples, i, from, to) = a * (to - frac) + b * frac
    BY <1>4, <1>5, <2>2
  <2> HIDE DEF a, b
  <2>5. Within(Interpolated(samples, i, from, to), to)
    BY <2>3, <2>4
  <2> QED  BY <1>5, <2>4, <2>5 DEF idx, frac, n, a, b
<1>6. CASE ~(idx + 1 < n)
  <2>1. samples[n] \in I16
    BY <1>1, <1>2
  <2> DEFINE held == samples[n] * to
  <2>2. Within(held, to)
    <3>1. to \in Nat
      BY <1>1
    <3> QED  BY <2>1, <3>1, Scaled
  <2>3. Interpolated(samples, i, from, to) = held
    BY <1>4, <1>6
  <2> HIDE DEF held
  <2> QED  BY <1>6, <2>2, <2>3 DEF idx, frac, n, held
<1> QED  BY <1>5, <1>6

\* v is at most c away from zero.
Near(v, c) == v \in Int /\ -c <= v /\ v <= c

\* Len(out) output samples on the line through the input samples: each within one
\* unit of it, and as many as the rates ask for.
OnLine(samples, out, from, to) ==
  /\ out \in Seq(I16)
  /\ samples = <<>> => out = <<>>
  /\ samples # <<>> => Len(out) = ResampledLen(Len(samples), from, to)
  /\ \A i \in 1 .. Len(out) : Near(out[i] * to - Interpolated(samples, i - 1, from, to), to)

\* The number of output samples is natural, and it is the exact length times the
\* source rate, rounded up by less than a source rate, or by one where the
\* arithmetic rounds up.
LEMMA Resampled ==
  ASSUME NEW n \in Nat, NEW from \in Nat \ {0}, NEW to \in Nat \ {0}
  PROVE  /\ ResampledLen(n, from, to) \in Nat
         /\ ResampledLen(n, from, to) * from - n * to \in 0 .. from
         /\ from = to => ResampledLen(n, from, to) = n
<1> DEFINE p == n * to
           q == p \div from
           r == p % from
           e == IF r # 0 \/ <<n, from, to>> \in Inexact THEN 1 ELSE 0
           l == ResampledLen(n, from, to)
<1>1. p \in Nat
  OBVIOUS
<1>2. q \in Nat /\ r \in 0 .. from - 1 /\ from * q + r = p
  <2> HIDE DEF p
  <2> QED  BY <1>1, Division
<1>3. CASE from = to
  BY <1>3 DEF ResampledLen
<1>4. CASE from # to
  <2>1. l = q + e
    BY <1>4 DEF ResampledLen
  <2>2. e \in {0, 1} /\ (e = 0 => r = 0)
    OBVIOUS
  <2> HIDE DEF p, q, r, e, l
  <2>3. l \in Nat
    BY <1>2, <2>1, <2>2
  <2>4. l * from = from * q + e * from
    BY <1>2, <2>1, <2>2
  <2>5. e * from = IF e = 0 THEN 0 ELSE from
    BY <2>2
  <2> DEFINE lF == l * from
             Fq == from * q
             eF == e * from
  <2>6. lF = Fq + eF /\ Fq \in Nat /\ Fq + r = p
    BY <1>2, <2>4
  <2>7. eF = IF e = 0 THEN 0 ELSE from
    BY <2>5
  <2> HIDE DEF lF, Fq, eF
  <2>8. lF - p \in 0 .. from
    BY <1>1, <1>2, <2>2, <2>6, <2>7
  <2> QED  BY <1>4, <2>3, <2>8 DEF lF, l, p
<1> QED  BY <1>3, <1>4

\* A missed whole number is one off, which is a target rate in the product.
LEMMA TowardsZeroStep ==
  ASSUME NEW t \in I16
  PROVE  TowardsZero(t) \in I16 /\ -1 <= TowardsZero(t) - t /\ TowardsZero(t) - t <= 1
<1>1. t \in Int /\ -32768 <= t /\ t <= 32767
  BY Sixteen
<1>2. TowardsZero(t) \in Int /\ -32768 <= TowardsZero(t) /\ TowardsZero(t) <= 32767
  BY <1>1 DEF TowardsZero
<1>3. -1 <= TowardsZero(t) - t /\ TowardsZero(t) - t <= 1
  BY <1>1 DEF TowardsZero
<1> QED  BY <1>2, <1>3, Sixteen

LEMMA UnitStep ==
  ASSUME NEW o \in Int, NEW t \in Int, NEW to \in Nat, -1 <= o - t, o - t <= 1
  PROVE  o * to \in Int /\ Near(o * to - t * to, to)
<1> DEFINE tt == t * to
<1>1. tt \in Int
  OBVIOUS
<1>2. o = t \/ o = t + 1 \/ o = t - 1
  OBVIOUS
<1>3. (t + 1) * to = tt + to /\ (t - 1) * to = tt - to
  OBVIOUS
<1>4. o * to = tt \/ o * to = tt + to \/ o * to = tt - to
  BY <1>2, <1>3
<1> HIDE DEF tt
<1>5. o * to \in Int /\ Near(o * to - tt, to)
  BY <1>1, <1>4 DEF Near
<1> QED  BY <1>5 DEF tt

\* Whatever the rounding does, resample stays on the line.
LEMMA ResampleOnLine ==
  ASSUME NEW samples \in Seq(I16), NEW from \in Nat \ {0}, NEW to \in Nat \ {0},
         NEW out \in Resamplings(samples, from, to)
  PROVE  OnLine(samples, out, from, to)
<1>1. CASE samples = <<>>
  <2>1. out = <<>> /\ Len(<<>>) = 0
    BY <1>1 DEF Resamplings
  <2> QED  BY <1>1, <2>1 DEF OnLine
<1>2. CASE samples # <<>> /\ from = to
  <2>1. out = samples /\ Len(samples) = ResampledLen(Len(samples), from, to)
    BY <1>2 DEF Resamplings, ResampledLen
  <2>2. ASSUME NEW i \in 1 .. Len(out)
        PROVE  Near(out[i] * to - Interpolated(samples, i - 1, from, to), to)
    <3> DEFINE j == i - 1
    <3>1. j \in Nat /\ i = j + 1 /\ Len(samples) \in Nat /\ i <= Len(samples)
      BY <2>1
    <3>2. (j * to) \div to = j /\ (j * to) % to = 0
      <4>1. (j * to) \div to \in Nat /\ (j * to) % to \in 0 .. to - 1
            /\ to * ((j * to) \div to) + ((j * to) % to) = j * to
        <5> DEFINE p == j * to
        <5>1. p \in Nat
          BY <3>1
        <5> HIDE DEF p
        <5> QED  BY <5>1, Division DEF p
      <4> DEFINE q == (j * to) \div to
                 r == (j * to) % to
      <4> HIDE DEF q, r
      <4>2. q \in Nat /\ r \in 0 .. to - 1 /\ to * q + r = j * to
        BY <4>1 DEF q, r
      <4> HIDE DEF j
      <4>3. CASE q <= j - 1
        <5>1. q * to <= (j - 1) * to /\ (j - 1) * to = j * to - to /\ q * to = to * q
          BY <3>1, <4>2, <4>3, Grows
        <5> DEFINE qt == to * q
                   jt == j * to
        <5>2. qt \in Int /\ jt \in Int /\ qt + r = jt /\ qt <= jt - to
          BY <3>1, <4>2, <5>1
        <5> HIDE DEF qt, jt
        <5> QED  BY <4>2, <5>2
      <4>4. CASE j + 1 <= q
        <5>1. (j + 1) * to <= q * to /\ (j + 1) * to = j * to + to /\ q * to = to * q
          BY <3>1, <4>2, <4>4, Grows
        <5> DEFINE qt == to * q
                   jt == j * to
        <5>2. qt \in Int /\ jt \in Int /\ qt + r = jt /\ jt + to <= qt
          BY <3>1, <4>2, <5>1
        <5> HIDE DEF qt, jt
        <5> QED  BY <4>2, <5>2
      <4>5. CASE q = j
        <5>1. to * q = j * to /\ j * to \in Int
          BY <3>1, <4>5
        <5> DEFINE jt == j * to
        <5>2. jt + r = jt /\ jt \in Int
          BY <4>2, <5>1
        <5> HIDE DEF jt
        <5>3. r = 0
          BY <4>2, <5>2
        <5> QED  BY <4>5, <5>3 DEF q, r
      <4> QED  BY <3>1, <4>2, <4>3, <4>4, <4>5
    <3> DEFINE v == Interpolated(samples, j, to, to)
               here == samples[i] * to
    <3>3. samples[i] \in Int /\ here \in Int
      <4>1. samples[i] \in I16 /\ to \in Nat
        BY <3>1
      <4> QED  BY <4>1, Scaled
    <3>4. v = IF j + 1 < Len(samples) THEN samples[j + 1] * (to - 0) + samples[j + 2] * 0
              ELSE samples[Len(samples)] * to
      <4>1. v = IF (j * to) \div to + 1 < Len(samples)
                  THEN samples[(j * to) \div to + 1] * (to - ((j * to) % to))
                         + samples[(j * to) \div to + 2] * ((j * to) % to)
                  ELSE samples[Len(samples)] * to
        <5>1. to \in Nat
          OBVIOUS
        <5> HIDE DEF j
        <5> QED  BY <1>2, <3>1, <5>1, InterpolatedType
      <4> HIDE DEF v, j
      <4> QED  BY <3>2, <4>1
    <3>5. v = here
      <4>1. CASE j + 1 < Len(samples)
        <5>1. samples[j + 2] \in I16
          BY <3>1, <4>1
        <5>2. samples[j + 2] \in Int
          BY <5>1, Scaled
        <5>3. v = samples[i] * (to - 0) + samples[j + 2] * 0
          BY <3>1, <3>4, <4>1
        <5>4. samples[j + 2] * 0 = 0 /\ to - 0 = to
          BY <5>2
        <5> QED  BY <3>3, <5>3, <5>4
      <4>2. CASE ~(j + 1 < Len(samples))
        <5>1. i = Len(samples)
          BY <3>1, <4>2
        <5> QED  BY <3>4, <4>2, <5>1
      <4> QED  BY <4>1, <4>2
    <3>6. out[i] * to - Interpolated(samples, i - 1, from, to) = here - v
      BY <1>2, <2>1
    <3> HIDE DEF here, v
    <3> QED  BY <3>3, <3>5, <3>6 DEF Near
  <2> QED  BY <1>2, <2>1, <2>2 DEF OnLine
<1>3. CASE samples # <<>> /\ from # to
  <2> DEFINE n        == ResampledLen(Len(samples), from, to)
             exact(i) == Trunc(Interpolated(samples, i - 1, from, to), to)
  <2>1. /\ DOMAIN out = 1 .. n
        /\ \A i \in 1 .. n :
             \/ out[i] = exact(i)
             \/ (out[i] = TowardsZero(exact(i)) /\ MayBeMissed(samples, i - 1, from, to))
        /\ out = [i \in DOMAIN out |-> out[i]]
    <3> HIDE DEF n
    <3> DEFINE exactly == [i \in 1 .. n |-> exact(i)]
               missed  == {i \in DOMAIN exactly : MayBeMissed(samples, i - 1, from, to)}
    <3>1. PICK M \in SUBSET missed :
            out = [i \in DOMAIN exactly |-> IF i \in M THEN TowardsZero(exactly[i]) ELSE exactly[i]]
      BY <1>3 DEF Resamplings, n
    <3> HIDE DEF exact
    <3> QED  BY <3>1
  <2>2. n \in Nat
    BY Resampled
  <2> HIDE DEF n, exact
  <2>3. ASSUME NEW i \in 1 .. n
        PROVE  out[i] \in I16 /\ Near(out[i] * to - Interpolated(samples, i - 1, from, to), to)
    <3>1. i - 1 \in Nat
      BY <2>2
    <3> DEFINE v == Interpolated(samples, i - 1, from, to)
               t == Trunc(v, to)
               o == out[i]
    <3>2. Within(v, to)
      BY <1>3, <3>1, InterpolatedType
    <3>3. MayBeMissed(samples, i - 1, from, to) => v % to = 0
      BY DEF MayBeMissed
    <3>4. o = t \/ (o = TowardsZero(t) /\ v % to = 0)
      BY <2>1, <3>3 DEF exact
    <3> HIDE DEF v
    <3>5. v \in Int /\ (-32768) * to <= v /\ v <= 32767 * to
      BY <3>2 DEF Within
    <3>6. t \in I16
      <4> DEFINE low  == -32768
                 high == 32767
      <4>1. low \in Int /\ high \in Int /\ low <= 0 /\ high >= 0
        OBVIOUS
      <4>2. v \in Int /\ low * to <= v /\ v <= high * to /\ to \in Nat /\ to > 0
        BY <3>5
      <4> HIDE DEF low, high
      <4>3. t \in low .. high
        BY <4>1, <4>2, TruncatesWithin
      <4>4. t \in Int /\ low <= t /\ t <= high
        BY <4>1, <4>3
      <4> QED  BY <4>4, Sixteen DEF low, high
    <3>7. t * to - v \in 1 - to .. to - 1 /\ (v % to = 0 => t * to = v)
      <4>1. v \in Int /\ to \in Nat /\ to > 0
        BY <3>5
      <4> QED  BY <4>1, Truncates
    <3> HIDE DEF t, o
    <3>8. t \in Int /\ t * to \in Int
      BY <3>6, Scaled
    <3>9. CASE o = t
      <4> DEFINE tt == t * to
      <4>1. tt \in Int /\ tt - v \in 1 - to .. to - 1
        BY <3>7, <3>8
      <4> HIDE DEF tt
      <4>2. Near(tt - v, to)
        BY <3>5, <4>1 DEF Near
      <4> QED  BY <3>6, <3>9, <4>2 DEF o, v, tt
    <3>10. CASE o = TowardsZero(t) /\ v % to = 0
      <4>1. o \in I16 /\ -1 <= o - t /\ o - t <= 1
        BY <3>6, <3>10, TowardsZeroStep
      <4>2. o \in Int
        BY <4>1, Sixteen
      <4>3. Near(o * to - t * to, to)
        BY <3>8, <4>1, <4>2, UnitStep
      <4> QED  BY <3>7, <3>10, <4>1, <4>3 DEF o, v
    <3> QED  BY <3>4, <3>9, <3>10
  <2>4. out \in [1 .. n -> I16]
    BY <2>1, <2>3
  <2>5. out \in Seq(I16) /\ Len(out) = n
    BY <2>2, <2>4
  <2>6. \A i \in 1 .. Len(out) : Near(out[i] * to - Interpolated(samples, i - 1, from, to), to)
    BY <2>3, <2>5
  <2> QED  BY <1>3, <2>5, <2>6 DEF OnLine, n
<1> QED  BY <1>1, <1>2, <1>3
-----------------------------------------------------------------------------
\* One channel of interleaved samples: a sample of each whole frame.
LEMMA ChannelType ==
  ASSUME NEW samples \in Seq(I16), NEW channels \in {1, 2}, NEW c \in 1 .. channels
  PROVE  /\ FramesIn(samples, channels) \in Nat
         /\ channels * FramesIn(samples, channels) <= Len(samples)
         /\ Len(samples) < channels * (FramesIn(samples, channels) + 1)
         /\ ChannelOf(samples, channels, c) \in Seq(I16)
         /\ Len(ChannelOf(samples, channels, c)) = FramesIn(samples, channels)
         /\ \A i \in 1 .. FramesIn(samples, channels) :
              ChannelOf(samples, channels, c)[i] = samples[channels * (i - 1) + c]
<1> DEFINE f   == FramesIn(samples, channels)
           len == Len(samples)
<1>1. len \in Nat
  OBVIOUS
<1>2. f \in Nat /\ channels * f <= len /\ len < channels * (f + 1)
  <2> HIDE DEF len
  <2>1. f = len \div channels
    BY DEF FramesIn, len
  <2>2. CASE channels = 1
    BY <1>1, <2>1, <2>2
  <2>3. CASE channels = 2
    BY <1>1, <2>1, <2>3
  <2> QED  BY <2>2, <2>3
<1> HIDE DEF f
<1>3. ASSUME NEW i \in 1 .. f
      PROVE  channels * (i - 1) + c \in 1 .. Len(samples) /\ samples[channels * (i - 1) + c] \in I16
  <2>1. CASE channels = 1
    BY <1>2, <2>1
  <2>2. CASE channels = 2
    BY <1>2, <2>2
  <2> QED  BY <2>1, <2>2
<1>4. ChannelOf(samples, channels, c) = [i \in 1 .. f |-> samples[channels * (i - 1) + c]]
  BY DEF ChannelOf, f
<1>5. [i \in 1 .. f |-> samples[channels * (i - 1) + c]] \in [1 .. f -> I16]
  BY <1>3
<1>6. ChannelOf(samples, channels, c) \in Seq(I16) /\ Len(ChannelOf(samples, channels, c)) = f
  BY <1>2, <1>4, <1>5
<1> QED  BY <1>2, <1>4, <1>6 DEF f

\* The only channel of mono samples is the samples.
LEMMA ChannelOfMono ==
  ASSUME NEW samples \in Seq(I16)
  PROVE  FramesIn(samples, 1) = Len(samples) /\ ChannelOf(samples, 1, 1) = samples
<1>1. FramesIn(samples, 1) = Len(samples)
  BY DEF FramesIn
<1>2. Len(ChannelOf(samples, 1, 1)) = Len(samples) /\ ChannelOf(samples, 1, 1) \in Seq(I16)
  BY <1>1, ChannelType
<1>3. ASSUME NEW i \in 1 .. Len(samples)
      PROVE  ChannelOf(samples, 1, 1)[i] = samples[i]
  <2>1. 1 * (i - 1) + 1 = i
    OBVIOUS
  <2> QED  BY <1>1, <2>1 DEF ChannelOf
<1> QED  BY <1>1, <1>2, <1>3

\* The two channels of two signals of the same length, put together, are the two.
LEMMA StereoChannels ==
  ASSUME NEW l \in Seq(I16), NEW r \in Seq(I16), Len(l) = Len(r)
  PROVE  /\ Stereo(l, r) \in Seq(I16) /\ Len(Stereo(l, r)) = 2 * Len(l)
         /\ FramesIn(Stereo(l, r), 2) = Len(l)
         /\ ChannelOf(Stereo(l, r), 2, 1) = l /\ ChannelOf(Stereo(l, r), 2, 2) = r
<1> DEFINE n == Len(l)
           s == Stereo(l, r)
<1>1. n \in Nat /\ Len(r) = n
  OBVIOUS
<1>2. Min({n, Len(r)}) = n
  <2> HIDE DEF n
  <2>1. \E x \in {n, n} : \A y \in {n, n} : x <= y
    BY <1>1
  <2> QED  BY <1>1, <2>1 DEF Min
<1>3. s = [k \in 1 .. 2 * n |-> IF k % 2 = 1 THEN l[(k + 1) \div 2] ELSE r[(k + 1) \div 2]]
  BY <1>2 DEF Stereo
<1> HIDE DEF s
<1>4. \A i \in 1 .. n : l[i] \in I16 /\ r[i] \in I16
  BY <1>1
<1> HIDE DEF n
<1>5. ASSUME NEW k \in 1 .. 2 * n
      PROVE  (k + 1) \div 2 \in 1 .. n /\ s[k] \in I16
  <2>1. (k + 1) \div 2 \in 1 .. n
    BY <1>1
  <2> QED  BY <1>3, <1>4, <2>1
<1>6. s \in [1 .. 2 * n -> I16]
  BY <1>3, <1>5
<1>7. s \in Seq(I16) /\ Len(s) = 2 * n
  <2>1. 2 * n \in Nat
    BY <1>1
  <2> QED  BY <1>6, <2>1
<1>8. FramesIn(s, 2) = n
  <2>1. FramesIn(s, 2) = (2 * n) \div 2
    BY <1>7 DEF FramesIn
  <2> QED  BY <1>1, <2>1
<1>9. ASSUME NEW i \in 1 .. n
      PROVE  s[2 * (i - 1) + 1] = l[i] /\ s[2 * (i - 1) + 2] = r[i]
  <2> DEFINE k == 2 * (i - 1) + 1
             m == 2 * (i - 1) + 2
  <2>1. /\ k \in 1 .. 2 * n /\ k % 2 = 1 /\ (k + 1) \div 2 = i
        /\ m \in 1 .. 2 * n /\ m % 2 = 0 /\ (m + 1) \div 2 = i
    BY <1>1
  <2> HIDE DEF k, m
  <2>2. s[k] = l[i] /\ s[m] = r[i]
    BY <1>3, <2>1
  <2> QED  BY <2>2 DEF k, m
<1>10. ASSUME NEW c \in {1, 2}
       PROVE  ChannelOf(s, 2, c) = IF c = 1 THEN l ELSE r
  <2>1. c \in 1 .. 2 /\ 2 \in {1, 2}
    OBVIOUS
  <2>2. /\ ChannelOf(s, 2, c) \in Seq(I16) /\ Len(ChannelOf(s, 2, c)) = n
        /\ \A i \in 1 .. n : ChannelOf(s, 2, c)[i] = s[2 * (i - 1) + c]
    BY <1>7, <1>8, <2>1, ChannelType
  <2>3. CASE c = 1
    BY <1>1, <1>9, <2>2, <2>3 DEF n
  <2>4. CASE c = 2
    BY <1>1, <1>9, <2>2, <2>4 DEF n
  <2> QED  BY <2>3, <2>4
<1>11. ChannelOf(s, 2, 1) = l /\ ChannelOf(s, 2, 2) = r
  BY <1>10
<1> QED  BY <1>7, <1>8, <1>11 DEF n, s

\* The mean of two samples is one.
LEMMA MeanType ==
  ASSUME NEW a \in I16, NEW b \in I16
  PROVE  Trunc(a + b, 2) \in I16
<1> DEFINE low  == -32768
           high == 32767
           t    == Trunc(a + b, 2)
<1>1. low \in Int /\ high \in Int /\ low <= 0 /\ high >= 0
  OBVIOUS
<1>2. a + b \in Int /\ low * 2 <= a + b /\ a + b <= high * 2
  BY Sixteen
<1> HIDE DEF low, high
<1>3. t \in low .. high
  BY <1>1, <1>2, TruncatesWithin
<1> HIDE DEF t
<1>4. t \in Int /\ low <= t /\ t <= high
  BY <1>1, <1>3
<1> QED  BY <1>4, Sixteen DEF low, high, t

\* The conversion of the channels keeps the frames, and each channel of the result
\* has the samples of its own channels in the source.
LEMMA RechannelledOf ==
  ASSUME NEW in \in Seq(I16), NEW native \in {1, 2}, NEW channels \in {1, 2}, NEW c \in 1 .. channels
  PROVE  LET data == Rechannelled(in, native, channels)
         IN  /\ data \in Seq(I16)
             /\ FramesIn(data, channels) = FramesIn(in, native)
             /\ \A i \in 1 .. FramesIn(in, native) :
                  ChannelOf(data, channels, c)[i] =
                    IF native = 1 THEN in[i]
                    ELSE IF channels = 1 THEN Trunc(in[2 * i - 1] + in[2 * i], 2)
                    ELSE in[2 * (i - 1) + c]
<1> DEFINE data == Rechannelled(in, native, channels)
<1>1. CASE native = 2 /\ channels = 1
  <2> DEFINE f == FramesIn(in, 2)
             mean(i) == Trunc(in[2 * i - 1] + in[2 * i], 2)
  <2>1. f \in Nat /\ 2 * f <= Len(in)
    BY ChannelType
  <2>2. data = [i \in 1 .. f |-> mean(i)]
    BY <1>1 DEF Rechannelled, StereoToMono
  <2> HIDE DEF f, data
  <2>3. ASSUME NEW i \in 1 .. f
        PROVE  mean(i) \in I16
    <3>1. in[2 * i - 1] \in I16 /\ in[2 * i] \in I16
      BY <2>1
    <3> QED  BY <3>1, MeanType
  <2>4. data \in [1 .. f -> I16]
    <3> HIDE DEF mean
    <3> QED  BY <2>2, <2>3
  <2>5. data \in Seq(I16) /\ Len(data) = f
    BY <2>1, <2>4
  <2>6. FramesIn(data, 1) = f /\ ChannelOf(data, 1, 1) = data /\ c = 1
    BY <1>1, <2>5, ChannelOfMono
  <2>7. \A i \in 1 .. f : ChannelOf(data, channels, c)[i] = mean(i)
    <3> HIDE DEF mean
    <3> QED  BY <1>1, <2>2, <2>6
  <2> QED  BY <1>1, <2>5, <2>6, <2>7 DEF data, f
<1>2. CASE native = 1 /\ channels = 2
  <2>1. data = Stereo(in, in) /\ FramesIn(in, 1) = Len(in)
    BY <1>2, ChannelOfMono DEF Rechannelled, MonoToStereo
  <2> HIDE DEF data
  <2>2. /\ data \in Seq(I16) /\ FramesIn(data, 2) = Len(in)
        /\ ChannelOf(data, 2, 1) = in /\ ChannelOf(data, 2, 2) = in
    BY <2>1, StereoChannels
  <2>3. c = 1 \/ c = 2
    BY <1>2
  <2> QED  BY <1>2, <2>1, <2>2, <2>3 DEF data
<1>3. CASE native = channels
  <2>1. data = in
    BY <1>3 DEF Rechannelled
  <2>2. CASE native = 1
    <3>1. ChannelOf(in, 1, 1) = in /\ c = 1
      BY <1>3, <2>2, ChannelOfMono
    <3> QED  BY <1>3, <2>1, <2>2, <3>1
  <2>3. CASE native = 2
    <3>1. \A i \in 1 .. FramesIn(in, 2) : ChannelOf(in, 2, c)[i] = in[2 * (i - 1) + c]
      BY <1>3, <2>3, ChannelType
    <3> HIDE DEF data
    <3> QED  BY <1>3, <2>1, <2>3, <3>1 DEF data
  <2> QED  BY <2>2, <2>3
<1> QED  BY <1>1, <1>2, <1>3

\* Every output of the conversion keeps to 16 bits, and each of its channels is on
\* the line of that channel of the rechannelled samples.
LEMMA ConversionOnLine ==
  ASSUME NEW in \in Seq(I16), NEW source \in FormatSet, NEW target \in FormatSet,
         NEW out \in Conversions(in, source, target)
  PROVE  /\ out \in Seq(I16)
         /\ \A c \in 1 .. target.channels :
              OnLine(ChannelOf(Rechannelled(in, source.channels, target.channels), target.channels, c),
                     ChannelOf(out, target.channels, c), source.rate, target.rate)
<1> DEFINE from == source.rate
           to   == target.rate
           data == Rechannelled(in, source.channels, target.channels)
<1>1. /\ source.channels \in {1, 2} /\ target.channels \in {1, 2}
      /\ from \in Nat \ {0} /\ to \in Nat \ {0}
  BY DEF FormatSet
<1>2. data \in Seq(I16)
  <2>1. 1 \in 1 .. target.channels
    BY <1>1
  <2> QED  BY <1>1, <2>1, RechannelledOf
<1>3. out \in IF target.channels = 2 THEN StereoResamplings(data, from, to) ELSE Resamplings(data, from, to)
  BY DEF Conversions
<1> HIDE DEF from, to, data
<1>4. CASE target.channels = 1
  <2>1. out \in Resamplings(data, from, to)
    BY <1>3, <1>4
  <2>2. OnLine(data, out, from, to)
    BY <1>1, <1>2, <2>1, ResampleOnLine
  <2>3. out \in Seq(I16)
    BY <2>2 DEF OnLine
  <2>4. ChannelOf(data, 1, 1) = data /\ ChannelOf(out, 1, 1) = out
    BY <1>2, <2>3, ChannelOfMono
  <2>5. \A c \in 1 .. target.channels : c = 1
    BY <1>4
  <2> QED  BY <1>4, <2>2, <2>3, <2>4, <2>5 DEF from, to, data
<1>5. CASE target.channels = 2
  <2> DEFINE channel(c) == ChannelOf(data, 2, c)
  <2>1. ASSUME NEW c \in 1 .. 2
        PROVE  channel(c) \in Seq(I16) /\ Len(channel(c)) = FramesIn(data, 2)
    BY <1>2, ChannelType
  <2>2. CASE from = to \/ data = <<>>
    <3>1. out = data
      BY <1>3, <1>5, <2>2 DEF StereoResamplings
    <3>2. ASSUME NEW c \in 1 .. 2
          PROVE  OnLine(channel(c), channel(c), from, to)
      <4>1. data = <<>> => channel(c) = <<>>
        <5>1. ASSUME data = <<>>  PROVE FramesIn(data, 2) = 0
          BY <5>1 DEF FramesIn
        <5> QED  BY <2>1, <5>1
      <4>2. channel(c) \in Resamplings(channel(c), from, to)
        BY <2>2, <4>1 DEF Resamplings
      <4> QED  BY <1>1, <2>1, <4>2, ResampleOnLine
    <3> QED  BY <1>2, <1>5, <3>1, <3>2 DEF from, to, data
  <2>3. CASE from # to /\ data # <<>>
    <3>1. PICK l \in Resamplings(channel(1), from, to), r \in Resamplings(channel(2), from, to) :
            out = Stereo(l, r)
      BY <1>3, <1>5, <2>3 DEF StereoResamplings
    <3> HIDE DEF channel
    <3>2. channel(1) \in Seq(I16) /\ channel(2) \in Seq(I16) /\ Len(channel(1)) = Len(channel(2))
      BY <2>1
    <3>3. OnLine(channel(1), l, from, to) /\ OnLine(channel(2), r, from, to)
      BY <1>1, <3>1, <3>2, ResampleOnLine
    <3>4. l \in Seq(I16) /\ r \in Seq(I16) /\ Len(l) = Len(r)
      <4>1. channel(1) = <<>> <=> channel(2) = <<>>
        BY <3>2
      <4> QED  BY <3>2, <3>3, <4>1 DEF OnLine
    <3>5. /\ out \in Seq(I16)
          /\ ChannelOf(out, 2, 1) = l /\ ChannelOf(out, 2, 2) = r
      BY <3>1, <3>4, StereoChannels
    <3>6. \A c \in 1 .. 2 : c = 1 \/ c = 2
      OBVIOUS
    <3> QED  BY <1>5, <3>3, <3>5, <3>6 DEF from, to, data, channel
  <2> QED  BY <2>2, <2>3
<1> QED  BY <1>1, <1>4, <1>5
-----------------------------------------------------------------------------
(* Sums.  A sum over a finite set is defined by recursion on the set, with an
   element of it chosen at each step.  To prove that the recursion has a solution,
   and that the order of the choices does not matter, the sum of values of 16 bits
   is counted: a value v is the column of the v + 32768 units under it.       *)

AnyOf(T) == CHOOSE x \in T : TRUE

\* h is what the recursion of FoldFunctionOnSet(+, 0, f, P) defines.
IsSum(h, f, P) ==
  h = [T \in SUBSET P |-> IF T = {} THEN 0 ELSE f[AnyOf(T)] + h[T \ {AnyOf(T)}]]

Column == 1 .. 65535

Units(f, T) == {u \in T \X Column : u[2] <= f[u[1]] + 32768}

Total(f, T) == Cardinality(Units(f, T)) - 32768 * Cardinality(T)

LEMMA ColumnType ==
  /\ IsFiniteSet(Column) /\ Cardinality(Column) = 65535
  /\ \A n : n \in Column <=> n \in Int /\ 1 <= n /\ n <= 65535
<1> DEFINE high == 65535
<1>1. high \in Int /\ 1 <= high
  OBVIOUS
<1>2. Column = 1 .. high
  BY DEF Column
<1> HIDE DEF high
<1>3. 1 \in Int /\ high - 1 + 1 = high
  BY <1>1
<1>4. IsFiniteSet(Column) /\ Cardinality(Column) = high
  BY <1>1, <1>2, <1>3, FS_Interval
<1>5. \A n : n \in Column <=> n \in Int /\ 1 <= n /\ n <= high
  BY <1>1, <1>2
<1> QED  BY <1>4, <1>5 DEF high

\* There are finitely many units, at most 65535 for each place.
LEMMA UnitsType ==
  ASSUME NEW T, IsFiniteSet(T), NEW f
  PROVE  /\ IsFiniteSet(Units(f, T)) /\ Cardinality(Units(f, T)) \in Nat
         /\ Cardinality(T) \in Nat /\ Cardinality(Units(f, T)) <= Cardinality(T) * 65535
         /\ Total(f, T) \in Int
<1>1. IsFiniteSet(T \X Column) /\ Cardinality(T \X Column) = Cardinality(T) * 65535
  BY FS_Product, ColumnType
<1>2. Units(f, T) \in SUBSET (T \X Column)
  BY DEF Units
<1>3. IsFiniteSet(Units(f, T)) /\ Cardinality(Units(f, T)) <= Cardinality(T \X Column)
  BY <1>1, <1>2, FS_Subset
<1>4. Cardinality(Units(f, T)) \in Nat /\ Cardinality(T) \in Nat
  BY <1>3, FS_CardinalityType
<1> QED  BY <1>1, <1>3, <1>4 DEF Total

\* The units of two sets of places that have none in common.
LEMMA UnitsOfTwo ==
  ASSUME NEW T, IsFiniteSet(T), NEW U, IsFiniteSet(U), T \cap U = {}, NEW f
  PROVE  Total(f, T \cup U) = Total(f, T) + Total(f, U)
<1>1. Units(f, T \cup U) = Units(f, T) \cup Units(f, U)
  BY DEF Units
<1>2. Units(f, T) \cap Units(f, U) = {}
  BY DEF Units
<1>3. Cardinality({}) = 0
  BY FS_EmptySet
<1>4. Cardinality(T \cup U) = Cardinality(T) + Cardinality(U) - 0
  BY <1>3, FS_Union
<1>5. Cardinality(Units(f, T \cup U)) = Cardinality(Units(f, T)) + Cardinality(Units(f, U)) - 0
  <2>1. IsFiniteSet(Units(f, T)) /\ IsFiniteSet(Units(f, U))
    BY UnitsType
  <2> QED  BY <1>1, <1>2, <1>3, <2>1, FS_Union
<1>6. /\ Cardinality(Units(f, T)) \in Nat /\ Cardinality(Units(f, U)) \in Nat
      /\ Cardinality(T) \in Nat /\ Cardinality(U) \in Nat
  BY UnitsType
<1> QED  BY <1>4, <1>5, <1>6 DEF Total

\* What a set has at one height is a column over each of its places.
LEMMA UnitsOfConstant ==
  ASSUME NEW T, IsFiniteSet(T), NEW f, NEW v \in I16, \A x \in T : f[x] = v
  PROVE  Total(f, T) = v * Cardinality(T)
<1> DEFINE top == v + 32768
           n   == Cardinality(T)
<1>1. v \in Int /\ top \in Int /\ 0 <= top /\ top <= 65535
  BY Sixteen
<1> HIDE DEF top
<1>2. Units(f, T) = T \X (1 .. top)
  <2>1. ASSUME NEW m  PROVE m \in 1 .. top <=> m \in Column /\ m <= top
    BY <1>1, ColumnType
  <2>2. ASSUME NEW u \in T \X Column
        PROVE  u[2] <= f[u[1]] + 32768 <=> u[2] <= top
    BY DEF top
  <2>3. ASSUME NEW u
        PROVE  u \in Units(f, T) <=> u \in T \X (1 .. top)
    <3>1. u \in Units(f, T) <=> u \in T \X Column /\ u[2] <= top
      BY <2>2 DEF Units
    <3> QED  BY <2>1, <3>1
  <2> QED  BY <2>3
<1>3. IsFiniteSet(1 .. top) /\ Cardinality(1 .. top) = top
  BY <1>1, FS_Interval
<1>4. Cardinality(Units(f, T)) = n * top
  BY <1>2, <1>3, FS_Product
<1>5. n \in Nat
  BY FS_CardinalityType
<1> HIDE DEF n
<1>6. n * (v + 32768) = v * n + 32768 * n
  BY <1>1, <1>5
<1> DEFINE vn == v * n
           c  == 32768 * n
<1>7. vn \in Int /\ c \in Int /\ n * top = vn + c
  BY <1>1, <1>5, <1>6 DEF top
<1>8. Total(f, T) = n * top - c
  BY <1>4 DEF Total, n
<1> HIDE DEF vn, c
<1>9. Total(f, T) = vn
  BY <1>7, <1>8
<1> QED  BY <1>9 DEF vn, n

\* Any place of a set can be taken out of its sum.
LEMMA TotalStep ==
  ASSUME NEW P, IsFiniteSet(P), NEW f \in [P -> I16], NEW T \in SUBSET P, NEW x \in T
  PROVE  Total(f, T) = f[x] + Total(f, T \ {x}) /\ f[x] \in Int /\ Total(f, T \ {x}) \in Int
<1>1. IsFiniteSet(T \ {x}) /\ IsFiniteSet({x}) /\ Cardinality({x}) = 1
  BY FS_Subset, FS_Singleton
<1>2. T = (T \ {x}) \cup {x} /\ (T \ {x}) \cap {x} = {}
  OBVIOUS
<1>3. Total(f, T) = Total(f, T \ {x}) + Total(f, {x})
  BY <1>1, <1>2, UnitsOfTwo
<1>4. f[x] \in I16 /\ \A y \in {x} : f[y] = f[x]
  OBVIOUS
<1>5. Total(f, {x}) = f[x] * 1
  BY <1>1, <1>4, UnitsOfConstant
<1>6. f[x] \in Int
  BY <1>4, Sixteen
<1>7. Total(f, T \ {x}) \in Int
  BY <1>1, UnitsType
<1> QED  BY <1>3, <1>5, <1>6, <1>7

LEMMA TotalEmpty ==
  ASSUME NEW f
  PROVE  Total(f, {}) = 0
<1>1. Units(f, {}) = {}
  BY DEF Units
<1> QED  BY <1>1, FS_EmptySet DEF Total

\* So the recursion has a solution ...
LEMMA TotalIsSum ==
  ASSUME NEW P, IsFiniteSet(P), NEW f \in [P -> I16]
  PROVE  IsSum([T \in SUBSET P |-> Total(f, T)], f, P)
<1> DEFINE h == [T \in SUBSET P |-> Total(f, T)]
<1>1. ASSUME NEW T \in SUBSET P
      PROVE  Total(f, T) = IF T = {} THEN 0 ELSE f[AnyOf(T)] + h[T \ {AnyOf(T)}]
  <2>1. CASE T = {}
    BY <2>1, TotalEmpty
  <2>2. CASE T # {}
    <3>1. AnyOf(T) \in T
      BY <2>2 DEF AnyOf
    <3>2. Total(f, T) = f[AnyOf(T)] + Total(f, T \ {AnyOf(T)})
      BY <3>1, TotalStep
    <3>3. T \ {AnyOf(T)} \in SUBSET P
      OBVIOUS
    <3>4. h[T \ {AnyOf(T)}] = Total(f, T \ {AnyOf(T)})
      BY <3>3
    <3> QED  BY <2>2, <3>2, <3>4
  <2> QED  BY <2>1, <2>2
<1>2. h = [T \in SUBSET P |-> IF T = {} THEN 0 ELSE f[AnyOf(T)] + h[T \ {AnyOf(T)}]]
  BY <1>1
<1> QED  BY <1>2 DEF IsSum

\* ... and only one.
LEMMA SumIsTotal ==
  ASSUME NEW P, IsFiniteSet(P), NEW f \in [P -> I16], NEW h, IsSum(h, f, P)
  PROVE  \A T \in SUBSET P : h[T] = Total(f, T)
<1> DEFINE Wrong == {T \in SUBSET P : h[T] # Total(f, T)}
<1>1. SUFFICES ASSUME Wrong # {}  PROVE FALSE
  OBVIOUS
<1>2. PICK T \in Wrong : \A U \in Wrong : ~(<<U, T>> \in StrictSubsetOrdering(P))
  <2>1. Wrong \subseteq FiniteSubsetsOf(P)
    BY FS_FiniteSubsetsOfFinite
  <2> HIDE DEF Wrong
  <2> QED  BY <1>1, <2>1, FS_StrictSubsetOrderingWellFounded, WFMin
<1>3. T \in SUBSET P /\ h[T] # Total(f, T)
  BY <1>2
<1>4. h[T] = IF T = {} THEN 0 ELSE f[AnyOf(T)] + h[T \ {AnyOf(T)}]
  BY <1>3 DEF IsSum
<1>5. CASE T = {}
  BY <1>3, <1>4, <1>5, TotalEmpty
<1>6. CASE T # {}
  <2> DEFINE x == AnyOf(T)
  <2>1. x \in T
    BY <1>6 DEF AnyOf
  <2> HIDE DEF x
  <2>2. T \ {x} \in SUBSET P /\ <<T \ {x}, T>> \in StrictSubsetOrdering(P)
    BY <1>3, <2>1 DEF StrictSubsetOrdering
  <2>3. h[T \ {x}] = Total(f, T \ {x})
    BY <1>2, <2>2
  <2>4. Total(f, T) = f[x] + Total(f, T \ {x})
    BY <1>3, <2>1, TotalStep
  <2>5. h[T] = f[x] + h[T \ {x}]
    BY <1>4, <1>6 DEF x
  <2> QED  BY <1>3, <2>3, <2>4, <2>5
<1> QED  BY <1>5, <1>6

\* The sum of values of 16 bits over a finite set, in whatever order.
LEMMA SumOf ==
  ASSUME NEW P, IsFiniteSet(P), NEW f \in [P -> I16]
  PROVE  FoldFunctionOnSet(+, 0, f, P) = Total(f, P)
<1>1. FoldFunctionOnSet(+, 0, f, P) = (CHOOSE h : IsSum(h, f, P))[P]
  BY DEF FoldFunctionOnSet, MapThenFoldSet, IsSum, AnyOf
<1> DEFINE h == CHOOSE g : IsSum(g, f, P)
<1>2. IsSum(h, f, P)
  <2>1. \E g : IsSum(g, f, P)
    BY TotalIsSum
  <2> QED  BY <2>1
<1> HIDE DEF h
<1>3. h[P] = Total(f, P)
  <2>1. P \in SUBSET P
    OBVIOUS
  <2> QED  BY <1>2, <2>1, SumIsTotal
<1> QED  BY <1>1, <1>3 DEF h

\* A sum is between the extremes of 16 bits times the number of its terms.
LEMMA TotalWithin ==
  ASSUME NEW P, IsFiniteSet(P), NEW f
  PROVE  Within(Total(f, P), Cardinality(P))
<1> DEFINE n == Cardinality(P)
           u == Cardinality(Units(f, P))
<1>1. u \in Nat /\ n \in Nat /\ u <= n * 65535
  BY UnitsType
<1>2. Total(f, P) = u - 32768 * n
  BY DEF Total
<1> HIDE DEF n, u
<1> QED  BY <1>1, <1>2 DEF Within, n

\* Silence adds nothing.
LEMMA SilenceAddsNothing ==
  ASSUME NEW Q, IsFiniteSet(Q), NEW P \in SUBSET Q, NEW f, NEW g,
         \A x \in P : g[x] = f[x], \A x \in Q \ P : g[x] = 0
  PROVE  Total(g, Q) = Total(f, P)
<1>1. IsFiniteSet(P) /\ IsFiniteSet(Q \ P)
  BY FS_Subset
<1>2. Q = P \cup (Q \ P) /\ P \cap (Q \ P) = {}
  OBVIOUS
<1>3. Total(g, Q) = Total(g, P) + Total(g, Q \ P)
  BY <1>1, <1>2, UnitsOfTwo
<1>4. Total(g, Q \ P) = 0
  <2>1. 0 \in I16
    BY Sixteen
  <2>2. Cardinality(Q \ P) \in Nat
    BY <1>1, FS_CardinalityType
  <2>3. Total(g, Q \ P) = 0 * Cardinality(Q \ P)
    BY <1>1, <2>1, UnitsOfConstant
  <2> QED  BY <2>2, <2>3
<1>5. Total(g, P) = Total(f, P)
  <2>1. Units(g, P) = Units(f, P)
    BY DEF Units
  <2> QED  BY <2>1 DEF Total
<1>6. Total(f, P) \in Int
  BY <1>1, UnitsType
<1> QED  BY <1>3, <1>4, <1>5, <1>6
-----------------------------------------------------------------------------
(* The invariant.  It is stronger than the properties in what they cannot see:
   that the samples in the window are an outcome of the conversion of those next
   to them, and that the result was made from the window as it still is.      *)

\* What the sources in the window have at place i.
Level(w, i) == [s \in DOMAIN w |-> IF i <= Len(w[s].out) THEN w[s].out[i] ELSE 0]

IWindow ==
  /\ DOMAIN window \subseteq Sources
  /\ \A s \in DOMAIN window :
       /\ window[s].in \in Seq(Values) /\ Len(window[s].in) \in 1 .. WholeLen(s) + MaxExtra
       /\ window[s].out \in Conversions(window[s].in, device[s], Target(s))

IMixed ==
  /\ mixed \in Seq(I16)
  /\ \A i \in DOMAIN mixed :
       mixed[i] = Trunc(Total(Level(window, i), DOMAIN window), Cardinality(Sources))

MixInv ==
  /\ device \in [Sources -> DeviceFormats] /\ preset \in Presets
  /\ IWindow /\ IMixed

\* Every source has a format to convert from and one to convert to.
LEMMA Formats ==
  ASSUME device \in [Sources -> DeviceFormats], preset \in Presets, NEW s \in Sources
  PROVE  device[s] \in FormatSet /\ Target(s) \in FormatSet
<1>1. device[s] \in FormatSet
  BY MixingAssumption
<1>2. CASE preset = Native
  BY <1>1, <1>2 DEF Target
<1>3. CASE preset # Native
  <2>1. PICK f \in Fixed : preset = {f}
    BY <1>3 DEF Presets
  <2>2. (CHOOSE g \in preset : TRUE) = f
    BY <2>1
  <2> QED  BY <1>1, <1>3, <2>2, MixingAssumption DEF Target
<1> QED  BY <1>2, <1>3

\* Samples of a device are samples of 16 bits.
LEMMA ValuesAreSixteen ==
  ASSUME NEW in \in Seq(Values)
  PROVE  in \in Seq(I16)
BY MixingAssumption

\* What the invariant says of a converted chunk.
LEMMA ChunkOnLine ==
  ASSUME MixInv, NEW s \in DOMAIN window
  PROVE  /\ window[s].in \in Seq(I16) /\ window[s].out \in Seq(I16)
         /\ device[s] \in FormatSet /\ Target(s) \in FormatSet
         /\ \A c \in 1 .. Target(s).channels :
              OnLine(ChannelOf(Rechannelled(window[s].in, device[s].channels, Target(s).channels),
                               Target(s).channels, c),
                     ChannelOf(window[s].out, Target(s).channels, c),
                     device[s].rate, Target(s).rate)
<1>1. s \in Sources /\ window[s].in \in Seq(Values)
      /\ window[s].out \in Conversions(window[s].in, device[s], Target(s))
  BY DEF MixInv, IWindow
<1>2. device[s] \in FormatSet /\ Target(s) \in FormatSet
  BY <1>1, Formats DEF MixInv
<1>3. window[s].in \in Seq(I16)
  BY <1>1, ValuesAreSixteen
<1> DEFINE in     == window[s].in
           out    == window[s].out
           source == device[s]
           target == Target(s)
<1>4. /\ in \in Seq(I16) /\ source \in FormatSet /\ target \in FormatSet
      /\ out \in Conversions(in, source, target)
  BY <1>1, <1>2, <1>3
<1> HIDE DEF in, out, source, target
<1>5. /\ out \in Seq(I16)
      /\ \A c \in 1 .. target.channels :
           OnLine(ChannelOf(Rechannelled(in, source.channels, target.channels), target.channels, c),
                  ChannelOf(out, target.channels, c), source.rate, target.rate)
  BY <1>4, ConversionOnLine
<1> QED  BY <1>4, <1>5 DEF in, out, source, target

LEMMA Many ==
  /\ IsFiniteSet(Sources) /\ Cardinality(Sources) \in Nat /\ Cardinality(Sources) > 0
  /\ \A P \in SUBSET Sources : IsFiniteSet(P) /\ Cardinality(P) \in Nat
                               /\ Cardinality(P) <= Cardinality(Sources)
<1>1. IsFiniteSet(Sources) /\ Sources # {}
  BY MixingAssumption
<1>2. Cardinality(Sources) \in Nat /\ Cardinality(Sources) # 0
  BY <1>1, FS_CardinalityType, FS_EmptySet
<1>3. \A P \in SUBSET Sources : IsFiniteSet(P) /\ Cardinality(P) <= Cardinality(Sources)
  BY <1>1, FS_Subset
<1>4. \A P \in SUBSET Sources : Cardinality(P) \in Nat
  BY <1>3, FS_CardinalityType
<1> QED  BY <1>1, <1>2, <1>3, <1>4

\* The average at a place, as the sum of what the sources in the window have there
\* over the number of all sources.  It keeps to 16 bits, so that the clamp changes
\* nothing.
LEMMA AveragedIs ==
  ASSUME MixInv, NEW i \in Nat \ {0}
  PROVE  /\ Averaged(i) = Trunc(Total(Level(window, i), DOMAIN window), Cardinality(Sources))
         /\ Averaged(i) \in I16
<1> DEFINE P   == DOMAIN window
           f   == Level(window, i)
           n   == Cardinality(Sources)
           sum == Total(f, P)
           t   == Trunc(sum, n)
<1>1. P \in SUBSET Sources
  BY DEF MixInv, IWindow
<1>2. IsFiniteSet(P) /\ Cardinality(P) \in Nat /\ Cardinality(P) <= n /\ n \in Nat /\ n > 0
  BY <1>1, Many
<1>3. f \in [P -> I16]
  <2>1. ASSUME NEW s \in P
        PROVE  (IF i <= Len(window[s].out) THEN window[s].out[i] ELSE 0) \in I16
    <3>1. window[s].out \in Seq(I16)
      BY ChunkOnLine
    <3>2. 0 \in I16
      BY Sixteen
    <3> QED  BY <3>1, <3>2
  <2> QED  BY <2>1 DEF Level
<1>4. SumAt(i, P) = sum
  <2>1. SumAt(i, P) = FoldFunctionOnSet(+, 0, f, P)
    BY DEF SumAt, Level
  <2>2. FoldFunctionOnSet(+, 0, f, P) = sum
    <3> HIDE DEF f, P
    <3> QED  BY <1>2, <1>3, SumOf
  <2> QED  BY <2>1, <2>2
<1>5. Max({n, Cardinality(P)}) = n
  <2> DEFINE m == Cardinality(P)
  <2>1. m \in Nat /\ n \in Nat /\ m <= n
    BY <1>2
  <2> HIDE DEF m, n
  <2>2. \A x \in {n, m} : (\A y \in {n, m} : x >= y) => x = n
    BY <2>1
  <2>3. \A y \in {n, m} : n >= y
    BY <2>1
  <2> QED  BY <2>2, <2>3 DEF Max, m
<1>6. Averaged(i) = Clamp(t)
  BY <1>4, <1>5 DEF Averaged
<1>7. t \in I16
  <2> DEFINE low  == -32768
             high == 32767
             m    == Cardinality(P)
  <2>1. low \in Int /\ high \in Int /\ low <= 0 /\ high >= 0
    OBVIOUS
  <2>2. sum \in Int /\ (-32768) * m <= sum /\ sum <= 32767 * m
    <3> HIDE DEF f, P
    <3> QED  BY <1>2, TotalWithin DEF Within
  <2>3. sum \in Int /\ low * n <= sum /\ sum <= high * n
    <3>1. m \in Nat /\ n \in Nat /\ m <= n
      BY <1>2
    <3> HIDE DEF m, n, sum
    <3> QED  BY <2>2, <3>1
  <2> HIDE DEF low, high, sum, n
  <2>4. t \in low .. high
    <3>1. n \in Nat /\ n > 0
      BY <1>2
    <3> QED  BY <2>1, <2>3, <3>1, TruncatesWithin
  <2> HIDE DEF t
  <2>5. t \in Int /\ low <= t /\ t <= high
    BY <2>1, <2>4
  <2> QED  BY <2>5, Sixteen DEF low, high
<1> HIDE DEF t
<1>8. Clamp(t) = t
  BY <1>7, Sixteen DEF Clamp
<1> QED  BY <1>6, <1>7, <1>8 DEF t, sum, n, P, f

LEMMA InitMix ==
  ASSUME Init  PROVE MixInv
<1>1. DOMAIN window = {}
  BY DEF Init
<1>2. mixed = <<>> /\ <<>> \in Seq(I16) /\ DOMAIN <<>> = {}
  BY DEF Init
<1> QED  BY <1>1, <1>2 DEF Init, MixInv, IWindow, IMixed

\* The frames of a whole chunk: as many as the duration has, or one less if it has a
\* whole number of them, which is then at least one.
LEMMA FramesOfChunk ==
  ASSUME NEW format \in FormatSet
  PROVE  LET p == format.rate * Duration[1]
             r == p - Duration[2] * ChunkFrames(format)
         IN  /\ ChunkFrames(format) \in Nat
             /\ r \in 0 .. Duration[2]
             /\ r = Duration[2] => ComesOutShort(format)
<1> DEFINE p == format.rate * Duration[1]
           d == Duration[2]
           f == ChunkFrames(format)
           q == p \div d
           m == p % d
<1>1. p \in Nat /\ p > 0 /\ d \in Nat /\ d > 0
  BY MixingAssumption DEF FormatSet
<1>2. f = q - (IF ComesOutShort(format) THEN 1 ELSE 0)
  BY DEF ChunkFrames
<1>3. ComesOutShort(format) => m = 0
  BY DEF ComesOutShort
<1> HIDE DEF p, d, f, q, m
<1>4. q \in Nat /\ m \in 0 .. d - 1 /\ d * q + m = p
  BY <1>1, Division DEF q, m
<1>5. CASE ~ComesOutShort(format)
  <2>1. f \in Nat /\ p - d * f = m
    <3>1. d * q \in Nat
      BY <1>1, <1>4
    <3> QED  BY <1>1, <1>2, <1>4, <1>5, <3>1
  <2>2. m \in 0 .. d /\ m # d
    BY <1>1, <1>4
  <2> QED  BY <2>1, <2>2 DEF p, d, f
<1>6. CASE ComesOutShort(format)
  <2>1. q # 0 /\ d * q = p
    BY <1>1, <1>3, <1>4, <1>6
  <2>2. f \in Nat /\ f = q - 1
    BY <1>2, <1>4, <1>6, <2>1
  <2>3. d * f = d * q - d
    BY <1>1, <1>4, <2>2
  <2>4. p - d * f = d
    BY <1>1, <2>1, <2>3
  <2>5. d \in 0 .. d
    BY <1>1
  <2> QED  BY <1>6, <2>2, <2>4, <2>5 DEF p, d, f
<1> QED  BY <1>5, <1>6

LEMMA ConvertChunkKeeps ==
  ASSUME MixInv, NEW s \in Sources, ConvertChunk(s)
  PROVE  MixInv'
<1>1. PICK n \in 1 .. WholeLen(s) + MaxExtra : \E in \in [1 .. n -> Values] :
        \E out \in Conversions(in, device[s], Target(s)) :
          window' = [t \in DOMAIN window \cup {s} |->
                       IF t = s THEN [in |-> in, out |-> out] ELSE window[t]]
  BY DEF ConvertChunk
<1>2. PICK in \in [1 .. n -> Values] : \E out \in Conversions(in, device[s], Target(s)) :
        window' = [t \in DOMAIN window \cup {s} |->
                     IF t = s THEN [in |-> in, out |-> out] ELSE window[t]]
  BY <1>1
<1>3. PICK out \in Conversions(in, device[s], Target(s)) :
        window' = [t \in DOMAIN window \cup {s} |->
                     IF t = s THEN [in |-> in, out |-> out] ELSE window[t]]
  BY <1>2
<1>4. /\ s \notin DOMAIN window /\ mixed = <<>>
      /\ device' = device /\ preset' = preset /\ mixed' = mixed
  BY DEF ConvertChunk
<1>5. WholeLen(s) + MaxExtra \in Nat
  <2>1. device[s] \in FormatSet
    BY Formats DEF MixInv
  <2>2. device[s].channels \in Nat
    BY <2>1 DEF FormatSet
  <2>3. ChunkFrames(device[s]) \in Nat
    BY <2>1, FramesOfChunk DEF FormatSet
  <2> QED  BY <2>2, <2>3, MixingAssumption DEF WholeLen
<1>6. in \in Seq(Values) /\ Len(in) = n
  BY <1>5
<1>7. \A t \in Sources : Target(t)' = Target(t) /\ WholeLen(t)' = WholeLen(t)
  BY <1>4 DEF Target, WholeLen
<1>8. IWindow'
  <2>1. DOMAIN window' = DOMAIN window \cup {s} /\ DOMAIN window \subseteq Sources
    BY <1>3 DEF MixInv, IWindow
  <2>2. ASSUME NEW t \in DOMAIN window'
        PROVE  /\ window'[t].in \in Seq(Values) /\ Len(window'[t].in) \in 1 .. WholeLen(t) + MaxExtra
               /\ window'[t].out \in Conversions(window'[t].in, device[t], Target(t))
    <3>1. CASE t = s
      BY <1>3, <1>6, <2>1, <3>1
    <3>2. CASE t # s
      <4>1. t \in DOMAIN window /\ window'[t] = window[t]
        BY <1>3, <2>1, <3>2
      <4> QED  BY <4>1 DEF MixInv, IWindow
    <3> QED  BY <3>1, <3>2
  <2> QED  BY <1>4, <1>7, <2>1, <2>2 DEF IWindow
<1>9. IMixed'
  <2>1. <<>> \in Seq(I16) /\ DOMAIN <<>> = {}
    OBVIOUS
  <2> QED  BY <1>4, <2>1 DEF IMixed
<1> QED  BY <1>4, <1>8, <1>9 DEF MixInv

LEMMA MergeChunksKeeps ==
  ASSUME MixInv, MergeChunks
  PROVE  MixInv'
<1>1. PICK first \in DOMAIN window : mixed' = [i \in DOMAIN window[first].out |-> Averaged(i)]
  BY DEF MergeChunks
<1>2. device' = device /\ preset' = preset /\ window' = window
  BY DEF MergeChunks
<1>3. IWindow'
  BY <1>2 DEF MixInv, IWindow, Target, WholeLen
<1>4. IMixed'
  <2> DEFINE n == Len(window[first].out)
             value(i) == Trunc(Total(Level(window, i), DOMAIN window), Cardinality(Sources))
  <2>1. window[first].out \in Seq(I16)
    BY ChunkOnLine
  <2>2. DOMAIN window[first].out = 1 .. n /\ n \in Nat
    BY <2>1
  <2>3. \A i \in 1 .. n : Averaged(i) = value(i) /\ Averaged(i) \in I16
    BY <2>2, AveragedIs
  <2> HIDE DEF n, value
  <2>4. mixed' \in [1 .. n -> I16] /\ \A i \in 1 .. n : mixed'[i] = value(i)
    BY <1>1, <2>2, <2>3
  <2>5. mixed' \in Seq(I16) /\ DOMAIN mixed' = 1 .. n
    BY <2>2, <2>4
  <2>6. \A i \in DOMAIN mixed' :
          mixed'[i] = Trunc(Total(Level(window', i), DOMAIN window'), Cardinality(Sources))
    BY <1>2, <2>4, <2>5 DEF value
  <2> QED  BY <2>5, <2>6 DEF IMixed
<1> QED  BY <1>2, <1>3, <1>4 DEF MixInv

\* The state of a merge window is consistent, for any sources, formats and chunk
\* duration: what is in the window came out of the conversion of its own chunk.
THEOREM MixInvariant == Spec => []MixInv
<1>1. Init => MixInv
  BY InitMix
<1>2. MixInv /\ [Next]_vars => MixInv'
  <2>1. SUFFICES ASSUME MixInv, [Next]_vars  PROVE MixInv'
    OBVIOUS
  <2>2. CASE MergeChunks
    BY <2>1, <2>2, MergeChunksKeeps
  <2>3. CASE \E s \in Sources : ConvertChunk(s)
    BY <2>1, <2>3, ConvertChunkKeeps
  <2>4. CASE UNCHANGED vars
    <3>1. device' = device /\ preset' = preset /\ window' = window /\ mixed' = mixed
      BY <2>4 DEF vars
    <3> QED  BY <2>1, <3>1 DEF MixInv, IWindow, IMixed, Target, WholeLen
  <2> QED  BY <2>1, <2>2, <2>3, <2>4 DEF Next
<1> QED  BY <1>1, <1>2, PTL DEF Spec
-----------------------------------------------------------------------------
\* The type invariant, for any sources, formats and chunk duration.
THEOREM TypeCorrect == Spec => []TypeOK
<1>1. MixInv => TypeOK
  <2>1. SUFFICES ASSUME MixInv  PROVE TypeOK
    OBVIOUS
  <2>2. \A s \in DOMAIN window : window[s].out \in Seq(I16)
    BY <2>1, ChunkOnLine
  <2> QED  BY <2>1, <2>2 DEF MixInv, IWindow, IMixed, TypeOK
<1> QED  BY <1>1, MixInvariant, PTL

\* A result of the mix is the average over all sources, those that are not in the
\* window, or not long enough, being silent: for any number of sources, in whatever
\* order they are added.
THEOREM AverageOfAll == Spec => []MixIsAverage
<1>1. MixInv => MixIsAverage
  <2>1. SUFFICES ASSUME MixInv, NEW i \in DOMAIN mixed
                 PROVE  LET sound == [s \in Sources |->
                              IF s \in DOMAIN window /\ i \in DOMAIN window[s].out THEN window[s].out[i] ELSE 0]
                        IN  mixed[i] = Trunc(FoldFunction(+, 0, sound), Cardinality(Sources))
    BY DEF MixIsAverage
  <2> DEFINE present(s) == s \in DOMAIN window /\ i \in DOMAIN window[s].out
             sound == [s \in Sources |-> IF present(s) THEN window[s].out[i] ELSE 0]
             P == DOMAIN window
             f == Level(window, i)
  <2>2. P \in SUBSET Sources /\ i \in Nat /\ 1 <= i
    <3>1. mixed \in Seq(I16) /\ DOMAIN window \subseteq Sources
      BY <2>1 DEF MixInv, IWindow, IMixed
    <3> QED  BY <2>1, <3>1
  <2>3. \A s \in P : /\ window[s].out \in Seq(I16)
                     /\ (present(s) <=> i <= Len(window[s].out))
                     /\ (present(s) => window[s].out[i] \in I16)
    <3>1. \A s \in P : window[s].out \in Seq(I16)
      BY <2>1, ChunkOnLine
    <3> QED  BY <2>2, <3>1
  <2>4. f = [s \in P |-> IF i <= Len(window[s].out) THEN window[s].out[i] ELSE 0]
    BY DEF Level
  <2>5. sound \in [Sources -> I16]
    <3>1. 0 \in I16
      BY Sixteen
    <3>2. ASSUME NEW s \in Sources
          PROVE  (IF present(s) THEN window[s].out[i] ELSE 0) \in I16
      BY <2>3, <3>1
    <3> QED  BY <3>2
  <2>6. (\A s \in P : sound[s] = f[s]) /\ (\A s \in Sources \ P : sound[s] = 0)
    <3> HIDE DEF f
    <3> QED  BY <2>2, <2>3, <2>4
  <2> HIDE DEF sound
  <2>7. FoldFunction(+, 0, sound) = FoldFunctionOnSet(+, 0, sound, Sources)
    <3>1. DOMAIN sound = Sources
      BY <2>5
    <3> QED  BY <3>1 DEF FoldFunction
  <2>8. FoldFunctionOnSet(+, 0, sound, Sources) = Total(sound, Sources)
    BY <2>5, Many, SumOf
  <2> HIDE DEF f, P
  <2>9. Total(sound, Sources) = Total(f, P)
    BY <2>2, <2>6, Many, SilenceAddsNothing
  <2>10. mixed[i] = Trunc(Total(f, P), Cardinality(Sources))
    BY <2>1 DEF MixInv, IMixed, f, P
  <2>11. mixed[i] = Trunc(FoldFunction(+, 0, sound), Cardinality(Sources))
    BY <2>7, <2>8, <2>9, <2>10
  <2> QED  BY <2>11 DEF sound
<1> QED  BY <1>1, MixInvariant, PTL

-----------------------------------------------------------------------------
\* Two frames of a doubled sound, one or two samples each, weighed by their
\* distance: if out is within a unit of the line between two samples, each within
\* half a unit of its frame, then it is within one and a half of the line between
\* the frames.
LEMMA Weighed ==
  ASSUME NEW o \in Int, NEW m1 \in Int, NEW m2 \in Int, NEW s1 \in Int, NEW s2 \in Int,
         NEW to \in Nat, NEW frac \in 0 .. to,
         Near(o * to - (m1 * (to - frac) + m2 * frac), to),
         Near(2 * m1 - s1, 1), Near(2 * m2 - s2, 1)
  PROVE  o * 2 * to - (s1 * (to - frac) + s2 * frac) \in -3 * to .. 3 * to
<1> DEFINE rest == to - frac
           d1 == 2 * m1 - s1
           d2 == 2 * m2 - s2
<1>1. /\ rest \in Nat /\ frac \in Nat /\ to = rest + frac
      /\ d1 \in Int /\ -1 <= d1 /\ d1 <= 1 /\ s1 = 2 * m1 - d1
      /\ d2 \in Int /\ -1 <= d2 /\ d2 <= 1 /\ s2 = 2 * m2 - d2
  BY DEF Near
<1> HIDE DEF rest, d1, d2
<1>2. ASSUME NEW d \in Int, -1 <= d, d <= 1, NEW c \in Nat
      PROVE  d * c \in Int /\ -c <= d * c /\ d * c <= c
  <2>1. d = -1 \/ d = 0 \/ d = 1
    BY <1>2
  <2> QED  BY <2>1
<1> DEFINE dr == d1 * rest
           df == d2 * frac
           mr == m1 * rest
           mf == m2 * frac
           ot == o * to
<1>3. dr \in Int /\ -rest <= dr /\ dr <= rest
  BY <1>1, <1>2
<1>4. df \in Int /\ -frac <= df /\ df <= frac
  BY <1>1, <1>2
<1>5. s1 * rest = 2 * mr - dr /\ mr \in Int
  <2>1. (2 * m1 - d1) * rest = 2 * (m1 * rest) - d1 * rest
    BY <1>1
  <2> QED  BY <1>1, <2>1
<1>6. s2 * frac = 2 * mf - df /\ mf \in Int
  <2>1. (2 * m2 - d2) * frac = 2 * (m2 * frac) - d2 * frac
    BY <1>1
  <2> QED  BY <1>1, <2>1
<1>7. o * 2 * to = 2 * ot /\ ot \in Int
  OBVIOUS
<1>8. Near(ot - (mr + mf), to)
  BY DEF rest
<1> HIDE DEF dr, df, mr, mf, ot
<1>9. 2 * ot - ((2 * mr - dr) + (2 * mf - df)) \in -3 * to .. 3 * to
  BY <1>1, <1>3, <1>4, <1>5, <1>6, <1>7, <1>8 DEF Near
<1> QED  BY <1>5, <1>6, <1>7, <1>9 DEF rest

\* The mean of two samples, doubled, is within one of their sum.
LEMMA MeanNear ==
  ASSUME NEW a \in I16, NEW b \in I16
  PROVE  Near(2 * Trunc(a + b, 2) - (a + b), 1)
<1> DEFINE n == a + b
           d == 2
           t == Trunc(n, d)
<1>1. n \in Int /\ d \in Nat /\ d > 0
  BY Sixteen
<1> HIDE DEF n, d
<1>2. t \in Int /\ t * d - n \in 1 - d .. d - 1
  BY <1>1, Truncates
<1> HIDE DEF t
<1>3. Near(2 * t - n, 1)
  BY <1>1, <1>2 DEF Near, d
<1> QED  BY <1>3 DEF t, n, d

\* The sample of a channel that stands for a frame, held after the last one, and
\* the doubled sound of the device there.
LEMMA SoundOfFrame ==
  ASSUME MixInv, NEW s \in DOMAIN window, NEW c \in 1 .. Target(s).channels, NEW i \in Nat,
         FramesIn(window[s].in, device[s].channels) # 0
  PROVE  LET frames == FramesIn(window[s].in, device[s].channels)
             data   == Rechannelled(window[s].in, device[s].channels, Target(s).channels)
             held   == IF i < frames - 1 THEN i ELSE frames - 1
         IN  /\ Sound(s, c, i) \in Int
             /\ Near(2 * ChannelOf(data, Target(s).channels, c)[held + 1] - Sound(s, c, i), 1)
<1> DEFINE in     == window[s].in
           native == device[s].channels
           chans  == Target(s).channels
           frames == FramesIn(in, native)
           data   == Rechannelled(in, native, chans)
           held   == IF i < frames - 1 THEN i ELSE frames - 1
           m      == ChannelOf(data, chans, c)[held + 1]
<1>1. in \in Seq(I16) /\ native \in {1, 2} /\ chans \in {1, 2}
  BY ChunkOnLine DEF FormatSet
<1>2. frames \in Nat /\ native * frames <= Len(in)
  <2>1. 1 \in 1 .. native
    BY <1>1
  <2> HIDE DEF in, native
  <2> QED  BY <1>1, <2>1, ChannelType
<1>3. Sound(s, c, i) = IF native = 1 THEN 2 * in[native * held + 1]
                       ELSE IF chans = 1 THEN in[native * held + 1] + in[native * held + 2]
                       ELSE 2 * in[native * held + c]
  BY DEF Sound
<1>4. \A k \in 1 .. frames :
        ChannelOf(data, chans, c)[k] =
          IF native = 1 THEN in[k]
          ELSE IF chans = 1 THEN Trunc(in[2 * k - 1] + in[2 * k], 2)
          ELSE in[2 * (k - 1) + c]
  <2>1. c \in 1 .. chans
    OBVIOUS
  <2> HIDE DEF in, native, chans
  <2> QED  BY <1>1, <2>1, RechannelledOf
<1>5. frames # 0 /\ c \in 1 .. chans
  OBVIOUS
<1> HIDE DEF in, native, chans, frames, data
<1>6. held \in Nat /\ held + 1 \in 1 .. frames
  BY <1>2, <1>5
<1> HIDE DEF held
<1>7. m = IF native = 1 THEN in[held + 1]
          ELSE IF chans = 1 THEN Trunc(in[2 * held + 1] + in[2 * held + 2], 2)
          ELSE in[2 * held + c]
  <2>1. 2 * (held + 1) - 1 = 2 * held + 1 /\ 2 * (held + 1) = 2 * held + 2 /\ held + 1 - 1 = held
    BY <1>6
  <2> QED  BY <1>4, <1>6, <2>1
<1>8. CASE native = 1
  <2>1. in[held + 1] \in Int
    <3>1. in[held + 1] \in I16
      BY <1>1, <1>2, <1>6, <1>8
    <3> QED  BY <3>1, Sixteen
  <2>2. Sound(s, c, i) = 2 * in[held + 1] /\ m = in[held + 1]
    <3>1. 1 * held + 1 = held + 1
      BY <1>6
    <3> QED  BY <1>3, <1>7, <1>8, <3>1
  <2>3. Sound(s, c, i) \in Int /\ Near(2 * m - Sound(s, c, i), 1)
    <3> DEFINE v == in[held + 1]
    <3> HIDE DEF v, m
    <3> QED  BY <2>1, <2>2 DEF Near, v
  <2> QED  BY <2>3 DEF m, data, held, frames, chans, native, in
<1>9. CASE native = 2 /\ chans = 1
  <2> DEFINE a == in[2 * held + 1]
             b == in[2 * held + 2]
  <2>1. a \in I16 /\ b \in I16
    BY <1>1, <1>2, <1>6, <1>9
  <2>2. Sound(s, c, i) = a + b /\ m = Trunc(a + b, 2)
    BY <1>3, <1>7, <1>9
  <2> HIDE DEF a, b, m
  <2>3. Near(2 * Trunc(a + b, 2) - (a + b), 1) /\ a + b \in Int
    BY <2>1, MeanNear, Sixteen
  <2>4. Sound(s, c, i) \in Int /\ Near(2 * m - Sound(s, c, i), 1)
    BY <2>2, <2>3
  <2> QED  BY <2>4 DEF m, data, held, frames, chans, native, in
<1>10. CASE native = 2 /\ chans = 2
  <2> DEFINE v == in[2 * held + c]
  <2>1. v \in I16
    BY <1>1, <1>2, <1>5, <1>6, <1>10
  <2>2. Sound(s, c, i) = 2 * v /\ m = v
    BY <1>3, <1>7, <1>10
  <2> HIDE DEF v, m
  <2>3. Sound(s, c, i) \in Int /\ Near(2 * m - Sound(s, c, i), 1)
    BY <2>1, <2>2, Sixteen DEF Near
  <2> QED  BY <2>3 DEF m, data, held, frames, chans, native, in
<1> QED  BY <1>1, <1>8, <1>9, <1>10
\* Each converted frame is within one and a half units of the line between the two
\* frames around its time, for any rates, channels and length of the chunk.
THEOREM SoundIsKept == Spec => []ConvertedSound
<1>1. ASSUME MixInv, NEW s \in DOMAIN window, NEW j \in 1 .. FramesOut(s),
             NEW c \in 1 .. Target(s).channels
      PROVE  LET rate  == Target(s).rate
                 idx   == ((j - 1) * device[s].rate) \div rate
                 frac  == ((j - 1) * device[s].rate) % rate
                 exact == Sound(s, c, idx) * (rate - frac) + Sound(s, c, idx + 1) * frac
             IN  window[s].out[Target(s).channels * (j - 1) + c] * 2 * rate - exact \in -3 * rate .. 3 * rate
  <2> DEFINE in     == window[s].in
             out    == window[s].out
             native == device[s].channels
             chans  == Target(s).channels
             from   == device[s].rate
             rate   == Target(s).rate
             data   == Rechannelled(in, native, chans)
             mono   == ChannelOf(data, chans, c)
             line   == ChannelOf(out, chans, c)
             frames == FramesIn(in, native)
             idx    == ((j - 1) * from) \div rate
             frac   == ((j - 1) * from) % rate
             held(i) == IF i < frames - 1 THEN i ELSE frames - 1
  <2>1. /\ in \in Seq(I16) /\ out \in Seq(I16) /\ native \in {1, 2} /\ chans \in {1, 2}
        /\ from \in Nat \ {0} /\ rate \in Nat \ {0} /\ c \in 1 .. chans
    BY <1>1, ChunkOnLine DEF FormatSet
  <2>2. OnLine(mono, line, from, rate)
    BY <1>1, ChunkOnLine
  <2>3. /\ Len(line) = FramesOut(s) /\ FramesOut(s) \in Nat
        /\ line[j] = out[chans * (j - 1) + c] /\ line \in Seq(I16)
    <3>1. FramesOut(s) = FramesIn(out, chans)
      BY DEF FramesOut
    <3> HIDE DEF out, chans
    <3>2. /\ FramesIn(out, chans) \in Nat /\ Len(line) = FramesIn(out, chans) /\ line \in Seq(I16)
          /\ \A i \in 1 .. FramesIn(out, chans) : line[i] = out[chans * (i - 1) + c]
      BY <2>1, ChannelType
    <3> HIDE DEF line
    <3> QED  BY <3>1, <3>2
  <2>4. frames \in Nat /\ mono \in Seq(I16) /\ Len(mono) = frames
    <3> HIDE DEF in, native, chans, frames
    <3>1. data \in Seq(I16) /\ FramesIn(data, chans) = FramesIn(in, native)
      BY <2>1, RechannelledOf
    <3> HIDE DEF data
    <3> QED  BY <2>1, <3>1, ChannelType DEF frames
  <2>5. j - 1 \in Nat /\ j \in 1 .. Len(line)
    BY <2>3
  <2>6. idx \in Nat /\ frac \in 0 .. rate - 1
    <3> DEFINE k == j - 1
    <3>1. k \in Nat /\ from \in Nat
      BY <2>1, <2>5
    <3> HIDE DEF k, from, rate
    <3>2. (k * from) \div rate \in Nat /\ (k * from) % rate \in 0 .. rate - 1
      BY <2>1, <3>1, Position
    <3> QED  BY <3>2 DEF k
  <2>7. mono # <<>> /\ frames # 0
    <3> HIDE DEF mono, line, frames
    <3>1. line # <<>>
      BY <2>3, <2>5
    <3> QED  BY <2>2, <2>4, <3>1 DEF OnLine
  <2>8. \A i \in Nat : /\ Sound(s, c, i) \in Int
                       /\ Near(2 * mono[held(i) + 1] - Sound(s, c, i), 1)
    BY <1>1, <2>7, SoundOfFrame
  <2> HIDE DEF frames
  <2>9. \A i \in Nat : held(i) + 1 \in 1 .. frames
    BY <2>4, <2>7
  <2> DEFINE m1 == mono[held(idx) + 1]
             m2 == mono[held(idx + 1) + 1]
             s1 == Sound(s, c, idx)
             s2 == Sound(s, c, idx + 1)
             o  == line[j]
             value == Interpolated(mono, j - 1, from, rate)
  <2>10. idx + 1 \in Nat
    BY <2>6
  <2>11. m1 \in Int /\ m2 \in Int /\ o \in Int
    <3> HIDE DEF mono, line, idx, held
    <3>1. held(idx) + 1 \in 1 .. Len(mono) /\ held(idx + 1) + 1 \in 1 .. Len(mono)
      BY <2>4, <2>6, <2>9, <2>10
    <3>2. \A k \in 1 .. Len(mono) : mono[k] \in I16
      BY <2>4
    <3>3. o \in I16
      BY <2>3, <2>5
    <3>4. m1 \in I16 /\ m2 \in I16
      BY <3>1, <3>2
    <3> HIDE DEF m1, m2, o
    <3> QED  BY <3>3, <3>4, Sixteen
  <2>12. /\ s1 \in Int /\ Near(2 * m1 - s1, 1)
         /\ s2 \in Int /\ Near(2 * m2 - s2, 1)
    <3> HIDE DEF mono, idx, held
    <3> QED  BY <2>6, <2>8, <2>10
  <2>13. value = IF idx + 1 < Len(mono) THEN mono[idx + 1] * (rate - frac) + mono[idx + 2] * frac
                                        ELSE mono[Len(mono)] * rate
    <3> DEFINE k == j - 1
    <3>1. k \in Nat /\ from \in Nat
      BY <2>1, <2>5
    <3> HIDE DEF mono, from, rate, k
    <3>2. Interpolated(mono, k, from, rate) =
            IF (k * from) \div rate + 1 < Len(mono)
              THEN mono[(k * from) \div rate + 1] * (rate - ((k * from) % rate))
                     + mono[(k * from) \div rate + 2] * ((k * from) % rate)
              ELSE mono[Len(mono)] * rate
      BY <2>1, <2>4, <2>7, <3>1, InterpolatedType
    <3> QED  BY <3>2 DEF k
  <2>14. Near(o * rate - value, rate)
    <3> HIDE DEF mono, line, from, rate
    <3> QED  BY <2>2, <2>5 DEF OnLine
  <2> HIDE DEF value, mono, line, idx, frac, rate
  <2>15. value = m1 * (rate - frac) + m2 * frac
    <3>1. CASE idx + 1 < frames
      <4>1. held(idx) = idx /\ held(idx + 1) = idx + 1 /\ idx + 1 + 1 = idx + 2
        BY <2>4, <2>6, <3>1
      <4> HIDE DEF held
      <4> QED  BY <2>4, <2>13, <3>1, <4>1
    <3>2. CASE ~(idx + 1 < frames)
      <4>1. held(idx) + 1 = frames /\ held(idx + 1) + 1 = frames
        BY <2>4, <2>6, <3>2
      <4> HIDE DEF held
      <4>2. m1 = mono[frames] /\ m2 = mono[frames] /\ value = mono[frames] * rate
        BY <2>4, <2>13, <3>2, <4>1
      <4> DEFINE m == mono[frames]
                 rest == rate - frac
      <4>3. m \in Int /\ rest \in Int /\ frac \in Int /\ rate = rest + frac
        BY <2>1, <2>6, <2>11, <4>2
      <4> HIDE DEF m, rest
      <4>4. m * (rest + frac) = m * rest + m * frac
        BY <4>3
      <4>5. value = m * rest + m * frac
        BY <4>2, <4>3, <4>4 DEF m
      <4> QED  BY <4>2, <4>5 DEF m, rest
    <3> QED  BY <3>1, <3>2
  <2> HIDE DEF m1, m2, s1, s2, o, held
  <2>16. o * 2 * rate - (s1 * (rate - frac) + s2 * frac) \in -3 * rate .. 3 * rate
    <3>1. rate \in Nat /\ frac \in 0 .. rate
      BY <2>1, <2>6
    <3>2. Near(o * rate - (m1 * (rate - frac) + m2 * frac), rate)
      BY <2>14, <2>15
    <3> QED  BY <2>11, <2>12, <3>1, <3>2, Weighed
  <2>17. o = out[chans * (j - 1) + c]
    BY <2>3 DEF o
  <2> QED  BY <2>16, <2>17 DEF s1, s2, idx, frac, rate
<1>2. MixInv => ConvertedSound
  BY <1>1 DEF ConvertedSound
<1> QED  BY <1>2, MixInvariant, PTL

-----------------------------------------------------------------------------
\* f is the number of frames at rate a that make a chunk of the duration d1 / d2,
\* and l what a conversion to rate t makes of it.
HasLength(l, f, a, t, d1, d2) == a * d1 - d2 * f \in 0 .. d2 /\ l * a - f * t \in 0 .. a

\* The frames of a whole chunk after conversion, times the duration's denominator,
\* are the frames in the duration at the target rate, but for at most a frame too
\* few or too many, and for less than one too few unless the chunk is one short and
\* the rate the same; the device is at least as fast.
LEMMA LengthWithin ==
  ASSUME NEW a \in Nat \ {0}, NEW t \in Nat, t <= a, NEW d1 \in Nat, NEW d2 \in Nat \ {0},
         NEW l \in Nat, NEW f \in Nat, HasLength(l, f, a, t, d1, d2)
  PROVE  /\ l * d2 - t * d1 \in -d2 .. d2
         /\ l * d2 - t * d1 = -d2 => a = t /\ a * d1 - d2 * f = d2
<1> DEFINE r   == a * d1 - d2 * f
           e   == l * a - f * t
           la  == l * a
           ft  == f * t
           ad1 == a * d1
           fd2 == f * d2
           p   == l * d2
           q   == t * d1
           tr  == t * r
           ed2 == e * d2
           gap == p - q
<1>1. /\ r \in 0 .. d2 /\ d2 * f + r = a * d1
      /\ e \in 0 .. a /\ l * a - f * t = e
  BY DEF HasLength
<1> HIDE DEF r, e
<1>2. la \in Int /\ ft \in Int /\ la = ft + e
  BY <1>1
<1>3. fd2 = ad1 - r
  <2>1. d2 * f = f * d2 /\ f * d2 \in Int /\ a * d1 \in Int
    OBVIOUS
  <2> QED  BY <1>1, <2>1
<1>4. p \in Int /\ q \in Int /\ tr \in Int /\ ed2 \in Int
  BY <1>1
<1>5. p * a = q * a - tr + ed2
  <2>1. p * a = la * d2
    OBVIOUS
  <2>2. la * d2 = ft * d2 + ed2
    <3> HIDE DEF la, ft
    <3> QED  BY <1>1, <1>2
  <2>3. ft * d2 = t * fd2
    OBVIOUS
  <2>4. t * fd2 = t * ad1 - tr
    <3>1. ad1 \in Int /\ fd2 \in Int
      OBVIOUS
    <3> HIDE DEF ad1, fd2
    <3> QED  BY <1>1, <1>3, <3>1
  <2>5. t * ad1 = q * a
    OBVIOUS
  <2> DEFINE x1 == p * a
             x2 == la * d2
             x3 == ft * d2
             x4 == t * fd2
             x5 == t * ad1
             x6 == q * a
  <2>6. x1 = x2 /\ x2 = x3 + ed2 /\ x3 = x4 /\ x4 = x5 - tr /\ x5 = x6
    BY <2>1, <2>2, <2>3, <2>4, <2>5
  <2>7. x1 \in Int /\ x5 \in Int /\ x6 \in Int /\ x3 \in Int
    OBVIOUS
  <2> HIDE DEF x1, x2, x3, x4, x5, x6, tr, ed2, p, q
  <2>8. x1 = x6 - tr + ed2
    BY <1>4, <2>6, <2>7
  <2> QED  BY <2>8 DEF x1, x6
<1>6. gap \in Int /\ gap * a = ed2 - tr
  <2>1. (p - q) * a = p * a - q * a /\ p * a \in Int /\ q * a \in Int
    <3> HIDE DEF p, q
    <3> QED  BY <1>4
  <2> DEFINE pa == p * a
             qa == q * a
  <2>2. (p - q) * a = pa - qa /\ pa \in Int /\ qa \in Int /\ pa = qa - tr + ed2
    BY <1>5, <2>1
  <2> HIDE DEF p, q, pa, qa, tr, ed2
  <2>3. (p - q) * a = ed2 - tr
    BY <1>4, <2>2
  <2> QED  BY <1>4, <2>3
<1>7. 0 <= ed2 /\ ed2 <= d2 * a
  <2>1. e * d2 <= a * d2 /\ 0 * d2 <= e * d2
    BY <1>1, Grows
  <2>2. a * d2 = d2 * a /\ 0 * d2 = 0
    OBVIOUS
  <2> QED  BY <2>1, <2>2
<1>8. 0 <= tr /\ tr <= d2 * a /\ (tr = d2 * a => a = t /\ r = d2)
  <2>1. r \in Nat /\ r <= d2
    BY <1>1
  <2>2. 0 <= tr /\ tr <= t * d2
    <3>1. r * t <= d2 * t /\ 0 * t <= r * t
      BY <2>1, Grows
    <3>2. tr = r * t /\ t * d2 = d2 * t /\ 0 * t = 0
      BY <2>1
    <3> QED  BY <3>1, <3>2
  <2>3. t * d2 <= a * d2 /\ t * d2 \in Int /\ a * d2 \in Int
    BY Grows
  <2>4. t # a => t * d2 < a * d2
    <3> SUFFICES ASSUME t # a  PROVE t * d2 < a * d2
      OBVIOUS
    <3>1. (t + 1) * d2 <= a * d2 /\ (t + 1) * d2 = t * d2 + d2
      BY Grows
    <3> QED  BY <2>3, <3>1
  <2>5. t = a /\ r # d2 => tr < a * d2
    <3> SUFFICES ASSUME t = a, r # d2  PROVE tr < a * d2
      OBVIOUS
    <3>1. (r + 1) * t <= d2 * t
      BY <2>1, Grows
    <3>2. tr = r * t /\ d2 * t = a * d2 /\ (r + 1) * t = r * t + t /\ r * t \in Int
      BY <2>1
    <3> DEFINE rt == r * t
               ad == a * d2
    <3>3. tr = rt /\ rt + t <= ad /\ rt \in Int /\ ad \in Int
      BY <2>3, <3>1, <3>2
    <3> HIDE DEF rt, ad, tr
    <3>4. tr < ad
      BY <3>3
    <3> QED  BY <3>4 DEF ad
  <2> DEFINE ad == a * d2
             td == t * d2
  <2>6. /\ 0 <= tr /\ tr <= td /\ td <= ad /\ td \in Int /\ ad \in Int /\ d2 * a = ad
        /\ (t # a => td < ad) /\ (t = a /\ r # d2 => tr < ad)
    BY <2>2, <2>3, <2>4, <2>5
  <2> HIDE DEF ad, td, tr
  <2> QED  BY <1>4, <2>6
<1>9. gap <= d2
  <2>1. gap * a <= d2 * a
    <3> DEFINE da == d2 * a
               ga == gap * a
    <3>1. da \in Int /\ ga = ed2 - tr /\ ed2 <= da /\ 0 <= tr
      BY <1>6, <1>7, <1>8
    <3> HIDE DEF da, ga, ed2, tr
    <3>2. ga <= da
      BY <1>4, <3>1
    <3> QED  BY <3>2 DEF ga, da
  <2> HIDE DEF gap
  <2> QED  BY <1>6, <2>1, Shrinks
<1>10. -d2 <= gap /\ (gap = -d2 => a = t /\ r = d2)
  <2> DEFINE da == d2 * a
             ga == gap * a
  <2>1. da \in Int /\ ga = ed2 - tr /\ 0 <= ed2 /\ tr <= da /\ (tr = da => a = t /\ r = d2)
    BY <1>6, <1>7, <1>8
  <2>2. (-d2) * a = -da
    OBVIOUS
  <2> HIDE DEF da, ga, ed2, tr
  <2>3. -da <= ga /\ (ga = -da => a = t /\ r = d2)
    BY <1>4, <2>1
  <2>4. -d2 <= gap
    <3>1. (-d2) * a <= gap * a /\ -d2 \in Int
      BY <2>2, <2>3 DEF ga
    <3> HIDE DEF gap
    <3> QED  BY <1>6, <3>1, Shrinks
  <2>5. gap = -d2 => ga = -da
    BY <2>2 DEF ga
  <2> QED  BY <2>3, <2>4, <2>5
<1> HIDE DEF gap
<1>11. gap \in -d2 .. d2
  BY <1>6, <1>9, <1>10
<1> QED  BY <1>10, <1>11 DEF gap, r

\* The length of a whole, shortened chunk.
LEMMA ShortenedLength ==
  ASSUME MixInv, NEW s \in DOMAIN window, Shortened(s)
  PROVE  /\ FramesOut(s) \in Nat /\ Target(s).rate \in Nat
         /\ LET gap == FramesOut(s) * Duration[2] - Target(s).rate * Duration[1]
            IN  gap \in -Duration[2] .. Duration[2] /\ (gap = -Duration[2] => ComesOutShort(Target(s)))
<1> DEFINE in     == window[s].in
           out    == window[s].out
           native == device[s].channels
           chans  == Target(s).channels
           a      == device[s].rate
           t      == Target(s).rate
           data   == Rechannelled(in, native, chans)
           mono   == ChannelOf(data, chans, 1)
           line   == ChannelOf(out, chans, 1)
           f      == FramesIn(in, native)
           l      == FramesOut(s)
           d1     == Duration[1]
           d2     == Duration[2]
<1>1. /\ in \in Seq(I16) /\ out \in Seq(I16) /\ native \in {1, 2} /\ chans \in {1, 2}
      /\ a \in Nat \ {0} /\ t \in Nat \ {0} /\ 1 \in 1 .. chans
  BY ChunkOnLine DEF FormatSet
<1>2. d1 \in Nat /\ d2 \in Nat \ {0}
  BY MixingAssumption
<1>3. OnLine(mono, line, a, t)
  BY <1>1, ChunkOnLine
<1>4. Len(line) = l /\ l \in Nat /\ line \in Seq(I16)
  <2>1. l = FramesIn(out, chans)
    BY DEF FramesOut
  <2> HIDE DEF out, chans, l
  <2> QED  BY <1>1, <2>1, ChannelType
<1>5. f \in Nat /\ mono \in Seq(I16) /\ Len(mono) = f
  <2> HIDE DEF in, native, chans, f
  <2>1. data \in Seq(I16) /\ FramesIn(data, chans) = FramesIn(in, native)
    BY <1>1, RechannelledOf
  <2> HIDE DEF data
  <2> QED  BY <1>1, <2>1, ChannelType DEF f
<1>6. t <= a
  BY DEF Shortened
<1>7. f = ChunkFrames(device[s])
  <2> DEFINE k == ChunkFrames(device[s])
  <2>1. k \in Nat
    BY ChunkOnLine, FramesOfChunk
  <2>2. Len(in) = k * native
    BY DEF Shortened, IsWhole, WholeLen
  <2>3. f = Len(in) \div native
    BY DEF FramesIn
  <2> HIDE DEF k, f, in, native
  <2>4. CASE native = 1
    BY <2>1, <2>2, <2>3, <2>4 DEF k
  <2>5. CASE native = 2
    BY <2>1, <2>2, <2>3, <2>5 DEF k
  <2> QED  BY <1>1, <2>4, <2>5
<1>8. /\ a * d1 - d2 * f \in 0 .. d2
      /\ a * d1 - d2 * f = d2 /\ a = t => ComesOutShort(Target(s))
  <2>1. /\ a * d1 - d2 * f \in 0 .. d2
        /\ a * d1 - d2 * f = d2 => ComesOutShort(device[s])
    BY <1>7, ChunkOnLine, FramesOfChunk
  <2>2. ComesOutShort(device[s]) /\ a = t => ComesOutShort(Target(s))
    BY DEF ComesOutShort
  <2> HIDE DEF f
  <2> QED  BY <2>1, <2>2
<1> HIDE DEF in, out, native, chans, a, t, data, mono, line, f, l, d1, d2
<1>9. l * a - f * t \in 0 .. a
  <2>1. CASE mono = <<>>
    <3>1. f = 0 /\ l = 0
      BY <1>3, <1>4, <1>5, <2>1 DEF OnLine
    <3>2. 0 * a - 0 * t = 0 /\ 0 \in 0 .. a
      BY <1>1
    <3> QED  BY <3>1, <3>2
  <2>2. CASE mono # <<>>
    <3>1. l = ResampledLen(f, a, t)
      BY <1>3, <1>4, <1>5, <2>2 DEF OnLine
    <3>2. l * a - f * t \in 0 .. a
      BY <1>1, <1>5, <3>1, Resampled
    <3> QED  BY <3>2
  <2> QED  BY <2>1, <2>2
<1>10. /\ l * d2 - t * d1 \in -d2 .. d2
       /\ l * d2 - t * d1 = -d2 => ComesOutShort(Target(s))
  <2>1. t \in Nat /\ HasLength(l, f, a, t, d1, d2)
    BY <1>1, <1>8, <1>9 DEF HasLength
  <2>2. /\ l * d2 - t * d1 \in -d2 .. d2
        /\ l * d2 - t * d1 = -d2 => a = t /\ a * d1 - d2 * f = d2
    BY <1>1, <1>2, <1>4, <1>5, <1>6, <2>1, LengthWithin
  <2> QED  BY <1>8, <2>2
<1> QED  BY <1>1, <1>4, <1>10 DEF l, t, d1, d2

\* With a fixed preset, whole chunks of devices at least as fast as it differ by no
\* more than a frame after conversion, or two if the preset's own rate is one at
\* which a chunk comes out short: for any rates, any duration, and wherever f64
\* arithmetic misses a whole number.
THEOREM WholeChunksAgree == Spec => []LengthsAgree
<1>1. ASSUME MixInv, NEW s \in DOMAIN window, NEW u \in DOMAIN window, Shortened(s), Shortened(u)
      PROVE  FramesOut(s) - FramesOut(u) \in
               (IF ComesOutShort(Target(s)) THEN -2 ELSE -1) .. (IF ComesOutShort(Target(s)) THEN 2 ELSE 1)
  <2> DEFINE l == FramesOut(s)
             k == FramesOut(u)
             d == Duration[2]
             q == Target(s).rate * Duration[1]
             short == ComesOutShort(Target(s))
  <2>1. Target(u) = Target(s)
    BY <1>1 DEF Shortened, Target
  <2>2. d \in Nat /\ d > 0 /\ Duration[1] \in Nat
    BY MixingAssumption
  <2>3. /\ l \in Nat /\ l * d - q \in -d .. d /\ (l * d - q = -d => short) /\ q \in Int
        /\ k \in Nat /\ k * d - q \in -d .. d /\ (k * d - q = -d => short)
    BY <1>1, <2>1, <2>2, ShortenedLength
  <2> HIDE DEF l, k, d, q, short
  <2>4. ASSUME NEW m \in Nat, NEW n \in Nat,
               m * d - q \in -d .. d, n * d - q \in -d .. d, n * d - q = -d => short
        PROVE  m <= n + 2 /\ (m = n + 2 => short)
    <3> DEFINE md == m * d
               nd == n * d
    <3>1. md \in Int /\ nd \in Int /\ md - q \in -d .. d /\ nd - q \in -d .. d /\ (nd - q = -d => short)
      BY <2>2, <2>4
    <3>2. ~(n + 3 <= m)
      <4> SUFFICES ASSUME n + 3 <= m  PROVE FALSE
        OBVIOUS
      <4>1. (n + 3) * d <= m * d /\ (n + 3) * d = n * d + 3 * d
        BY <2>2, Grows
      <4>2. nd + 3 * d <= md
        BY <4>1
      <4> HIDE DEF md, nd
      <4> QED  BY <2>2, <2>3, <3>1, <4>2
    <3>3. m = n + 2 => short
      <4> SUFFICES ASSUME m = n + 2  PROVE short
        OBVIOUS
      <4>1. (n + 2) * d = n * d + 2 * d
        BY <2>2
      <4>2. md = nd + 2 * d
        BY <4>1
      <4> HIDE DEF md, nd
      <4>3. nd - q = -d
        BY <2>2, <2>3, <3>1, <4>2
      <4> QED  BY <3>1, <4>3
    <3> QED  BY <3>2, <3>3
  <2>5. l <= k + 2 /\ (l = k + 2 => short) /\ k <= l + 2 /\ (k = l + 2 => short)
    BY <2>3, <2>4
  <2>6. CASE short
    <3>1. l - k \in -2 .. 2
      BY <2>3, <2>5
    <3> QED  BY <2>6, <3>1 DEF l, k, short
  <2>7. CASE ~short
    <3>1. l - k \in -1 .. 1
      BY <2>3, <2>5, <2>7
    <3> QED  BY <2>7, <3>1 DEF l, k, short
  <2> QED  BY <2>6, <2>7
<1>2. MixInv => LengthsAgree
  <2> SUFFICES ASSUME MixInv, NEW s \in DOMAIN window, NEW u \in DOMAIN window, Shortened(s), Shortened(u)
               PROVE  LET slack == IF ComesOutShort(Target(s)) THEN 2 ELSE 1
                      IN  FramesOut(s) - FramesOut(u) \in -slack .. slack
    BY DEF LengthsAgree
  <2>1. CASE ComesOutShort(Target(s))
    BY <1>1, <2>1
  <2>2. CASE ~ComesOutShort(Target(s))
    BY <1>1, <2>2
  <2> QED  BY <2>1, <2>2
<1> QED  BY <1>2, MixInvariant, PTL
=============================================================================
