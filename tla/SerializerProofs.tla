-------------------------- MODULE SerializerProofs --------------------------
(***************************************************************************)
(* Whatever the arguments, a server reads from a begin what the caller     *)
(* passed, and from every time that passes the check, in a zone of whole   *)
(* minutes, the microsecond it was.  The invariant says where each request *)
(* came from; the rest is what MessagesProofs says of the bodies and the   *)
(* arithmetic of to_iso_8601.                                              *)
(***************************************************************************)
EXTENDS Serializer, MessagesProofs

-----------------------------------------------------------------------------
(* What to_iso_8601 prints, for every length of a minute and a second,     *)
(* every zone and every time: arithmetic.                                  *)

LEMMA DivMod ==
    ASSUME NEW a \in Int, NEW b \in Nat, b > 0
    PROVE  /\ a \div b \in Int
           /\ a % b \in 0 .. b - 1
           /\ a = b * (a \div b) + (a % b)
  BY SMTT(30)

LEMMA QuotientUnique ==
    ASSUME NEW a \in Int, NEW b \in Nat, b > 0,
           NEW q \in Int, NEW r \in 0 .. b - 1, a = b * q + r
    PROVE  a \div b = q
  BY DivMod, SMTT(30)

LEMMA RemainderUnique ==
    ASSUME NEW a \in Int, NEW b \in Nat, b > 0,
           NEW q \in Int, NEW r \in 0 .. b - 1, a = b * q + r
    PROVE  a % b = r
  <1>1. a \div b = q
    BY QuotientUnique
  <1>2. a = b * q + (a % b) /\ a % b \in Int
    BY <1>1, DivMod
  <1> DEFINE m == a % b
             n == b * q
  <1>3. m \in Int /\ n \in Int /\ a = n + m /\ a = n + r
    BY <1>2, SMTT(30)
  <1> HIDE DEF m, n
  <1>4. m = r
    BY <1>3
  <1> QED
    BY <1>4 DEF m

LEMMA DivMonotonic ==
    ASSUME NEW a \in Int, NEW b \in Int, a <= b, NEW n \in Nat, n > 0
    PROVE  a \div n <= b \div n
  <1> DEFINE p == a \div n
             q == b \div n
  <1>1. /\ p \in Int /\ q \in Int
        /\ a % n \in 0 .. n - 1 /\ b % n \in 0 .. n - 1
        /\ a = n * p + (a % n) /\ b = n * q + (b % n)
    BY DivMod
  <1> HIDE DEF p, q
  <1>2. n * p < n * (q + 1)
    BY <1>1, SMT
  <1>3. p < q + 1
    BY <1>1, <1>2, SMTT(30)
  <1> QED
    BY <1>1, <1>3 DEF p, q

\* A second has room for whole microseconds: the two divisions of to_iso_8601
\* are one.
LEMMA SplitSecond ==
    ASSUME NEW t \in Nat, NEW m \in Nat, m > 0, NEW n \in Nat, n > 0,
           NEW s \in Int, s = t \div (m * n)
    PROVE  /\ s >= 0
           /\ t - s * (m * n) \in Nat
           /\ (t - s * (m * n)) \div n \in 0 .. m - 1
           /\ s * m + ((t - s * (m * n)) \div n) = t \div n
  <1> DEFINE b == m * n
             r == t % b
             d == r \div n
             e == r % n
  <1>1. b \in Nat /\ b > 0
    BY SMTT(30)
  <1>2. r \in 0 .. b - 1 /\ t = b * s + r
    BY <1>1, DivMod
  <1>3. d \in Int /\ e \in 0 .. n - 1 /\ r = n * d + e
    <2>1. r \in Int
      BY <1>1, <1>2
    <2> QED
      BY <2>1, DivMod
  <1> HIDE DEF r, d, e
  <1>4. s >= 0
    BY <1>1, <1>2, SMTT(30)
  <1>5. t - s * (m * n) = r
    BY <1>1, <1>2, SMTT(30)
  <1>6. d \in 0 .. m - 1
    <2>1. d >= 0
      BY <1>1, <1>2, <1>3, SMTT(30)
    <2>2. n * d < n * m
      BY <1>1, <1>2, <1>3, SMTT(30)
    <2>3. d < m
      BY <1>3, <2>2, SMTT(30)
    <2> QED
      BY <1>3, <2>1, <2>3
  <1>7. t = n * (s * m + d) + e
    BY <1>1, <1>2, <1>3, SMTT(30)
  <1>8. t \div n = s * m + d
    <2>1. s * m + d \in Int /\ t \in Int
      BY <1>3, SMT
    <2> QED
      BY <1>3, <1>7, <2>1, QuotientUnique
  <1> QED
    BY <1>1, <1>2, <1>4, <1>5, <1>6, <1>8 DEF d

-----------------------------------------------------------------------------
LEMMA NegatedQuotient ==
    ASSUME NEW r \in Nat, NEW n \in Nat, n > 0
    PROVE  Quotient(- r, n) = - (r \div n)
  <1>1. CASE r = 0
    <2>1. - r = r
      <3>1. - r \in Int /\ - r >= 0 /\ - r <= 0
        BY <1>1, Z3
      <3>2. \A i \in Int : i >= 0 /\ i <= 0 => i = 0
        OBVIOUS
      <3> QED
        BY <1>1, <3>1, <3>2, Zenon
    <2>2. r \div n = 0
      BY <1>1, QuotientUnique
    <2> QED
      BY <1>1, <2>1, <2>2 DEF Quotient
  <1>2. CASE r > 0
    <2>1. ~ (- r >= 0) /\ - (- r) = r
      BY <1>2
    <2> QED
      BY <2>1 DEF Quotient
  <1> QED
    BY <1>1, <1>2

\* A time before the epoch is split as its distance to the epoch is: the
\* quotients are towards zero.
LEMMA SplitTime ==
    ASSUME NEW t \in Int
    PROVE  LET rest == t - ToTimeT(t) * Ticks
           IN  /\ ToTimeT(t) \in Int
               /\ Quotient(rest, Nanos) \in
                     IF t >= 0 THEN 0 .. Micros - 1 ELSE 1 - Micros .. 0
               /\ Quotient(t, Nanos) = ToTimeT(t) * Micros + Quotient(rest, Nanos)
  <1>1. /\ Micros \in Nat /\ Micros > 0 /\ Nanos \in Nat /\ Nanos > 0
        /\ Micros * Nanos \in Nat /\ Micros * Nanos > 0
    BY ClockAssumption, SMTT(30)
  <1>2. CASE t >= 0
    <2> DEFINE s == t \div (Micros * Nanos)
               r == t - s * (Micros * Nanos)
    <2>1. s \in Int
      BY <1>1, DivMod
    <2> HIDE DEF s
    <2>2. /\ r \in Nat
          /\ r \div Nanos \in 0 .. Micros - 1
          /\ s * Micros + (r \div Nanos) = t \div Nanos
      BY <1>1, <1>2, <2>1, SplitSecond DEF s
    <2>3. ToTimeT(t) = s
      BY <1>2 DEF ToTimeT, Quotient, Ticks, s
    <2>4. r = t - ToTimeT(t) * Ticks
      BY <2>3 DEF Ticks
    <2> HIDE DEF r
    <2>5. /\ Quotient(r, Nanos) = r \div Nanos
          /\ Quotient(t, Nanos) = t \div Nanos
      BY <1>2, <2>2 DEF Quotient
    <2> QED
      BY <1>2, <2>1, <2>2, <2>3, <2>4, <2>5, Zenon
  <1>3. CASE t < 0
    <2> DEFINE u == - t
               s == u \div (Micros * Nanos)
               r == u - s * (Micros * Nanos)
    <2>1. u \in Nat /\ s \in Int /\ u > 0
      BY <1>1, <1>3, DivMod
    <2> HIDE DEF u, s
    <2>2. /\ r \in Nat
          /\ r \div Nanos \in 0 .. Micros - 1
          /\ s * Micros + (r \div Nanos) = u \div Nanos
      BY <1>1, <2>1, SplitSecond DEF s
    <2>3. ToTimeT(t) = - s
      BY <1>3 DEF ToTimeT, Quotient, Ticks, s, u
    <2>4. t - ToTimeT(t) * Ticks = - r
      <3>1. t = - u
        BY DEF u
      <3> QED
        BY <1>1, <2>1, <2>3, <3>1, SMTT(30) DEF Ticks
    <2> HIDE DEF r
    <2>5. Quotient(t, Nanos) = - (u \div Nanos)
      BY <1>3 DEF Quotient, u
    <2>6. Quotient(- r, Nanos) = - (r \div Nanos)
      BY <1>1, <2>2, NegatedQuotient
    <2> DEFINE d == r \div Nanos
    <2>7. d \in 0 .. Micros - 1 /\ s * Micros + d = u \div Nanos
      BY <2>2
    <2> HIDE DEF d
    <2>8. /\ - d \in 1 - Micros .. 0
          /\ - (s * Micros + d) = (- s) * Micros + (- d)
          /\ - s \in Int
      BY <1>1, <2>1, <2>7, SMTT(30)
    <2>9. Quotient(- r, Nanos) = - d
      BY <2>6 DEF d
    <2>10. Quotient(t, Nanos) = - (s * Micros + d)
      BY <2>5, <2>7
    <2>11. ~ (t >= 0)
      BY <1>3
    <2> QED
      BY <2>3, <2>4, <2>8, <2>9, <2>10, <2>11, Zenon
  <1> QED
    BY <1>2, <1>3

\* The seconds of a zone that are left out are less than a minute, and none in
\* a zone of whole minutes.
LEMMA ZonePrinted ==
    ASSUME NEW o \in Int
    PROVE  LET lost == o - Quotient(o, Minute) * Minute
           IN  /\ Quotient(o, Minute) \in Int
               /\ - Minute < lost /\ lost < Minute
               /\ o % Minute = 0 => lost = 0
  <1>1. Minute \in Nat /\ Minute > 0
    BY ClockAssumption
  <1>2. CASE o >= 0
    <2> DEFINE q == o \div Minute
               r == o % Minute
    <2>1. q \in Int /\ r \in 0 .. Minute - 1 /\ o = Minute * q + r
      BY <1>1, DivMod
    <2>2. Quotient(o, Minute) = q
      BY <1>2 DEF Quotient
    <2> HIDE DEF q, r
    <2>3. o - q * Minute = r
      BY <1>1, <2>1, SMTT(30)
    <2>4. - Minute < r /\ r < Minute
      BY <1>1, <2>1
    <2> QED
      BY <2>1, <2>2, <2>3, <2>4, Zenon DEF r
  <1>3. CASE o < 0
    <2> DEFINE u == - o
               q == u \div Minute
               r == u % Minute
    <2>1. u \in Int
      OBVIOUS
    <2> HIDE DEF u
    <2>2. q \in Int /\ r \in 0 .. Minute - 1 /\ u = Minute * q + r
      BY <1>1, <2>1, DivMod
    <2>3. Quotient(o, Minute) = - q
      BY <1>3 DEF Quotient, u
    <2>4. o % Minute = 0 => r = 0
      <3> SUFFICES ASSUME o % Minute = 0 PROVE r = 0
        OBVIOUS
      <3> DEFINE k == o \div Minute
      <3>1. k \in Int /\ o = Minute * k + 0
        BY <1>1, DivMod
      <3> HIDE DEF k
      <3>2. u = Minute * (- k) + 0 /\ - k \in Int
        BY <1>1, <3>1, SMTT(30) DEF u
      <3>3. 0 \in 0 .. Minute - 1
        BY <1>1
      <3> QED
        BY <1>1, <2>1, <3>2, <3>3, RemainderUnique
    <2> HIDE DEF q, r
    <2>5. o - (- q) * Minute = - r
      <3>1. o = - u
        BY DEF u
      <3> QED
        BY <1>1, <2>2, <3>1, SMTT(30)
    <2>6. /\ - Minute < - r /\ - r < Minute
          /\ r = 0 => - r = 0
          /\ - q \in Int
      BY <1>1, <2>2
    <2> QED
      BY <2>3, <2>4, <2>5, <2>6, Zenon
  <1> QED
    BY <1>2, <1>3

\* A distance to the second below it stays as it is; one to the second above
\* it wraps around, to more than a second.
LEMMA Wrapped ==
    ASSUME NEW x \in 1 - Micros .. Micros - 1
    PROVE  /\ x >= 0 => x % Word = x /\ x % Word < Micros
           /\ x < 0 => x % Word >= Micros
  <1>1. /\ Word \in Nat /\ Word > 0 /\ Word >= 2 * Micros
        /\ Micros \in Nat /\ Micros > 0 /\ x \in Int
    BY ClockAssumption
  <1>2. CASE x >= 0
    <2>1. x \in 0 .. Word - 1 /\ x = Word * 0 + x
      BY <1>1, <1>2
    <2>2. x % Word = x
      BY <1>1, <2>1, RemainderUnique
    <2> QED
      BY <1>1, <1>2, <2>2
  <1>3. CASE x < 0
    <2>1. /\ x + Word \in 0 .. Word - 1 /\ x = Word * (- 1) + (x + Word)
          /\ - 1 \in Int /\ x + Word >= Micros
      BY <1>1, <1>3
    <2>2. x % Word = x + Word
      BY <1>1, <2>1, RemainderUnique
    <2> QED
      BY <1>1, <1>3, <2>1, <2>2
  <1> QED
    BY <1>1, <1>2, <1>3

\* What is printed of a time.
LEMMA Printed ==
    ASSUME NEW t \in Instants
    PROVE  LET time == Quotient(t, Nanos)
               text == ToIso8601(t)
               off  == Denoted(text) - time
           IN  /\ text.fraction < Micros <=> t >= 0 \/ time % Micros = 0
               /\ text.fraction < Micros =>
                    /\ - (Minute * Micros) < off /\ off < Minute * Micros
                    /\ WholeMinutes(t) => off = 0
  <1> DEFINE p == ToTimeT(t)
             x == Quotient(t - p * Ticks, Nanos)
             time == Quotient(t, Nanos)
             o == Offset[p]
             z == Quotient(o, Minute)
             lost == o - z * Minute
  <1>1. t \in Int /\ o \in Int
    BY ZoneAssumption
  <1>2. /\ p \in Int /\ x \in IF t >= 0 THEN 0 .. Micros - 1 ELSE 1 - Micros .. 0
        /\ time = p * Micros + x
    BY <1>1, SplitTime
  <1>3. ToIso8601(t) = [local |-> p + o, fraction |-> x % Word, zone |-> z]
    BY DEF ToIso8601, DeltaUs
  <1>4. /\ z \in Int /\ - Minute < lost /\ lost < Minute
        /\ WholeMinutes(t) => lost = 0
    BY <1>1, ZonePrinted DEF WholeMinutes
  <1>5. /\ Minute \in Nat /\ Micros \in Nat /\ Micros > 0
    BY ClockAssumption
  <1> HIDE DEF p, x, time, o, z
  <1>6. Denoted(ToIso8601(t)) = ((p + o) - z * Minute) * Micros + (x % Word)
    <2> DEFINE l == p + o
               f == x % Word
    <2>1. ToIso8601(t) = [local |-> l, fraction |-> f, zone |-> z]
      BY <1>3
    <2> HIDE DEF l, f
    <2>2. /\ ToIso8601(t).local = l /\ ToIso8601(t).fraction = f
          /\ ToIso8601(t).zone = z
      BY <2>1
    <2> QED
      BY <2>2, Zenon DEF Denoted, l, f
  <1>7. x \in Int /\ x \in 1 - Micros .. Micros - 1
    BY <1>2, <1>5
  <1>8. x % Word < Micros <=> x >= 0
    <2>1. Word \in Nat /\ Word > 0
      BY ClockAssumption
    <2>2. x % Word \in Int
      BY <1>7, <2>1, DivMod
    <2> QED
      BY <1>5, <1>7, <2>2, Wrapped
  <1>9. x >= 0 <=> t >= 0 \/ time % Micros = 0
    <2>1. CASE t >= 0
      BY <1>2, <1>5, <2>1
    <2>2. CASE t < 0 /\ x = 0
      <3>1. /\ time = Micros * p + 0 /\ 0 \in 0 .. Micros - 1
            /\ time \in Int
        BY <1>2, <1>5, <2>2, SMTT(30)
      <3>2. time % Micros = 0
        BY <1>2, <1>5, <3>1, RemainderUnique
      <3> QED
        BY <2>2, <3>2
    <2>3. CASE t < 0 /\ x < 0
      <3>1. /\ time = Micros * (p - 1) + (x + Micros)
            /\ x + Micros \in 0 .. Micros - 1 /\ x + Micros # 0
            /\ time \in Int /\ p - 1 \in Int
        BY <1>2, <1>5, <1>7, <2>3, SMTT(30)
      <3>2. time % Micros = x + Micros
        BY <1>5, <3>1, RemainderUnique
      <3>3. time % Micros # 0
        BY <3>1, <3>2, Zenon
      <3>4. ~ (x >= 0) /\ ~ (t >= 0)
        BY <1>1, <1>7, <2>3
      <3> QED
        BY <3>3, <3>4, Zenon
    <2>4. t >= 0 \/ (t < 0 /\ (x = 0 \/ x < 0))
      <3>1. CASE t >= 0
        BY <3>1
      <3>2. CASE t < 0
        <4>1. ~ (t >= 0)
          BY <1>1, <3>2
        <4>2. x \in 1 - Micros .. 0
          BY <1>2, <4>1
        <4> QED
          BY <1>5, <3>2, <4>2
      <3> QED
        BY <1>1, <3>1, <3>2
    <2> QED
      BY <2>1, <2>2, <2>3, <2>4
  <1>10. ASSUME x >= 0
         PROVE  LET off == Denoted(ToIso8601(t)) - time
                IN  /\ - (Minute * Micros) < off /\ off < Minute * Micros
                    /\ WholeMinutes(t) => off = 0
    <2>1. x % Word = x
      BY <1>7, <1>10, Wrapped
    <2> HIDE DEF lost
    <2>2. lost \in Int /\ (p + o) - z * Minute = p + lost
      BY <1>1, <1>2, <1>4, <1>5, SMTT(30) DEF lost
    <2>3. Denoted(ToIso8601(t)) - time = lost * Micros
      <3>1. Denoted(ToIso8601(t)) = (p + lost) * Micros + x
        BY <1>6, <2>1, <2>2
      <3> HIDE DEF lost
      <3> QED
        BY <1>2, <1>5, <1>7, <2>2, <3>1, SMTT(30)
    <2>4. - (Minute * Micros) < lost * Micros /\ lost * Micros < Minute * Micros
      BY <1>4, <1>5, <2>2, SMTT(30)
    <2>5. WholeMinutes(t) => lost * Micros = 0
      BY <1>4, <1>5, <2>2, SMT
    <2> QED
      BY <2>3, <2>4, <2>5, Zenon
  <1>11. ToIso8601(t).fraction = x % Word
    BY <1>3
  <1> QED
    BY <1>8, <1>9, <1>10, <1>11, Zenon DEF time

\* Two distances shorter than a word that wrap to the same are the same.
LEMMA WrapTells ==
    ASSUME NEW w \in Nat, w > 0, NEW x \in Int, NEW y \in Int,
           x - y < w, y - x < w, x % w = y % w
    PROVE  x = y
  <1>1. /\ x \div w \in Int /\ y \div w \in Int
        /\ x % w \in 0 .. w - 1
        /\ x = w * (x \div w) + (x % w)
        /\ y = w * (y \div w) + (x % w)
    BY DivMod
  <1> DEFINE p == x \div w
             q == y \div w
             r == x % w
  <1> HIDE DEF p, q, r
  <1>2. /\ p \in Int /\ q \in Int /\ r \in Int
        /\ x = w * p + r /\ y = w * q + r
    BY <1>1 DEF p, q, r
  <1>3. w * (p - q) < w * 1 /\ w * (q - p) < w * 1
    BY <1>2, SMTT(30)
  <1>4. p - q < 1 /\ q - p < 1
    BY <1>2, <1>3, SMTT(30)
  <1>5. p = q
    BY <1>2, <1>4
  <1> QED
    BY <1>2, <1>5

LEMMA SameText ==
    ASSUME NEW l, NEW f, NEW z, NEW m, NEW g, NEW w,
           [local |-> l, fraction |-> f, zone |-> z]
              = [local |-> m, fraction |-> g, zone |-> w]
    PROVE  l = m /\ f = g /\ z = w
  OBVIOUS

\* A text tells the microsecond where the zone prints whole, before the epoch
\* too: the fraction is then a distance below zero that wrapped around.
LEMMA TextTellsTime ==
    ASSUME NEW s \in Instants, NEW t \in Instants, ToIso8601(s) = ToIso8601(t),
           WholeMinutes(s), WholeMinutes(t)
    PROVE  Quotient(s, Nanos) = Quotient(t, Nanos)
  <1>1. s \in Int /\ t \in Int
    BY ZoneAssumption
  <1> DEFINE x == Quotient(s - ToTimeT(s) * Ticks, Nanos)
             y == Quotient(t - ToTimeT(t) * Ticks, Nanos)
             p == ToTimeT(s)
             q == ToTimeT(t)
  <1>2. /\ p \in Int
        /\ x \in IF s >= 0 THEN 0 .. Micros - 1 ELSE 1 - Micros .. 0
        /\ Quotient(s, Nanos) = p * Micros + x
    BY <1>1, SplitTime
  <1>3. /\ q \in Int
        /\ y \in IF t >= 0 THEN 0 .. Micros - 1 ELSE 1 - Micros .. 0
        /\ Quotient(t, Nanos) = q * Micros + y
    BY <1>1, SplitTime
  <1> DEFINE o == Offset[p]
             v == Offset[q]
             z == Quotient(o, Minute)
             w == Quotient(v, Minute)
  <1>4. /\ ToIso8601(s) = [local |-> p + o, fraction |-> x % Word, zone |-> z]
        /\ ToIso8601(t) = [local |-> q + v, fraction |-> y % Word, zone |-> w]
    BY DEF ToIso8601, DeltaUs
  <1>5. o \in Int /\ v \in Int
    BY ZoneAssumption
  <1>6. /\ z \in Int /\ o - z * Minute = 0
        /\ w \in Int /\ v - w * Minute = 0
    BY <1>5, ZonePrinted DEF WholeMinutes
  <1> HIDE DEF p, q, x, y, o, v, z, w
  <1>7. p + o = q + v /\ z = w /\ x % Word = y % Word
    <2> DEFINE l == p + o
               m == q + v
               f == x % Word
               g == y % Word
    <2>1. [local |-> l, fraction |-> f, zone |-> z]
             = [local |-> m, fraction |-> g, zone |-> w]
      BY <1>4
    <2> HIDE DEF l, m, f, g
    <2>2. l = m /\ f = g /\ z = w
      BY <2>1, SameText
    <2> QED
      BY <2>2 DEF l, m, f, g
  <1>8. o = v
    <2> DEFINE a == z * Minute
    <2>1. a \in Int /\ o - a = 0 /\ v - a = 0
      BY <1>7, <1>6, ClockAssumption, SMT
    <2> HIDE DEF a
    <2> QED
      BY <1>5, <2>1
  <1>9. p = q
    BY <1>2, <1>3, <1>5, <1>7, <1>8
  <1>10. x = y
    <2>1. x \in 1 - Micros .. Micros - 1 /\ y \in 1 - Micros .. Micros - 1
      BY <1>2, <1>3, ClockAssumption
    <2>2. /\ Word \in Nat /\ Word > 0 /\ x \in Int /\ y \in Int
          /\ x - y < Word /\ y - x < Word
      BY <2>1, ClockAssumption
    <2> QED
      BY <1>7, <2>2, WrapTells
  <1> QED
    BY <1>2, <1>3, <1>9, <1>10

-----------------------------------------------------------------------------
(* The requests.                                                           *)

\* A begin or an end made from what was asked, and a batch.
Checked(call, asked, a) ==
    /\ call.asked = asked
    /\ IsValidTime(asked.time)
    /\ call.args = [a EXCEPT !.time = ToIso8601(@)]

Batched(call, logs, m) ==
    /\ call.asked = [op |-> "logs", logs |-> logs]
    /\ call.args = [op |-> "logs", logs |-> Entries(logs, m)]

Made(call) ==
    \/ \E a \in BeginLaunchArgs \cup EndLaunchArgs \cup BeginItemArgs :
          Checked(call, a, a)
    \/ \E a \in EndItemArgs : Checked(call, a, WithIssue(a))
    \/ \E logs \in Batches : \E m \in Memory : Batched(call, logs, m)

\* The invariant: every call is one of the five.
Wellformed(call) == call.sent = Sent(call.args) /\ Made(call)

CallsInv ==
    /\ \E S : calls \in Seq(S)
    /\ \A k \in DOMAIN calls : Wellformed(calls[k])

\* Sending a request adds a call.
LEMMA SendKeeps ==
    ASSUME CallsInv, NEW asked, NEW a, Send(asked, a),
           Made([asked |-> asked, args |-> a, sent |-> Sent(a)])
    PROVE  CallsInv'
  <1> DEFINE new == [asked |-> asked, args |-> a, sent |-> Sent(a)]
  <1>1. PICK S : calls \in Seq(S)
    BY DEF CallsInv
  <1>2. calls \in Seq(S \cup {new})
    <2>1. \A i \in 1 .. Len(calls) : calls[i] \in S \cup {new}
      BY <1>1, ElementOfSeq
    <2> HIDE DEF new
    <2> QED
      BY <1>1, <2>1
  <1>3. Wellformed(new)
    BY DEF Wellformed
  <1> HIDE DEF new
  <1>4. /\ calls' \in Seq(S \cup {new})
        /\ Len(calls') = Len(calls) + 1 /\ Len(calls) \in Nat
        /\ DOMAIN calls' = 1 .. Len(calls) + 1 /\ DOMAIN calls = 1 .. Len(calls)
        /\ \A k \in 1 .. Len(calls) : calls'[k] = calls[k]
        /\ calls'[Len(calls) + 1] = new
    BY <1>2, AppendProperties, LenProperties DEF Send, new
  <1>5. \A k \in DOMAIN calls' : Wellformed(calls'[k])
    BY <1>3, <1>4 DEF CallsInv
  <1> QED
    BY <1>4, <1>5 DEF CallsInv

LEMMA CallsInductive == Spec => []CallsInv
  <1>1. Init => CallsInv
    <2>1. << >> \in Seq({})
      OBVIOUS
    <2> QED
      BY <2>1 DEF Init, CallsInv
  <1>2. CallsInv /\ [Next]_calls => CallsInv'
    <2> SUFFICES ASSUME CallsInv, [Next]_calls PROVE CallsInv'
      OBVIOUS
    <2>1. CASE UNCHANGED calls
      BY <2>1 DEF CallsInv
    <2>2. ASSUME NEW asked, NEW a, SendChecked(asked, a),
                 \/ /\ asked \in BeginLaunchArgs \cup EndLaunchArgs \cup BeginItemArgs
                    /\ a = asked
                 \/ asked \in EndItemArgs /\ a = WithIssue(asked)
          PROVE  CallsInv'
      <3> DEFINE b == [a EXCEPT !.time = ToIso8601(@)]
                 new == [asked |-> asked, args |-> b, sent |-> Sent(b)]
      <3>1. Send(asked, b) /\ IsValidTime(asked.time)
        BY <2>2 DEF SendChecked
      <3> HIDE DEF b
      <3>2. new.asked = asked /\ new.args = b
        OBVIOUS
      <3> HIDE DEF new
      <3>3. Checked(new, asked, a)
        BY <3>1, <3>2 DEF Checked, b
      <3>4. Made(new)
        BY <2>2, <3>3, Zenon DEF Made
      <3> QED
        BY <3>1, <3>4, SendKeeps DEF new
    <2>3. CASE BeginLaunch \/ EndLaunch \/ BeginItem
      BY <2>2, <2>3, Zenon DEF BeginLaunch, EndLaunch, BeginItem
    <2>4. CASE EndItem
      BY <2>2, <2>4, Zenon DEF EndItem
    <2>5. CASE BatchLogs
      <3>1. PICK logs \in Batches, m \in Memory :
               Send([op |-> "logs", logs |-> logs],
                    [op |-> "logs", logs |-> Entries(logs, m)])
        BY <2>5 DEF BatchLogs
      <3> DEFINE asked == [op |-> "logs", logs |-> logs]
                 a == [op |-> "logs", logs |-> Entries(logs, m)]
                 new == [asked |-> asked, args |-> a, sent |-> Sent(a)]
      <3>2. Batched(new, logs, m)
        BY DEF Batched
      <3> HIDE DEF new
      <3>3. Made(new)
        BY <3>2, Zenon DEF Made
      <3> QED
        BY <3>1, <3>3, SendKeeps DEF new
    <2> QED
      BY <2>1, <2>3, <2>4, <2>5, Zenon DEF Next
  <1> QED
    BY <1>1, <1>2, PTL DEF Spec

-----------------------------------------------------------------------------
(* What the serializer is given of what was asked.                         *)

LEMMA WhoMade ==
    ASSUME NEW call, Made(call)
    PROVE  /\ call.args.op = call.asked.op
           /\ call.asked.op \in {"begin_launch", "end_launch", "begin_item",
                                 "end_item", "logs"}
           /\ call.asked.op = "begin_launch"
                 => /\ call.asked \in BeginLaunchArgs
                    /\ Checked(call, call.asked, call.asked)
           /\ call.asked.op = "end_launch"
                 => /\ call.asked \in EndLaunchArgs
                    /\ Checked(call, call.asked, call.asked)
           /\ call.asked.op = "begin_item"
                 => /\ call.asked \in BeginItemArgs
                    /\ Checked(call, call.asked, call.asked)
           /\ call.asked.op = "end_item"
                 => /\ call.asked \in EndItemArgs
                    /\ Checked(call, call.asked, WithIssue(call.asked))
           /\ call.asked.op = "logs"
                 => \E logs \in Batches : \E m \in Memory : Batched(call, logs, m)
  <1>1. ASSUME NEW a \in BeginLaunchArgs \cup EndLaunchArgs \cup BeginItemArgs,
               Checked(call, a, a)
        PROVE  /\ call.asked = a /\ call.args.op = a.op
               /\ a.op \in {"begin_launch", "end_launch", "begin_item"}
               /\ a.op = "begin_launch" => a \in BeginLaunchArgs
               /\ a.op = "end_launch" => a \in EndLaunchArgs
               /\ a.op = "begin_item" => a \in BeginItemArgs
    <2>1. /\ "op" \in DOMAIN a
          /\ a.op \in {"begin_launch", "end_launch", "begin_item"}
          /\ a.op = "begin_launch" => a \in BeginLaunchArgs
          /\ a.op = "end_launch" => a \in EndLaunchArgs
          /\ a.op = "begin_item" => a \in BeginItemArgs
      BY ArgsAssumption
    <2> QED
      BY <1>1, <2>1 DEF Checked
  <1>2. ASSUME NEW a \in EndItemArgs, Checked(call, a, WithIssue(a))
        PROVE  call.asked = a /\ call.args.op = "end_item" /\ a.op = "end_item"
    <2>1. "op" \in DOMAIN a /\ a.op = "end_item"
      BY ArgsAssumption
    <2> QED
      BY <1>2, <2>1 DEF Checked, WithIssue
  <1>3. ASSUME NEW logs \in Batches, NEW m \in Memory, Batched(call, logs, m)
        PROVE  call.asked.op = "logs" /\ call.args.op = "logs"
    BY <1>3 DEF Batched
  <1>4. CASE \E a \in BeginLaunchArgs \cup EndLaunchArgs \cup BeginItemArgs :
                Checked(call, a, a)
    BY <1>1, <1>4
  <1>5. CASE \E a \in EndItemArgs : Checked(call, a, WithIssue(a))
    BY <1>2, <1>5
  <1>6. CASE \E logs \in Batches : \E m \in Memory : Batched(call, logs, m)
    BY <1>3, <1>6
  <1> QED
    BY <1>4, <1>5, <1>6 DEF Made

\* A begin or an end is given with its time printed and all else as it is.
LEMMA LaunchBegun ==
    ASSUME NEW call, Made(call), call.asked.op = "begin_launch"
    PROVE  LET a == call.asked
               b == call.args
           IN  /\ a \in BeginLaunchArgs /\ b.op = "begin_launch"
               /\ a.time > 0 /\ b.time = ToIso8601(a.time)
               /\ b.name = a.name /\ b.description = a.description
               /\ b.uuid = a.uuid /\ b.rerunof = a.rerunof
               /\ b.is_rerun = a.is_rerun
  <1>1. call.asked \in BeginLaunchArgs /\ Checked(call, call.asked, call.asked)
    BY WhoMade
  <1>2. DOMAIN call.asked = {"op", "name", "time", "description", "uuid",
                             "attributes", "mode", "is_rerun", "rerunof"}
    BY <1>1, ArgsAssumption
  <1>3. call.args.op = "begin_launch"
    BY WhoMade
  <1> QED
    BY <1>1, <1>2, <1>3 DEF Checked, IsValidTime

LEMMA LaunchEnded ==
    ASSUME NEW call, Made(call), call.asked.op = "end_launch"
    PROVE  LET a == call.asked
               b == call.args
           IN  /\ a \in EndLaunchArgs /\ b.op = "end_launch"
               /\ a.time > 0 /\ b.time = ToIso8601(a.time)
               /\ b.uuid = a.uuid
  <1>1. call.asked \in EndLaunchArgs /\ Checked(call, call.asked, call.asked)
    BY WhoMade
  <1>2. DOMAIN call.asked = {"op", "uuid", "time"}
    BY <1>1, ArgsAssumption
  <1>3. call.args.op = "end_launch"
    BY WhoMade
  <1> QED
    BY <1>1, <1>2, <1>3 DEF Checked, IsValidTime

LEMMA ItemBegun ==
    ASSUME NEW call, Made(call), call.asked.op = "begin_item"
    PROVE  LET a == call.asked
               b == call.args
           IN  /\ a \in BeginItemArgs /\ b.op = "begin_item"
               /\ a.time > 0 /\ b.time = ToIso8601(a.time)
               /\ b.name = a.name /\ b.type = a.type
               /\ b.launch = a.launch /\ b.parent = a.parent
               /\ b.description = a.description /\ b.uuid = a.uuid
               /\ b.coderef = a.coderef /\ b.retry = a.retry
               /\ b.has_stats = a.has_stats
  <1>1. call.asked \in BeginItemArgs /\ Checked(call, call.asked, call.asked)
    BY WhoMade
  <1>2. DOMAIN call.asked = {"op", "name", "time", "type", "launch", "parent",
            "description", "attributes", "uuid", "coderef", "parameters",
            "retry", "has_stats"}
    BY <1>1, ArgsAssumption
  <1>3. call.args.op = "begin_item"
    BY WhoMade
  <1> QED
    BY <1>1, <1>2, <1>3 DEF Checked, IsValidTime

\* The issue that is given, of what the user asked for.
Constructed(issue) ==
    [IssueOf(issue.type, issue.locator) EXCEPT
        !.comment = issue.comment, !.auto = issue.auto, !.ignore = issue.ignore]

LEMMA ItemEnded ==
    ASSUME NEW call, Made(call), call.asked.op = "end_item"
    PROVE  LET a == call.asked
               b == call.args
           IN  /\ a \in EndItemArgs /\ b.op = "end_item"
               /\ a.time > 0 /\ b.time = ToIso8601(a.time)
               /\ b.uuid = a.uuid /\ b.launch = a.launch
               /\ b.status = a.status
               /\ b.issue = IF a.issue = None THEN None ELSE Constructed(a.issue)
               /\ b.issue = None <=> a.issue = None
  <1> DEFINE a == call.asked
             c == WithIssue(a)
  <1>1. a \in EndItemArgs /\ Checked(call, a, c)
    BY WhoMade
  <1>2. /\ DOMAIN a = {"op", "uuid", "launch", "time", "status", "issue"}
        /\ a.issue # None => c.issue # None
    BY <1>1, ArgsAssumption
  <1>3. call.args.op = "end_item"
    BY WhoMade
  <1>4. /\ DOMAIN c = {"op", "uuid", "launch", "time", "status", "issue"}
        /\ c.time = a.time /\ c.uuid = a.uuid /\ c.launch = a.launch
        /\ c.status = a.status
        /\ c.issue = IF a.issue = None THEN None ELSE Constructed(a.issue)
    BY <1>2 DEF WithIssue, Constructed
  <1> HIDE DEF a, c
  <1>5. /\ call.args.time = ToIso8601(c.time) /\ call.args.uuid = c.uuid
        /\ call.args.launch = c.launch /\ call.args.status = c.status
        /\ call.args.issue = c.issue
    BY <1>1, <1>4 DEF Checked
  <1>6. a.time > 0
    BY <1>1 DEF Checked, IsValidTime
  <1> QED
    BY <1>1, <1>2, <1>3, <1>4, <1>5, <1>6, Zenon DEF a

\* A batch is given with the times of its entries printed, and its
\* attachments constructed.
LEMMA LogsBatched ==
    ASSUME NEW call, Made(call), call.asked.op = "logs"
    PROVE  LET a == call.asked.logs
               b == call.args.logs
           IN  /\ a \in Batches /\ call.args.op = "logs"
               /\ DOMAIN b = DOMAIN a
               /\ \E m \in Memory : \A n \in DOMAIN a :
                    /\ b[n].time = ToIso8601(a[n].time)
                    /\ b[n].launch = a[n].launch /\ b[n].item = a[n].item
                    /\ b[n].message = a[n].message /\ b[n].level = a[n].level
                    /\ b[n].attachment = Attached(a[n].attachment, m)
                    /\ b[n].attachment = None <=> a[n].attachment = None
  <1>1. PICK logs \in Batches, m \in Memory : Batched(call, logs, m)
    BY WhoMade
  <1>2. /\ call.asked.logs = logs /\ call.args.logs = Entries(logs, m)
        /\ call.args.op = "logs"
    BY <1>1 DEF Batched
  <1>3. ASSUME NEW n \in DOMAIN logs
        PROVE  /\ Entries(logs, m)[n].time = ToIso8601(logs[n].time)
               /\ Entries(logs, m)[n].launch = logs[n].launch
               /\ Entries(logs, m)[n].item = logs[n].item
               /\ Entries(logs, m)[n].message = logs[n].message
               /\ Entries(logs, m)[n].level = logs[n].level
               /\ Entries(logs, m)[n].attachment = Attached(logs[n].attachment, m)
               /\ Attached(logs[n].attachment, m) = None
                     <=> logs[n].attachment = None
    <2>1. /\ DOMAIN logs[n] = {"launch", "time", "item", "message", "level",
                               "attachment"}
          /\ Attached(logs[n].attachment, m) = None <=> logs[n].attachment = None
      BY ArgsAssumption
    <2>2. Entries(logs, m)[n] = [logs[n] EXCEPT
              !.attachment = Attached(@, m), !.time = ToIso8601(@)]
      BY DEF Entries
    <2> QED
      BY <2>1, <2>2
  <1>4. DOMAIN Entries(logs, m) = DOMAIN logs
    BY DEF Entries
  <1> QED
    BY <1>2, <1>3, <1>4

\* A server reads the description, the ids, the code reference and the flags
\* of every begin as the caller passed them, for all arguments.
THEOREM MembersAreReadBack == Spec => []MembersReadBack
  <1>1. ASSUME NEW call, Wellformed(call), call.args.op = "begin_launch"
        PROVE  LET a == call.args
                   b == call.sent.body
               IN  /\ ReadMember(b, "description", None) = a.description
                   /\ ReadMember(b, "uuid", NilUuid) = Or(a.uuid, NilUuid)
                   /\ ReadMember(b, "rerunOf", NilUuid) = Or(a.rerunof, NilUuid)
                   /\ (ReadMember(b, "rerun", "false") = "true") = Or(a.is_rerun, FALSE)
    <2>1. call.sent.body = BeginLaunchBody(call.args)
      BY <1>1 DEF Wellformed, Sent
    <2> DEFINE a == call.args
               b == BeginLaunchBody(a)
    <2>2. a.is_rerun \in BOOLEAN \cup {None}
      <3>1. /\ call.asked \in BeginLaunchArgs
            /\ call.args.is_rerun = call.asked.is_rerun
        BY <1>1, WhoMade, LaunchBegun DEF Wellformed
      <3> QED
        BY <3>1, ArgsAssumption
    <2> HIDE DEF a
    <2>10. /\ ReadValues(b, "description") = TextRead(a.description)
           /\ ReadValues(b, "uuid") = UuidRead(a.uuid)
           /\ ReadValues(b, "rerunOf") = UuidRead(a.rerunof)
           /\ ReadValues(b, "rerun") = BoolRead(a.is_rerun, FALSE)
      BY BeginLaunchReads
    <2> HIDE DEF b
    <2>3. ReadMember(b, "description", None) = a.description
      BY <2>10, TextReadsBack, Zenon
    <2>4. ReadMember(b, "uuid", NilUuid) = Or(a.uuid, NilUuid)
      BY <2>10, UuidReadsBack, Zenon DEF Or
    <2>5. ReadMember(b, "rerunOf", NilUuid) = Or(a.rerunof, NilUuid)
      BY <2>10, UuidReadsBack, Zenon DEF Or
    <2>6. (ReadMember(b, "rerun", "false") = "true") <=> Or(a.is_rerun, FALSE)
      BY <2>2, <2>10, FalseReadsBack, Zenon DEF Or
    <2>7. Or(a.is_rerun, FALSE) \in BOOLEAN
      BY <2>2, Zenon DEF Or
    <2>8. (ReadMember(b, "rerun", "false") = "true") = Or(a.is_rerun, FALSE)
      BY <2>6, <2>7, Zenon
    <2> QED
      BY <2>1, <2>3, <2>4, <2>5, <2>8, Zenon DEF a, b
  <1>2. ASSUME NEW call, Wellformed(call), call.args.op = "begin_item"
        PROVE  LET a == call.args
                   b == call.sent.body
               IN  /\ ReadMember(b, "description", None) = a.description
                   /\ ReadMember(b, "coderef", None) = a.coderef
                   /\ ReadMember(b, "uuid", NilUuid) = Or(a.uuid, NilUuid)
                   /\ (ReadMember(b, "retry", "false") = "true") = Or(a.retry, FALSE)
                   /\ (ReadMember(b, "hasStats", "true") = "true") = Or(a.has_stats, TRUE)
    <2>1. call.sent.body = BeginItemBody(call.args)
      BY <1>2 DEF Wellformed, Sent
    <2> DEFINE a == call.args
               b == BeginItemBody(a)
    <2>2. /\ a.retry \in BOOLEAN \cup {None}
          /\ a.has_stats \in BOOLEAN \cup {None}
      <3>1. /\ call.asked \in BeginItemArgs
            /\ call.args.retry = call.asked.retry
            /\ call.args.has_stats = call.asked.has_stats
        BY <1>2, WhoMade, ItemBegun DEF Wellformed
      <3> QED
        BY <3>1, ArgsAssumption
    <2> HIDE DEF a
    <2>10. /\ ReadValues(b, "description") = TextRead(a.description)
           /\ ReadValues(b, "coderef") = TextRead(a.coderef)
           /\ ReadValues(b, "uuid") = UuidRead(a.uuid)
           /\ ReadValues(b, "retry") = BoolRead(a.retry, FALSE)
           /\ ReadValues(b, "hasStats") = BoolRead(a.has_stats, TRUE)
      BY BeginItemReads
    <2> HIDE DEF b
    <2>3. /\ ReadMember(b, "description", None) = a.description
          /\ ReadMember(b, "coderef", None) = a.coderef
      BY <2>10, TextReadsBack, Zenon
    <2>4. ReadMember(b, "uuid", NilUuid) = Or(a.uuid, NilUuid)
      BY <2>10, UuidReadsBack, Zenon DEF Or
    <2>5. /\ (ReadMember(b, "retry", "false") = "true") <=> Or(a.retry, FALSE)
          /\ (ReadMember(b, "hasStats", "true") = "true") <=> Or(a.has_stats, TRUE)
      BY <2>2, <2>10, FalseReadsBack, TrueReadsBack, Zenon DEF Or
    <2>6. Or(a.retry, FALSE) \in BOOLEAN /\ Or(a.has_stats, TRUE) \in BOOLEAN
      BY <2>2, Zenon DEF Or
    <2>7. /\ (ReadMember(b, "retry", "false") = "true") = Or(a.retry, FALSE)
          /\ (ReadMember(b, "hasStats", "true") = "true") = Or(a.has_stats, TRUE)
      BY <2>5, <2>6, Zenon
    <2> QED
      BY <2>1, <2>3, <2>4, <2>7, Zenon DEF a, b
  <1>3. CallsInv => MembersReadBack
    BY <1>1, <1>2 DEF CallsInv, MembersReadBack
  <1> QED
    BY <1>3, CallsInductive, PTL

LEMMA TimesMade ==
    ASSUME NEW call, Made(call)
    PROVE  /\ \A p \in Times(call) : p[1] \in Instants /\ p[2] = ToIso8601(p[1])
           /\ call.asked.op # "logs" => /\ call.asked.time \in Instants
                                        /\ call.asked.time > 0
                                        /\ call.args.time = ToIso8601(call.asked.time)
  <1>1. CASE call.asked.op = "logs"
    <2>1. /\ call.asked.logs \in Batches
          /\ \A n \in DOMAIN call.asked.logs :
                call.args.logs[n].time = ToIso8601(call.asked.logs[n].time)
      BY <1>1, LogsBatched
    <2>2. \A n \in DOMAIN call.asked.logs : call.asked.logs[n].time \in Instants
      BY <2>1, ArgsAssumption
    <2> QED
      BY <1>1, <2>1, <2>2 DEF Times
  <1>2. CASE call.asked.op # "logs"
    <2>1. /\ call.asked \in BeginLaunchArgs \cup EndLaunchArgs
                                \cup BeginItemArgs \cup EndItemArgs
          /\ call.asked.time > 0
          /\ call.args.time = ToIso8601(call.asked.time)
      BY <1>2, WhoMade, LaunchBegun, LaunchEnded, ItemBegun, ItemEnded
    <2>2. call.asked.time \in Instants
      BY <2>1, ArgsAssumption
    <2> QED
      BY <1>2, <2>1, <2>2 DEF Times
  <1> QED
    BY <1>1, <1>2

\* In every zone whose seconds are none, whatever its changes, every time from
\* the epoch on is printed so that the same microsecond is read back from it; in
\* a zone that has seconds it is less than a minute off.  Of the times before
\* the epoch, which only an entry can have, those between two seconds are the
\* ones whose fraction is not one.
THEOREM TimesAreKept == Spec => []TimeKept
  <1>1. CallsInv => TimeKept
    <2> SUFFICES ASSUME CallsInv, NEW k \in DOMAIN calls, NEW p \in Times(calls[k])
                 PROVE  LET time == Quotient(p[1], Nanos)
                            off  == Denoted(p[2]) - time
                        IN  /\ p[2].fraction < Micros
                                  <=> p[1] >= 0 \/ time % Micros = 0
                            /\ p[2].fraction < Micros =>
                                /\ - (Minute * Micros) < off
                                /\ off < Minute * Micros
                                /\ WholeMinutes(p[1]) => off = 0
      BY Zenon DEF TimeKept
    <2>1. p[1] \in Instants /\ p[2] = ToIso8601(p[1])
      BY TimesMade DEF CallsInv, Wellformed
    <2> QED
      BY <2>1, Printed, Zenon
  <1> QED
    BY <1>1, CallsInductive, PTL

LEMMA WholeTime ==
    ASSUME NEW call, call.asked.op # "logs", WholeZones(call)
    PROVE  WholeMinutes(call.asked.time)
  <1>1. <<call.asked.time, call.args.time>> \in Times(call)
    BY DEF Times
  <1> QED
    BY <1>1 DEF WholeZones

\* Begins and ends in zones of whole minutes are read back in the order of
\* their times.
THEOREM CheckedTimesInOrder == Spec => []CheckedInOrder
  <1>1. CallsInv => CheckedInOrder
    <2> SUFFICES ASSUME CallsInv, NEW j \in DOMAIN calls, NEW k \in DOMAIN calls,
                        calls[j].asked.op # "logs", WholeZones(calls[j]),
                        calls[k].asked.op # "logs", WholeZones(calls[k]),
                        calls[j].asked.time <= calls[k].asked.time
                 PROVE  Denoted(calls[j].args.time) <= Denoted(calls[k].args.time)
      BY DEF CheckedInOrder
    <2> DEFINE s == calls[j].asked.time
               t == calls[k].asked.time
    <2>1. /\ s \in Instants /\ t \in Instants /\ s > 0 /\ t > 0
          /\ calls[j].args.time = ToIso8601(s)
          /\ calls[k].args.time = ToIso8601(t)
          /\ WholeMinutes(s) /\ WholeMinutes(t)
      BY TimesMade, WholeTime DEF CallsInv, Wellformed
    <2>2. s \in Int /\ t \in Int /\ s <= t
      BY <2>1, ZoneAssumption
    <2> HIDE DEF s, t
    <2>3. ASSUME NEW u \in Instants, u > 0, WholeMinutes(u)
          PROVE  Denoted(ToIso8601(u)) = u \div Nanos
      <3>1. u \in Int /\ u >= 0
        BY <2>3, ZoneAssumption
      <3>2. Denoted(ToIso8601(u)) - Quotient(u, Nanos) = 0
        BY <2>3, <3>1, Printed
      <3>3. Quotient(u, Nanos) = u \div Nanos
        BY <3>1 DEF Quotient
      <3>4. /\ u \div Nanos \in Int
            /\ Denoted(ToIso8601(u)) \in Int
        <4>1. ToIso8601(u) = [local |-> ToTimeT(u) + Offset[ToTimeT(u)],
                  fraction |-> DeltaUs(u),
                  zone |-> Quotient(Offset[ToTimeT(u)], Minute)]
          BY DEF ToIso8601
        <4>2. /\ ToTimeT(u) \in Int /\ Offset[ToTimeT(u)] \in Int
              /\ Quotient(Offset[ToTimeT(u)], Minute) \in Int
          BY <3>1, ZoneAssumption, ZonePrinted
        <4>3. DeltaUs(u) \in Int
          <5>1. /\ Quotient(u - ToTimeT(u) * Ticks, Nanos) \in Int
                /\ Word \in Nat /\ Word > 0
            BY <3>1, SplitTime, ClockAssumption
          <5> QED
            BY <5>1, DivMod DEF DeltaUs
        <4>4. u \div Nanos \in Int
          BY <3>1, ClockAssumption, DivMod
        <4> QED
          BY <4>1, <4>2, <4>3, <4>4, ClockAssumption, SMT DEF Denoted
      <3> QED
        BY <3>2, <3>3, <3>4
    <2>4. /\ Denoted(ToIso8601(s)) = s \div Nanos
          /\ Denoted(ToIso8601(t)) = t \div Nanos
      BY <2>1, <2>3
    <2> QED
      BY <2>1, <2>2, <2>4, ClockAssumption, DivMonotonic
  <1> QED
    BY <1>1, CallsInductive, PTL

-----------------------------------------------------------------------------
(* A request tells the call: what is read of two that are the same is the  *)
(* same, and every reading has an inverse on what Told keeps.              *)

LEMMA SameReads ==
    ASSUME NEW M, NEW V, NEW b \in Bodies(M, V),
           NEW N, NEW W, NEW c \in Bodies(N, W), SameObject(b, c)
    PROVE  \A n : ReadValues(b, n) = ReadValues(c, n)
  <1>1. DOMAIN b = DOMAIN c
    BY LenProperties DEF SameObject, Bodies
  <1>2. \A k \in DOMAIN b : b[k].member = c[k].member /\ b[k].value = c[k].value
    BY DEF SameObject
  <1> QED
    BY <1>1, <1>2 DEF ReadValues

\* Texts that stand for different enumerators are different.
LEMMA TypeTells ==
    ASSUME NEW i \in DOMAIN TypeText, NEW j \in DOMAIN TypeText,
           TypeText[i] = TypeText[j]
    PROVE  i = j
  BY DEF TypeText

LEMMA LevelTells ==
    ASSUME NEW i \in 0 .. 6, NEW j \in 0 .. 6, LevelText(i) = LevelText(j)
    PROVE  i = j
  BY DEF LevelText

LEMMA DefectTells ==
    ASSUME NEW i \in 0 .. 4, NEW j \in 0 .. 4, DefectText(i) = DefectText(j)
    PROVE  i = j
  BY DEF DefectText

LEMMA StatusTells ==
    ASSUME NEW i \in 1 .. 7 \cup {None}, NEW j \in 1 .. 7 \cup {None},
           StatusRead(i) = StatusRead(j)
    PROVE  Or(i, Inherit) = Or(j, Inherit)
  <1>1. \A k, l \in 2 .. 7 : StatusText(k) = StatusText(l) => k = l
    BY DEF StatusText
  <1> QED
    BY <1>1 DEF StatusRead, Or, Inherit

\* So are texts, ids and flags that are not the default.
LEMMA OptionalTells ==
    ASSUME NEW v, NEW w
    PROVE  /\ TextRead(v) = TextRead(w) => v = w
           /\ UuidRead(v) = UuidRead(w) => Or(v, NilUuid) = Or(w, NilUuid)
  <1>1. TextRead(v) = TextRead(w) => v = w
    BY DEF TextRead
  <1>2. UuidRead(v) = UuidRead(w) => Or(v, NilUuid) = Or(w, NilUuid)
    BY DEF UuidRead, Or
  <1> QED
    BY <1>1, <1>2

LEMMA FlagTells ==
    ASSUME NEW default \in BOOLEAN, NEW v \in BOOLEAN \cup {None},
           NEW w \in BOOLEAN \cup {None},
           BoolRead(v, default) = BoolRead(w, default)
    PROVE  Or(v, default) = Or(w, default)
  BY NoneAssumption DEF BoolRead, Or

LEMMA WhatIsSent ==
    ASSUME NEW a
    PROVE  /\ a.op = "begin_launch" => Sent(a) = [method |-> "POST",
                  path |-> <<"launch">>, body |-> BeginLaunchBody(a)]
           /\ a.op = "end_launch" => Sent(a) = [method |-> "PUT",
                  path |-> <<"launch", a.uuid, "finish">>, body |-> EndLaunchBody(a)]
           /\ a.op = "begin_item" => Sent(a) = [method |-> "POST",
                  path |-> BeginItemPath(a.parent), body |-> BeginItemBody(a)]
           /\ a.op = "end_item" => Sent(a) = [method |-> "PUT",
                  path |-> <<"", "item", a.uuid>>, body |-> EndItemBody(a)]
           /\ a.op = "logs" => Sent(a) = [method |-> "MIME",
                  path |-> <<"", "log">>, body |-> LogsBody(a)]
  BY DEF Sent

\* What the server is told of two begins of launches that send the same.
LEMMA LaunchBeginTells ==
    ASSUME NEW c, NEW d, Wellformed(c), Wellformed(d),
           c.asked.op = "begin_launch", d.asked.op = "begin_launch",
           WholeZones(c), WholeZones(d), SameSent(c.sent, d.sent)
    PROVE  Told(c.asked) = Told(d.asked)
  <1> DEFINE a == c.asked
             b == d.asked
             p == c.args
             q == d.args
  <1>1. /\ a \in BeginLaunchArgs /\ p.op = "begin_launch"
        /\ p.time = ToIso8601(a.time) /\ p.name = a.name
        /\ p.description = a.description /\ p.uuid = a.uuid
        /\ p.rerunof = a.rerunof /\ p.is_rerun = a.is_rerun
    BY LaunchBegun DEF Wellformed
  <1>2. /\ b \in BeginLaunchArgs /\ q.op = "begin_launch"
        /\ q.time = ToIso8601(b.time) /\ q.name = b.name
        /\ q.description = b.description /\ q.uuid = b.uuid
        /\ q.rerunof = b.rerunof /\ q.is_rerun = b.is_rerun
    BY LaunchBegun DEF Wellformed
  <1>3. c.sent.body = BeginLaunchBody(p) /\ c.sent.method = "POST"
    <2> HIDE DEF p
    <2>1. Sent(p) = [method |-> "POST", path |-> <<"launch">>,
                     body |-> BeginLaunchBody(p)]
      BY <1>1, WhatIsSent
    <2>2. c.sent = Sent(p)
      BY DEF Wellformed, p
    <2> QED
      BY <2>1, <2>2
  <1>4. d.sent.body = BeginLaunchBody(q)
    <2> HIDE DEF q
    <2>1. Sent(q) = [method |-> "POST", path |-> <<"launch">>,
                     body |-> BeginLaunchBody(q)]
      BY <1>2, WhatIsSent
    <2>2. d.sent = Sent(q)
      BY DEF Wellformed, q
    <2> QED
      BY <2>1, <2>2
  <1>5. SameObject(BeginLaunchBody(p), BeginLaunchBody(q))
    BY <1>3, <1>4 DEF SameSent
  <1> HIDE DEF p, q
  <1>6. \A n : ReadValues(BeginLaunchBody(p), n) = ReadValues(BeginLaunchBody(q), n)
    <2>1. PICK M, V : BeginLaunchBody(p) \in Bodies(M, V)
      BY BeginLaunchReads
    <2>2. PICK N, W : BeginLaunchBody(q) \in Bodies(N, W)
      BY BeginLaunchReads
    <2> QED
      BY <1>5, <2>1, <2>2, SameReads
  <1>7. /\ {p.name} = {q.name} /\ {p.time} = {q.time}
        /\ TextRead(p.description) = TextRead(q.description)
        /\ UuidRead(p.uuid) = UuidRead(q.uuid)
        /\ UuidRead(p.rerunof) = UuidRead(q.rerunof)
        /\ BoolRead(p.is_rerun, FALSE) = BoolRead(q.is_rerun, FALSE)
    BY <1>6, BeginLaunchReads
  <1>0. WholeMinutes(a.time) /\ WholeMinutes(b.time)
    BY WholeTime
  <1> HIDE DEF a, b
  <1>8. /\ DOMAIN a = {"op", "name", "time", "description", "uuid",
                       "attributes", "mode", "is_rerun", "rerunof"}
        /\ DOMAIN b = DOMAIN a
        /\ a.op = "begin_launch" /\ b.op = "begin_launch"
        /\ a.is_rerun \in BOOLEAN \cup {None}
        /\ b.is_rerun \in BOOLEAN \cup {None}
        /\ a.time \in Instants /\ b.time \in Instants
    BY <1>1, <1>2, ArgsAssumption
  <1>9. /\ a.name = b.name /\ ToIso8601(a.time) = ToIso8601(b.time)
        /\ a.description = b.description
        /\ Or(a.uuid, NilUuid) = Or(b.uuid, NilUuid)
        /\ Or(a.rerunof, NilUuid) = Or(b.rerunof, NilUuid)
        /\ Or(a.is_rerun, FALSE) = Or(b.is_rerun, FALSE)
    <2>1. /\ p.name = q.name /\ p.time = q.time
          /\ p.description = q.description
          /\ Or(p.uuid, NilUuid) = Or(q.uuid, NilUuid)
          /\ Or(p.rerunof, NilUuid) = Or(q.rerunof, NilUuid)
      BY <1>7, OptionalTells
    <2>2. Or(p.is_rerun, FALSE) = Or(q.is_rerun, FALSE)
      <3>1. p.is_rerun \in BOOLEAN \cup {None}
        BY <1>1, <1>8, Zenon
      <3>2. q.is_rerun \in BOOLEAN \cup {None}
        BY <1>2, <1>8, Zenon
      <3> QED
        BY <1>7, <3>1, <3>2, FlagTells, Zenon
    <2> QED
      BY <1>1, <1>2, <2>1, <2>2
  <1>10. Quotient(a.time, Nanos) = Quotient(b.time, Nanos)
    BY <1>0, <1>8, <1>9, TextTellsTime
  <1>11. Told(a) = Told(b)
    <2> DEFINE T(x, u, r, f, t) ==
                   [x EXCEPT !.uuid = u, !.rerunof = r, !.is_rerun = f,
                             !.mode = None, !.attributes = None, !.time = t]
               u1 == Or(b.uuid, NilUuid)
               r1 == Or(b.rerunof, NilUuid)
               f1 == Or(b.is_rerun, FALSE)
               t1 == Quotient(b.time, Nanos)
    <2>1. Told(b) = T(b, u1, r1, f1, t1)
      BY <1>8 DEF Told
    <2>2. Told(a) = T(a, Or(a.uuid, NilUuid), Or(a.rerunof, NilUuid),
                      Or(a.is_rerun, FALSE), Quotient(a.time, Nanos))
      BY <1>8 DEF Told
    <2> HIDE DEF u1, r1, f1, t1
    <2>3. T(a, u1, r1, f1, t1) = T(b, u1, r1, f1, t1)
      BY <1>8, <1>9
    <2>4. Told(a) = T(a, u1, r1, f1, t1)
      BY <2>2, <1>9, <1>10, Zenon DEF u1, r1, f1, t1
    <2> QED
      BY <2>1, <2>3, <2>4
  <1> QED
    BY <1>11 DEF a, b

LEMMA LaunchEndTells ==
    ASSUME NEW c, NEW d, Wellformed(c), Wellformed(d),
           c.asked.op = "end_launch", d.asked.op = "end_launch",
           WholeZones(c), WholeZones(d), SameSent(c.sent, d.sent)
    PROVE  Told(c.asked) = Told(d.asked)
  <1> DEFINE a == c.asked
             b == d.asked
             p == c.args
             q == d.args
  <1>1. /\ a \in EndLaunchArgs /\ p.op = "end_launch"
        /\ p.time = ToIso8601(a.time) /\ p.uuid = a.uuid
    BY LaunchEnded DEF Wellformed
  <1>2. /\ b \in EndLaunchArgs /\ q.op = "end_launch"
        /\ q.time = ToIso8601(b.time) /\ q.uuid = b.uuid
    BY LaunchEnded DEF Wellformed
  <1>3. c.sent = [method |-> "PUT", path |-> <<"launch", p.uuid, "finish">>,
                  body |-> EndLaunchBody(p)]
    <2> HIDE DEF p
    <2>1. c.sent = Sent(p)
      BY DEF Wellformed, p
    <2> QED
      BY <1>1, <2>1, WhatIsSent
  <1>4. d.sent = [method |-> "PUT", path |-> <<"launch", q.uuid, "finish">>,
                  body |-> EndLaunchBody(q)]
    <2> HIDE DEF q
    <2>1. d.sent = Sent(q)
      BY DEF Wellformed, q
    <2> QED
      BY <1>2, <2>1, WhatIsSent
  <1> HIDE DEF p, q
  <1>5. /\ SameObject(EndLaunchBody(p), EndLaunchBody(q))
        /\ <<"launch", p.uuid, "finish">> = <<"launch", q.uuid, "finish">>
    BY <1>3, <1>4 DEF SameSent
  <1>6. p.uuid = q.uuid /\ p.time = q.time
    BY <1>5 DEF SameObject, EndLaunchBody, Required
  <1>0. WholeMinutes(a.time) /\ WholeMinutes(b.time)
    BY WholeTime
  <1> HIDE DEF a, b
  <1>7. /\ DOMAIN a = {"op", "uuid", "time"} /\ DOMAIN b = DOMAIN a
        /\ a.op = "end_launch" /\ b.op = "end_launch"
        /\ a.time \in Instants /\ b.time \in Instants
    BY <1>1, <1>2, ArgsAssumption
  <1>8. a.uuid = b.uuid /\ Quotient(a.time, Nanos) = Quotient(b.time, Nanos)
    <2>1. a.uuid = b.uuid /\ ToIso8601(a.time) = ToIso8601(b.time)
      BY <1>1, <1>2, <1>6
    <2> QED
      BY <1>0, <1>7, <2>1, TextTellsTime
  <1>9. Told(a) = Told(b)
    BY <1>7, <1>8 DEF Told
  <1> QED
    BY <1>9 DEF a, b

LEMMA PathTells ==
    ASSUME NEW v, NEW w, BeginItemPath(v) = BeginItemPath(w)
    PROVE  v = w
  BY DEF BeginItemPath

LEMMA ItemBeginTells ==
    ASSUME NEW c, NEW d, Wellformed(c), Wellformed(d),
           c.asked.op = "begin_item", d.asked.op = "begin_item",
           WholeZones(c), WholeZones(d), SameSent(c.sent, d.sent)
    PROVE  Told(c.asked) = Told(d.asked)
  <1> DEFINE a == c.asked
             b == d.asked
             p == c.args
             q == d.args
  <1>1. /\ a \in BeginItemArgs /\ p.op = "begin_item"
        /\ p.time = ToIso8601(a.time) /\ p.name = a.name
        /\ p.type = a.type /\ p.launch = a.launch
        /\ p.parent = a.parent /\ p.description = a.description
        /\ p.uuid = a.uuid /\ p.coderef = a.coderef
        /\ p.retry = a.retry /\ p.has_stats = a.has_stats
    BY ItemBegun DEF Wellformed
  <1>2. /\ b \in BeginItemArgs /\ q.op = "begin_item"
        /\ q.time = ToIso8601(b.time) /\ q.name = b.name
        /\ q.type = b.type /\ q.launch = b.launch
        /\ q.parent = b.parent /\ q.description = b.description
        /\ q.uuid = b.uuid /\ q.coderef = b.coderef
        /\ q.retry = b.retry /\ q.has_stats = b.has_stats
    BY ItemBegun DEF Wellformed
  <1>3. c.sent = [method |-> "POST", path |-> BeginItemPath(p.parent),
                  body |-> BeginItemBody(p)]
    <2> HIDE DEF p
    <2>1. c.sent = Sent(p)
      BY DEF Wellformed, p
    <2> QED
      BY <1>1, <2>1, WhatIsSent
  <1>4. d.sent = [method |-> "POST", path |-> BeginItemPath(q.parent),
                  body |-> BeginItemBody(q)]
    <2> HIDE DEF q
    <2>1. d.sent = Sent(q)
      BY DEF Wellformed, q
    <2> QED
      BY <1>2, <2>1, WhatIsSent
  <1> HIDE DEF p, q
  <1>5. /\ SameObject(BeginItemBody(p), BeginItemBody(q))
        /\ BeginItemPath(p.parent) = BeginItemPath(q.parent)
    BY <1>3, <1>4 DEF SameSent
  <1>6. \A n : ReadValues(BeginItemBody(p), n) = ReadValues(BeginItemBody(q), n)
    <2>1. PICK M, V : BeginItemBody(p) \in Bodies(M, V)
      BY BeginItemReads
    <2>2. PICK N, W : BeginItemBody(q) \in Bodies(N, W)
      BY BeginItemReads
    <2> QED
      BY <1>5, <2>1, <2>2, SameReads
  <1>7. /\ {p.name} = {q.name} /\ {p.time} = {q.time}
        /\ {TypeText[p.type]} = {TypeText[q.type]} /\ {p.launch} = {q.launch}
        /\ TextRead(p.description) = TextRead(q.description)
        /\ UuidRead(p.uuid) = UuidRead(q.uuid)
        /\ TextRead(p.coderef) = TextRead(q.coderef)
        /\ BoolRead(p.retry, FALSE) = BoolRead(q.retry, FALSE)
        /\ BoolRead(p.has_stats, TRUE) = BoolRead(q.has_stats, TRUE)
    BY <1>6, BeginItemReads
  <1>0. WholeMinutes(a.time) /\ WholeMinutes(b.time)
    BY WholeTime
  <1> HIDE DEF a, b
  <1>8. /\ DOMAIN a = {"op", "name", "time", "type", "launch", "parent",
                       "description", "attributes", "uuid", "coderef",
                       "parameters", "retry", "has_stats"}
        /\ DOMAIN b = DOMAIN a
        /\ a.op = "begin_item" /\ b.op = "begin_item"
        /\ a.type \in DOMAIN TypeText /\ b.type \in DOMAIN TypeText
        /\ a.retry \in BOOLEAN \cup {None} /\ b.retry \in BOOLEAN \cup {None}
        /\ a.has_stats \in BOOLEAN \cup {None}
        /\ b.has_stats \in BOOLEAN \cup {None}
        /\ a.time \in Instants /\ b.time \in Instants
    BY <1>1, <1>2, ArgsAssumption
  <1>9. /\ a.name = b.name /\ ToIso8601(a.time) = ToIso8601(b.time)
        /\ TypeText[a.type] = TypeText[b.type] /\ a.launch = b.launch
        /\ a.parent = b.parent /\ a.description = b.description
        /\ Or(a.uuid, NilUuid) = Or(b.uuid, NilUuid) /\ a.coderef = b.coderef
    <2>1. /\ p.name = q.name /\ p.time = q.time
          /\ TypeText[p.type] = TypeText[q.type] /\ p.launch = q.launch
          /\ p.description = q.description /\ p.coderef = q.coderef
          /\ Or(p.uuid, NilUuid) = Or(q.uuid, NilUuid)
      <3> HIDE DEF TypeText
      <3> QED
        BY <1>7, OptionalTells
    <2>2. p.parent = q.parent
      BY <1>5, PathTells
    <2> QED
      BY <1>1, <1>2, <2>1, <2>2, Zenon
  <1>10. /\ Or(a.retry, FALSE) = Or(b.retry, FALSE)
         /\ Or(a.has_stats, TRUE) = Or(b.has_stats, TRUE)
    <2>1. /\ BoolRead(a.retry, FALSE) = BoolRead(b.retry, FALSE)
          /\ BoolRead(a.has_stats, TRUE) = BoolRead(b.has_stats, TRUE)
      BY <1>1, <1>2, <1>7, Zenon
    <2> QED
      BY <1>8, <2>1, FlagTells, Zenon
  <1>11. a.type = b.type
    BY <1>8, <1>9, TypeTells
  <1>12. Quotient(a.time, Nanos) = Quotient(b.time, Nanos)
    BY <1>0, <1>8, <1>9, TextTellsTime
  <1>13. Told(a) = Told(b)
    <2> DEFINE T(x, u, r, h, t) ==
                   [x EXCEPT !.uuid = u, !.retry = r, !.has_stats = h,
                             !.parameters = None, !.attributes = None, !.time = t]
               u1 == Or(b.uuid, NilUuid)
               r1 == Or(b.retry, FALSE)
               h1 == Or(b.has_stats, TRUE)
               t1 == Quotient(b.time, Nanos)
    <2>1. Told(b) = T(b, u1, r1, h1, t1)
      BY <1>8 DEF Told
    <2>2. Told(a) = T(a, Or(a.uuid, NilUuid), Or(a.retry, FALSE),
                      Or(a.has_stats, TRUE), Quotient(a.time, Nanos))
      BY <1>8 DEF Told
    <2> HIDE DEF u1, r1, h1, t1
    <2>3. T(a, u1, r1, h1, t1) = T(b, u1, r1, h1, t1)
      BY <1>8, <1>9, <1>11
    <2>4. Told(a) = T(a, u1, r1, h1, t1)
      BY <2>2, <1>9, <1>10, <1>12, Zenon DEF u1, r1, h1, t1
    <2> QED
      BY <2>1, <2>3, <2>4
  <1> QED
    BY <1>13 DEF a, b

\* The objects of issues and files.
LEMMA ConstructedOf ==
    ASSUME NEW issue
    PROVE  LET c == Constructed(issue)
           IN  /\ c.type = issue.type /\ c.comment = issue.comment
               /\ c.auto = issue.auto /\ c.ignore = issue.ignore
  <1> DEFINE none == ""
  <1>1. IssueOf(issue.type, issue.locator)
            = [type |-> issue.type, locator |-> 0, comment |-> none,
               auto |-> FALSE, ignore |-> FALSE]
    BY Zenon DEF IssueOf
  <1> HIDE DEF none
  <1> QED
    BY <1>1 DEF Constructed

LEMMA IssueTells ==
    ASSUME NEW i, NEW j, IssueObject(i) = IssueObject(j)
    PROVE  /\ DefectText(i.type) = DefectText(j.type)
           /\ i.comment = j.comment /\ i.auto = j.auto /\ i.ignore = j.ignore
  BY DEF IssueObject, Required

LEMMA FileTells ==
    ASSUME NEW f, NEW g, FileObject(f) = FileObject(g)
    PROVE  f.name = g.name /\ f.data = g.data
  BY DEF FileObject, Required

LEMMA ItemEndTells ==
    ASSUME NEW c, NEW d, Wellformed(c), Wellformed(d),
           c.asked.op = "end_item", d.asked.op = "end_item",
           WholeZones(c), WholeZones(d), SameSent(c.sent, d.sent)
    PROVE  Told(c.asked) = Told(d.asked)
  <1> DEFINE a == c.asked
             b == d.asked
             p == c.args
             q == d.args
  <1>1. /\ a \in EndItemArgs /\ p.op = "end_item"
        /\ p.time = ToIso8601(a.time) /\ p.uuid = a.uuid
        /\ p.launch = a.launch /\ p.status = a.status
        /\ p.issue = IF a.issue = None THEN None ELSE Constructed(a.issue)
        /\ p.issue = None <=> a.issue = None
    BY ItemEnded DEF Wellformed
  <1>2. /\ b \in EndItemArgs /\ q.op = "end_item"
        /\ q.time = ToIso8601(b.time) /\ q.uuid = b.uuid
        /\ q.launch = b.launch /\ q.status = b.status
        /\ q.issue = IF b.issue = None THEN None ELSE Constructed(b.issue)
        /\ q.issue = None <=> b.issue = None
    BY ItemEnded DEF Wellformed
  <1>3. c.sent = [method |-> "PUT", path |-> <<"", "item", p.uuid>>,
                  body |-> EndItemBody(p)]
    <2> HIDE DEF p
    <2>1. c.sent = Sent(p)
      BY DEF Wellformed, p
    <2> QED
      BY <1>1, <2>1, WhatIsSent
  <1>4. d.sent = [method |-> "PUT", path |-> <<"", "item", q.uuid>>,
                  body |-> EndItemBody(q)]
    <2> HIDE DEF q
    <2>1. d.sent = Sent(q)
      BY DEF Wellformed, q
    <2> QED
      BY <1>2, <2>1, WhatIsSent
  <1> HIDE DEF p, q
  <1>5. /\ SameObject(EndItemBody(p), EndItemBody(q))
        /\ <<"", "item", p.uuid>> = <<"", "item", q.uuid>>
    <2> DEFINE none == ""
               x == <<none, "item", p.uuid>>
               y == <<none, "item", q.uuid>>
               r == EndItemBody(p)
               t == EndItemBody(q)
    <2>1. /\ c.sent = [method |-> "PUT", path |-> x, body |-> r]
          /\ d.sent = [method |-> "PUT", path |-> y, body |-> t]
      BY <1>3, <1>4, Zenon
    <2> HIDE DEF none, x, y, r, t
    <2>2. SameObject(r, t) /\ x = y
      BY <2>1 DEF SameSent
    <2> QED
      BY <2>2, Zenon DEF r, t, x, y, none
  <1>6. \A n : ReadValues(EndItemBody(p), n) = ReadValues(EndItemBody(q), n)
    <2>1. PICK M, V : EndItemBody(p) \in Bodies(M, V)
      BY EndItemReads
    <2>2. PICK N, W : EndItemBody(q) \in Bodies(N, W)
      BY EndItemReads
    <2> QED
      BY <1>5, <2>1, <2>2, SameReads
  <1>7. /\ {p.time} = {q.time} /\ {p.launch} = {q.launch}
        /\ StatusRead(p.status) = StatusRead(q.status)
        /\ IssueRead(p.issue) = IssueRead(q.issue)
    BY <1>6, EndItemReads
  <1>0. WholeMinutes(a.time) /\ WholeMinutes(b.time)
    BY WholeTime
  <1> HIDE DEF a, b
  <1>8. /\ DOMAIN a = {"op", "uuid", "launch", "time", "status", "issue"}
        /\ DOMAIN b = DOMAIN a
        /\ a.op = "end_item" /\ b.op = "end_item"
        /\ a.status \in 1 .. 7 \cup {None} /\ b.status \in 1 .. 7 \cup {None}
        /\ a.issue # None => a.issue.type \in 0 .. 4
        /\ b.issue # None => b.issue.type \in 0 .. 4
        /\ a.time \in Instants /\ b.time \in Instants
    BY <1>1, <1>2, ArgsAssumption
  <1>9. /\ a.uuid = b.uuid /\ a.launch = b.launch
        /\ ToIso8601(a.time) = ToIso8601(b.time)
        /\ StatusRead(a.status) = StatusRead(b.status)
    <2> DEFINE none == ""
    <2> HIDE DEF none
    <2>1. <<none, "item", p.uuid>> = <<none, "item", q.uuid>>
      BY <1>5, Zenon DEF none
    <2>2. p.uuid = q.uuid
      BY <2>1
    <2> QED
      BY <1>1, <1>2, <1>7, <2>2
  <1>10. Or(a.status, Inherit) = Or(b.status, Inherit)
    BY <1>8, <1>9, StatusTells
  <1>11. Quotient(a.time, Nanos) = Quotient(b.time, Nanos)
    BY <1>0, <1>8, <1>9, TextTellsTime
  <1> DEFINE kind(issue) ==
                 IF issue = None THEN None
                 ELSE <<issue.type, issue.comment, issue.auto, issue.ignore>>
  <1>12. kind(a.issue) = kind(b.issue)
    <2>1. CASE a.issue = None
      BY <1>1, <1>2, <1>7, <2>1 DEF IssueRead
    <2>2. CASE a.issue # None
      <3>1. b.issue # None /\ IssueObject(p.issue) = IssueObject(q.issue)
        BY <1>1, <1>2, <1>7, <2>2 DEF IssueRead
      <3>2. p.issue = Constructed(a.issue) /\ q.issue = Constructed(b.issue)
        BY <1>1, <1>2, <2>2, <3>1, Zenon
      <3> DEFINE x == a.issue
                 y == b.issue
                 i == p.issue
                 j == q.issue
      <3>3. /\ i.type = x.type /\ i.comment = x.comment
            /\ i.auto = x.auto /\ i.ignore = x.ignore
            /\ j.type = y.type /\ j.comment = y.comment
            /\ j.auto = y.auto /\ j.ignore = y.ignore
        BY <3>2, ConstructedOf, Zenon
      <3>4. /\ DefectText(i.type) = DefectText(j.type)
            /\ i.comment = j.comment /\ i.auto = j.auto /\ i.ignore = j.ignore
        BY <3>1, IssueTells
      <3>5. x.type \in 0 .. 4 /\ y.type \in 0 .. 4
        BY <1>8, <2>2, <3>1
      <3> HIDE DEF x, y, i, j
      <3>6. x.type = y.type
        BY <3>3, <3>4, <3>5, DefectTells
      <3>7. <<x.type, x.comment, x.auto, x.ignore>>
              = <<y.type, y.comment, y.auto, y.ignore>>
        BY <3>3, <3>4, <3>6, Zenon
      <3> QED
        BY <2>2, <3>1, <3>7, Zenon DEF x, y
    <2> QED
      BY <2>1, <2>2
  <1>13. Told(a) = Told(b)
    <2> DEFINE T(x, s, t, i) ==
                   [x EXCEPT !.status = s, !.time = t, !.issue = i]
               s1 == Or(b.status, Inherit)
               t1 == Quotient(b.time, Nanos)
               i1 == kind(b.issue)
    <2>1. Told(b) = T(b, s1, t1, i1)
      BY <1>8 DEF Told
    <2>2. Told(a) = T(a, Or(a.status, Inherit), Quotient(a.time, Nanos),
                      kind(a.issue))
      BY <1>8 DEF Told
    <2> HIDE DEF s1, t1, i1, kind
    <2>3. T(a, s1, t1, i1) = T(b, s1, t1, i1)
      BY <1>8, <1>9
    <2>4. Told(a) = T(a, s1, t1, i1)
      BY <2>2, <1>10, <1>11, <1>12, Zenon DEF s1, t1, i1
    <2> QED
      BY <2>1, <2>3, <2>4
  <1> QED
    BY <1>13 DEF a, b

\* Two entries that are sent as the same object are told the same.
ToldEntry(log) ==
    [log EXCEPT !.time = Quotient(@, Nanos),
                !.attachment = IF @ = None THEN None ELSE <<@.name, @.data>>]

LEMMA EntryTells ==
    ASSUME NEW u \in Batches, NEW v \in Batches,
           NEW i \in DOMAIN u, NEW j \in DOMAIN v,
           NEW l \in Memory, NEW m \in Memory, NEW x, NEW y,
           WholeMinutes(u[i].time), WholeMinutes(v[j].time),
           x.time = ToIso8601(u[i].time), x.launch = u[i].launch,
           x.item = u[i].item, x.message = u[i].message, x.level = u[i].level,
           x.attachment = Attached(u[i].attachment, l),
           y.time = ToIso8601(v[j].time), y.launch = v[j].launch,
           y.item = v[j].item, y.message = v[j].message, y.level = v[j].level,
           y.attachment = Attached(v[j].attachment, m),
           SameObject(LogBody(x), LogBody(y))
    PROVE  ToldEntry(u[i]) = ToldEntry(v[j])
  <1> DEFINE a == u[i]
             b == v[j]
  <1>1. /\ DOMAIN a = {"launch", "time", "item", "message", "level", "attachment"}
        /\ DOMAIN b = DOMAIN a
        /\ a.time \in Instants /\ b.time \in Instants
        /\ a.item # None /\ b.item # None
        /\ a.level \in 0 .. 6 /\ b.level \in 0 .. 6
        /\ Attached(a.attachment, l) = None <=> a.attachment = None
        /\ Attached(b.attachment, m) = None <=> b.attachment = None
    BY ArgsAssumption
  <1>2. /\ x.time = ToIso8601(a.time) /\ x.launch = a.launch
        /\ x.item = a.item /\ x.message = a.message /\ x.level = a.level
        /\ x.attachment = Attached(a.attachment, l)
        /\ y.time = ToIso8601(b.time) /\ y.launch = b.launch
        /\ y.item = b.item /\ y.message = b.message /\ y.level = b.level
        /\ y.attachment = Attached(b.attachment, m)
        /\ WholeMinutes(a.time) /\ WholeMinutes(b.time)
    OBVIOUS
  <1> HIDE DEF a, b
  <1>3. \A n : ReadValues(LogBody(x), n) = ReadValues(LogBody(y), n)
    <2>1. PICK M, V : LogBody(x) \in Bodies(M, V)
      BY LogReads
    <2>2. PICK N, W : LogBody(y) \in Bodies(N, W)
      BY LogReads
    <2> QED
      BY <2>1, <2>2, SameReads
  <1>4. /\ {x.launch} = {y.launch} /\ {x.time} = {y.time}
        /\ UuidRead(x.item) = UuidRead(y.item) /\ {x.message} = {y.message}
        /\ {LevelText(x.level)} = {LevelText(y.level)}
        /\ FileRead(x.attachment) = FileRead(y.attachment)
    BY <1>3, LogReads
  <1>5. a.launch = b.launch /\ a.message = b.message
    BY <1>2, <1>4
  <1>6. a.level = b.level
    <2>1. LevelText(a.level) = LevelText(b.level)
      BY <1>2, <1>4
    <2> QED
      BY <1>1, <2>1, LevelTells
  <1>7. a.item = b.item
    BY <1>1, <1>2, <1>4 DEF UuidRead
  <1>8. Quotient(a.time, Nanos) = Quotient(b.time, Nanos)
    <2>1. ToIso8601(a.time) = ToIso8601(b.time)
      BY <1>2, <1>4
    <2> QED
      BY <1>1, <1>2, <2>1, TextTellsTime
  <1> DEFINE file(f) == IF f = None THEN None ELSE <<f.name, f.data>>
  <1>9. file(a.attachment) = file(b.attachment)
    <2>1. CASE a.attachment = None
      BY <1>1, <1>2, <1>4, <2>1 DEF FileRead
    <2>2. CASE a.attachment # None
      <3>1. /\ b.attachment # None
            /\ FileObject(x.attachment) = FileObject(y.attachment)
        BY <1>1, <1>2, <1>4, <2>2 DEF FileRead
      <3>2. /\ x.attachment.name = a.attachment.name
            /\ x.attachment.data = a.attachment.data
        BY <1>2, <2>2 DEF Attached, AttachmentOf
      <3>3. /\ y.attachment.name = b.attachment.name
            /\ y.attachment.data = b.attachment.data
        BY <1>2, <3>1 DEF Attached, AttachmentOf
      <3>4. /\ x.attachment.name = y.attachment.name
            /\ x.attachment.data = y.attachment.data
        BY <3>1, FileTells
      <3> QED
        BY <2>2, <3>1, <3>2, <3>3, <3>4
    <2> QED
      BY <2>1, <2>2
  <1>10. ToldEntry(a) = ToldEntry(b)
    BY <1>1, <1>5, <1>6, <1>7, <1>8, <1>9 DEF ToldEntry
  <1> QED
    BY <1>10 DEF a, b

LEMMA LogsTell ==
    ASSUME NEW c, NEW d, Wellformed(c), Wellformed(d),
           c.asked.op = "logs", d.asked.op = "logs",
           WholeZones(c), WholeZones(d), SameSent(c.sent, d.sent)
    PROVE  Told(c.asked) = Told(d.asked)
  <1> DEFINE a == c.asked.logs
             b == d.asked.logs
             p == c.args.logs
             q == d.args.logs
  <1>1. PICK l \in Memory :
          /\ a \in Batches /\ c.args.op = "logs" /\ DOMAIN p = DOMAIN a
          /\ \A n \in DOMAIN a :
                /\ p[n].time = ToIso8601(a[n].time)
                /\ p[n].launch = a[n].launch /\ p[n].item = a[n].item
                /\ p[n].message = a[n].message /\ p[n].level = a[n].level
                /\ p[n].attachment = Attached(a[n].attachment, l)
    BY LogsBatched DEF Wellformed
  <1>2. PICK m \in Memory :
          /\ b \in Batches /\ d.args.op = "logs" /\ DOMAIN q = DOMAIN b
          /\ \A n \in DOMAIN b :
                /\ q[n].time = ToIso8601(b[n].time)
                /\ q[n].launch = b[n].launch /\ q[n].item = b[n].item
                /\ q[n].message = b[n].message /\ q[n].level = b[n].level
                /\ q[n].attachment = Attached(b[n].attachment, m)
    BY LogsBatched DEF Wellformed
  <1>0. /\ \A n \in DOMAIN a : WholeMinutes(a[n].time)
        /\ \A n \in DOMAIN b : WholeMinutes(b[n].time)
    <2>1. /\ \A n \in DOMAIN a : <<a[n].time, p[n].time>> \in Times(c)
          /\ \A n \in DOMAIN b : <<b[n].time, q[n].time>> \in Times(d)
      BY DEF Times
    <2> QED
      BY <2>1 DEF WholeZones
  <1> DEFINE r == LogsBody(c.args)
             s == LogsBody(d.args)
  <1>3. /\ c.sent.method = "MIME" /\ c.sent.body = r
        /\ d.sent.method = "MIME" /\ d.sent.body = s
    <2> DEFINE path == <<"", "log">>
    <2>1. /\ c.sent = [method |-> "MIME", path |-> path, body |-> r]
          /\ d.sent = [method |-> "MIME", path |-> path, body |-> s]
      BY <1>1, <1>2, WhatIsSent, Zenon DEF Wellformed
    <2> HIDE DEF path, r, s
    <2> QED
      BY <2>1
  <1>4. /\ DOMAIN r = DOMAIN a /\ \A k \in DOMAIN a : r[k] = LogBody(p[k])
        /\ DOMAIN s = DOMAIN b /\ \A k \in DOMAIN b : s[k] = LogBody(q[k])
    BY <1>1, <1>2 DEF LogsBody
  <1>5. /\ Len(a) \in Nat /\ DOMAIN a = 1 .. Len(a)
        /\ Len(b) \in Nat /\ DOMAIN b = 1 .. Len(b)
    BY <1>1, <1>2, ArgsAssumption
  <1>6. Len(r) = Len(a) /\ Len(s) = Len(b)
    BY <1>4, <1>5 DEF LogsBody
  <1> HIDE DEF r, s, p, q, a, b
  <1>7. Len(r) = Len(s) /\ \A k \in DOMAIN r : SameObject(r[k], s[k])
    BY <1>3 DEF SameSent
  <1>8. DOMAIN a = DOMAIN b
    BY <1>5, <1>6, <1>7
  <1>9. ASSUME NEW k \in DOMAIN a
        PROVE  ToldEntry(a[k]) = ToldEntry(b[k])
    <2>1. SameObject(LogBody(p[k]), LogBody(q[k]))
      BY <1>4, <1>7, <1>8
    <2> QED
      BY <1>0, <1>1, <1>2, <1>8, <2>1, EntryTells
  <1>10. /\ Told(c.asked) = [n \in DOMAIN a |-> ToldEntry(a[n])]
         /\ Told(d.asked) = [n \in DOMAIN b |-> ToldEntry(b[n])]
    BY DEF Told, ToldEntry, a, b
  <1> QED
    BY <1>8, <1>9, <1>10

\* Two calls that send the same request asked for the same, up to what Told
\* leaves out, whatever they are asked with, at all times whose zones are of
\* whole minutes.
THEOREM RequestsTellCalls == Spec => []RequestTellsCall
  <1>1. ASSUME NEW c, NEW d, Wellformed(c), Wellformed(d), SameSent(c.sent, d.sent)
        PROVE  c.asked.op = d.asked.op
    <2> DEFINE p == c.args
               q == d.args
               none == ""
               kind(call) == <<call.sent.method, call.sent.path[1]>>
    <2>1. /\ p.op = c.asked.op /\ q.op = d.asked.op
          /\ p.op \in {"begin_launch", "end_launch", "begin_item", "end_item", "logs"}
          /\ q.op \in {"begin_launch", "end_launch", "begin_item", "end_item", "logs"}
      BY <1>1, WhoMade DEF Wellformed
    <2>2. ASSUME NEW call, Wellformed(call)
          PROVE  /\ call.args.op = "begin_launch" => kind(call) = <<"POST", "launch">>
                 /\ call.args.op = "end_launch" => kind(call) = <<"PUT", "launch">>
                 /\ call.args.op = "begin_item" => kind(call) = <<"POST", "item">>
                 /\ call.args.op = "end_item" => kind(call) = <<"PUT", none>>
                 /\ call.args.op = "logs" => kind(call) = <<"MIME", none>>
      <3> DEFINE x == call.args
      <3> HIDE DEF none
      <3>1. /\ x.op = "begin_launch" => call.sent = [method |-> "POST",
                  path |-> <<"launch">>, body |-> BeginLaunchBody(x)]
            /\ x.op = "end_launch" => call.sent = [method |-> "PUT",
                  path |-> <<"launch", x.uuid, "finish">>, body |-> EndLaunchBody(x)]
            /\ x.op = "begin_item" => call.sent = [method |-> "POST",
                  path |-> BeginItemPath(x.parent), body |-> BeginItemBody(x)]
            /\ x.op = "end_item" => call.sent = [method |-> "PUT",
                  path |-> <<none, "item", x.uuid>>, body |-> EndItemBody(x)]
            /\ x.op = "logs" => call.sent = [method |-> "MIME",
                  path |-> <<none, "log">>, body |-> LogsBody(x)]
        BY <2>2, WhatIsSent, Zenon DEF Wellformed, none
      <3> HIDE DEF x
      <3>2. BeginItemPath(x.parent)[1] = "item"
        BY DEF BeginItemPath
      <3>3. /\ x.op = "begin_launch" => kind(call) = <<"POST", "launch">>
            /\ x.op = "end_launch" => kind(call) = <<"PUT", "launch">>
            /\ x.op = "begin_item" => kind(call) = <<"POST", "item">>
            /\ x.op = "end_item" => kind(call) = <<"PUT", none>>
            /\ x.op = "logs" => kind(call) = <<"MIME", none>>
        BY <3>1, <3>2
      <3> QED
        BY <3>3 DEF x
    <2>3. none # "launch"
      BY Zenon DEF none
    <2>4. kind(c) = kind(d)
      BY <1>1 DEF SameSent
    <2> HIDE DEF none, kind
    <2> QED
      BY <1>1, <2>1, <2>2, <2>3, <2>4
  <1>2. CallsInv => RequestTellsCall
    <2> SUFFICES ASSUME CallsInv, NEW j \in DOMAIN calls, NEW k \in DOMAIN calls,
                        WholeZones(calls[j]), WholeZones(calls[k]),
                        SameSent(calls[j].sent, calls[k].sent)
                 PROVE  Told(calls[j].asked) = Told(calls[k].asked)
      BY DEF RequestTellsCall
    <2> DEFINE c == calls[j]
               d == calls[k]
    <2>1. Wellformed(c) /\ Wellformed(d)
      BY DEF CallsInv
    <2>2. /\ c.asked.op = d.asked.op
          /\ c.asked.op \in {"begin_launch", "end_launch", "begin_item",
                             "end_item", "logs"}
      BY <1>1, <2>1, WhoMade DEF Wellformed
    <2> HIDE DEF c, d
    <2>3. WholeZones(c) /\ WholeZones(d) /\ SameSent(c.sent, d.sent)
      BY DEF c, d
    <2>4. Told(c.asked) = Told(d.asked)
      BY <2>1, <2>2, <2>3, LaunchBeginTells, LaunchEndTells, ItemBeginTells,
         ItemEndTells, LogsTell
    <2> QED
      BY <2>4 DEF c, d
  <1> QED
    BY <1>2, CallsInductive, PTL
=============================================================================
