--------------------------- MODULE CbcTimerProofs ---------------------------
(***************************************************************************)
(* cbc_timer_format, for every limit, every scale and every time: the frame*)
(* it makes wakes the machine no later than asked for, and less than one   *)
(* of its units before.                                                    *)
(***************************************************************************)
EXTENDS CbcTimer, TLAPS

\* x is the number of whole units of u in t.
Whole(x, u, t) == x * u <= t /\ t < x * u + u

LEMMA DivFacts ==
  ASSUME NEW x \in Nat, NEW k \in Nat \ {0}
  PROVE  /\ x \div k \in Nat /\ x % k \in 0..(k - 1)
         /\ x = k * (x \div k) + (x % k)
OBVIOUS

LEMMA ProductMonotone ==
  ASSUME NEW a \in Nat, NEW b \in Nat, NEW u \in Nat, a <= b
  PROVE  a * u <= b * u
<1> DEFINE c == b - a
<1>1. c \in Nat /\ b = a + c
  OBVIOUS
<1>2. (a + c) * u = a * u + c * u
  BY <1>1
<1>3. c * u >= 0
  BY <1>1
<1> HIDE DEF c
<1> QED
  BY <1>1, <1>2, <1>3

\* Dividing again, and rounding down again, counts the greater units: what was
\* rounded off before does not matter.
LEMMA DivideAgain ==
  ASSUME NEW x \in Nat, NEW k \in Nat \ {0}, NEW u \in Nat \ {0}, NEW t \in Nat,
         Whole(x, u, t)
  PROVE  Whole(x \div k, u * k, t)
<1> DEFINE q == x \div k
           r == x % k
<1>1. q \in Nat /\ r \in 0..(k - 1) /\ x = k * q + r
  BY DivFacts
<1> HIDE DEF q, r
<1>2. q * (u * k) = (k * q) * u
  BY <1>1
<1>3. (k * q) * u <= x * u
  BY <1>1, ProductMonotone
<1>4. (x + 1) * u <= (k * q + k) * u
  BY <1>1, ProductMonotone
<1>5. (k * q + k) * u = q * (u * k) + u * k
  BY <1>1
<1>6. (x + 1) * u = x * u + u
  OBVIOUS
<1>7. /\ q * (u * k) \in Nat /\ u * k \in Nat /\ x * u \in Nat /\ (k * q) * u \in Nat
      /\ (x + 1) * u \in Nat /\ (k * q + k) * u \in Nat
  BY <1>1
<1> QED
  BY <1>2, <1>3, <1>4, <1>5, <1>6, <1>7 DEF q, Whole

LEMMA ScalesPositive == \A i \in 1..4 : Scales[i] \in Nat \ {0}
BY ScalesAssumption

LEMMA ProductPositive ==
  ASSUME NEW a \in Nat \ {0}, NEW b \in Nat \ {0}
  PROVE  a * b \in Nat \ {0}
OBVIOUS

\* Every granularity counts whole units of its own.
LEMMA CountsWhole ==
  ASSUME NEW t \in Nat, NEW g \in Grans
  PROVE  /\ Count(t, g) \in Nat /\ Unit(g) \in Nat \ {0}
         /\ Whole(Count(t, g), Unit(g), t)
<1> DEFINE minutes == t \div Scales[1]
           hours   == minutes \div Scales[2]
           days    == hours \div Scales[3]
           weeks   == days \div Scales[4]
           hour    == Scales[1] * Scales[2]
           day     == hour * Scales[3]
           week    == day * Scales[4]
<1>0. /\ Scales[1] \in Nat \ {0} /\ Scales[2] \in Nat \ {0}
      /\ Scales[3] \in Nat \ {0} /\ Scales[4] \in Nat \ {0}
  BY ScalesPositive
<1>1. Whole(t, 1, t)
  BY DEF Whole
<1>2. minutes \in Nat /\ Whole(minutes, 1 * Scales[1], t)
  <2>1. minutes \in Nat
    BY <1>0, DivFacts
  <2>2. 1 \in Nat \ {0}
    OBVIOUS
  <2>3. \A k \in Nat \ {0} : Whole(t \div k, 1 * k, t)
    BY <1>1, <2>2, DivideAgain
  <2> QED
    BY <1>0, <2>1, <2>3
<1>3. Whole(minutes, Scales[1], t)
  <2>1. 1 * Scales[1] = Scales[1]
    BY <1>0
  <2> QED
    BY <1>2, <2>1
<1> HIDE DEF minutes
<1>4. hours \in Nat /\ hour \in Nat \ {0} /\ Whole(hours, hour, t)
  <2>1. hour \in Nat \ {0}
    BY <1>0, ProductPositive
  <2>2. hours \in Nat
    BY <1>0, <1>2, DivFacts
  <2> QED
    BY <1>0, <1>2, <1>3, <2>1, <2>2, DivideAgain
<1> HIDE DEF hours, hour
<1>5. days \in Nat /\ day \in Nat \ {0} /\ Whole(days, day, t)
  <2>1. day \in Nat \ {0}
    BY <1>0, <1>4, ProductPositive
  <2>2. days \in Nat
    BY <1>0, <1>4, DivFacts
  <2> QED
    BY <1>0, <1>4, <2>1, <2>2, DivideAgain
<1> HIDE DEF days, day
<1>6. weeks \in Nat /\ week \in Nat \ {0} /\ Whole(weeks, week, t)
  <2>1. week \in Nat \ {0}
    BY <1>0, <1>5, ProductPositive
  <2>2. weeks \in Nat
    BY <1>0, <1>5, DivFacts
  <2> QED
    BY <1>0, <1>5, <2>1, <2>2, DivideAgain
<1> HIDE DEF weeks, week
<1>7. Count(t, g) = <<t, minutes, hours, days, weeks>>[g + 1]
  BY DEF Count, minutes, hours, days, weeks
<1>8. Unit(g) = <<1, Scales[1], hour, day, week>>[g + 1]
  BY DEF Unit, hour, day, week
<1>9. g \in {0, 1, 2, 3, 4}
  BY DEF Grans
<1>10. CASE g = 0
  BY <1>1, <1>7, <1>8, <1>10
<1>11. CASE g = 1
  BY <1>0, <1>2, <1>3, <1>7, <1>8, <1>11
<1>12. CASE g = 2
  BY <1>4, <1>7, <1>8, <1>12
<1>13. CASE g = 3
  BY <1>5, <1>7, <1>8, <1>13
<1>14. CASE g = 4
  BY <1>6, <1>7, <1>8, <1>14
<1> QED
  BY <1>9, <1>10, <1>11, <1>12, <1>13, <1>14

\* A time that is supported has a finest unit it fits in.
LEMMA GranFits ==
  ASSUME NEW t \in Nat, Supported(t)
  PROVE  Gran(t) \in Grans /\ Fits(t, Gran(t))
<1> DEFINE Finest(g) == Fits(t, g) /\ \A h \in 0..(g - 1) : ~Fits(t, h)
<1>1. Fits(t, 4)
  BY DEF Supported, Fits
<1>2. \E g \in Grans : Finest(g)
  <2>1. CASE Fits(t, 0)
    BY <2>1 DEF Grans
  <2>2. CASE ~Fits(t, 0) /\ Fits(t, 1)
    BY <2>2 DEF Grans
  <2>3. CASE ~Fits(t, 0) /\ ~Fits(t, 1) /\ Fits(t, 2)
    <3>1. \A h \in 0..1 : h = 0 \/ h = 1
      OBVIOUS
    <3> QED
      BY <2>3, <3>1 DEF Grans
  <2>4. CASE ~Fits(t, 0) /\ ~Fits(t, 1) /\ ~Fits(t, 2) /\ Fits(t, 3)
    <3>1. \A h \in 0..2 : h = 0 \/ h = 1 \/ h = 2
      OBVIOUS
    <3> QED
      BY <2>4, <3>1 DEF Grans
  <2>5. CASE ~Fits(t, 0) /\ ~Fits(t, 1) /\ ~Fits(t, 2) /\ ~Fits(t, 3)
    <3>1. \A h \in 0..3 : h = 0 \/ h = 1 \/ h = 2 \/ h = 3
      OBVIOUS
    <3> QED
      BY <1>1, <2>5, <3>1 DEF Grans
  <2> QED
    BY <2>1, <2>2, <2>3, <2>4, <2>5
<1>3. Gran(t) = CHOOSE g \in Grans : Finest(g)
  BY DEF Gran
<1> QED
  BY <1>2, <1>3

\* A count that fits comes back from its two bytes.
LEMMA BytesOfCount ==
  ASSUME NEW c \in Nat, c <= MaxField
  PROVE  /\ c % Byte \in 0..(Byte - 1) /\ (c \div Byte) % Byte \in 0..(Byte - 1)
         /\ (c % Byte) + Byte * ((c \div Byte) % Byte) = c
<1>0. Byte \in Nat \ {0} /\ c < Byte * Byte
  BY ByteAssumption, MaxFieldAssumption
<1> DEFINE q == c \div Byte
           r == c % Byte
<1>1. q \in Nat /\ r \in 0..(Byte - 1) /\ c = Byte * q + r
  BY <1>0, DivFacts
<1> HIDE DEF q, r
<1>2. q < Byte
  <2>1. SUFFICES ASSUME Byte <= q PROVE FALSE
    BY <1>0, <1>1
  <2>2. Byte * Byte <= q * Byte
    BY <1>0, <1>1, <2>1, ProductMonotone
  <2>3. q * Byte = Byte * q
    BY <1>0, <1>1
  <2>4. Byte * Byte \in Nat /\ Byte * q \in Nat
    BY <1>0, <1>1
  <2> QED
    BY <1>0, <1>1, <2>2, <2>3, <2>4
<1>3. q % Byte = q
  BY <1>0, <1>1, <1>2
<1> QED
  BY <1>0, <1>1, <1>3 DEF q, r

\* What the IOC makes of the frame is the count, and its fields are in range.
LEMMA FrameHoldsCount ==
  ASSUME NEW t \in Nat, Supported(t)
  PROVE  /\ FrameCount(Frame(t)) = Count(t, Gran(t)) /\ Frame(t).gran = Gran(t)
         /\ Frame(t) \in [lo : 0..(Byte - 1), hi : 0..(Byte - 1), gran : Grans]
<1> DEFINE c == Count(t, Gran(t))
<1>1. Gran(t) \in Grans /\ c \in Nat /\ c <= MaxField
  BY GranFits, CountsWhole DEF Fits
<1> HIDE DEF c
<1>2. Frame(t) = [lo |-> c % Byte, hi |-> (c \div Byte) % Byte, gran |-> Gran(t)]
  BY DEF Frame, c
<1> QED
  BY <1>1, <1>2, BytesOfCount DEF FrameCount, c

\* A timer that is accepted wakes the machine no later than asked for, and less
\* than one unit of the frame before, however often the count was rounded.
THEOREM TimersRoundDown ==
  ASSUME NEW t \in Nat, Supported(t)
  PROVE  Wakes(Frame(t), t)
<1>1. Gran(t) \in Grans
  BY GranFits
<1> QED
  BY <1>1, FrameHoldsCount, CountsWhole DEF Wakes, Whole

\* A number of seconds that fits in an int is not changed by the conversion.
LEMMA ToIntKeeps ==
  ASSUME NEW t \in Nat, IsInt(t)
  PROVE  ToInt(t) = t
<1> DEFINE half == IntWidth \div 2
<1>1. IntWidth \in Nat \ {0} /\ half \in Nat /\ half + half <= IntWidth
  BY IntWidthAssumption
<1>2. t + half \in 0..(IntWidth - 1)
  BY <1>1 DEF IsInt
<1> HIDE DEF half
<1>3. (t + half) % IntWidth = t + half
  BY <1>1, <1>2
<1> QED
  BY <1>1, <1>3 DEF ToInt, half
=============================================================================
