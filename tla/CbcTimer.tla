------------------------------ MODULE CbcTimer ------------------------------
(***************************************************************************)
(* The RTC timer of the IOC, cbc_timer_format in cbc_lifecycle.c: a number *)
(* of seconds as a 16-bit count of seconds, minutes, hours, days or weeks. *)
(***************************************************************************)
EXTENDS Integers

CONSTANTS
    MaxField,   \* the greatest count, 0xFFFF
    Scales,     \* from each unit to the next: 60, 60, 24, 7
    Byte,       \* the number of values of a byte
    IntWidth    \* the number of values of an int, 2^32

ASSUME MaxFieldAssumption == MaxField \in Nat
ASSUME ScalesAssumption   == Scales \in [1..4 -> Nat \ {0}]
ASSUME ByteAssumption     == Byte \in Nat \ {0} /\ MaxField < Byte * Byte
ASSUME IntWidthAssumption == IntWidth \in Nat \ {0, 1}

Grans == 0..4

\* delta in the unit of each granularity: every division rounds down again.
Count(delta, gran) ==
    LET minutes == delta \div Scales[1]
        hours   == minutes \div Scales[2]
        days    == hours \div Scales[3]
        weeks   == days \div Scales[4]
    IN  <<delta, minutes, hours, days, weeks>>[gran + 1]

\* The unit of each granularity, in seconds.
Unit(gran) ==
    LET hour == Scales[1] * Scales[2]
        day  == hour * Scales[3]
        week == day * Scales[4]
    IN  <<1, Scales[1], hour, day, week>>[gran + 1]

\* Not in the past, and not too far in the future even in weeks.
Supported(delta) == delta >= 1 /\ Count(delta, 4) <= MaxField

\* The finest unit the count fits in.
Fits(delta, g) == Count(delta, g) <= MaxField

Gran(delta) == CHOOSE g \in Grans : /\ Fits(delta, g)
                                    /\ \A h \in 0..(g - 1) : ~Fits(delta, h)

\* The bytes of the frame sent to the IOC, with the timer in them.
Frame(delta) ==
    LET gran  == Gran(delta)
        count == Count(delta, gran)
    IN  [lo |-> count % Byte, hi |-> (count \div Byte) % Byte, gran |-> gran]

\* What the IOC makes of such a frame: a count of units.
FrameCount(f) == f.lo + Byte * f.hi

\* f wakes no later than after t seconds, and less than a unit before.
Wakes(f, t) == LET s == FrameCount(f) * Unit(f.gran)
               IN  s <= t /\ t < s + Unit(f.gran)

\* A time_t assigned to an int.
ToInt(t) == ((t + IntWidth \div 2) % IntWidth) - IntWidth \div 2
IsInt(t) == t < IntWidth \div 2
=============================================================================
