---------------------------- MODULE TimeManager ----------------------------
(***************************************************************************)
(* Conversions between real seconds and the whole seconds of a Duration    *)
(* (config_src/infra/MOM_time_manager.cpp).  A real number of seconds is   *)
(* an integer number of ticks here, a thousand to the second, so that the  *)
(* halves and the floors on both sides of zero are exact.                  *)
(***************************************************************************)
EXTENDS Integers

TicksPerSecond == 1000

TicksPerDay == 86400 * TicksPerSecond

\* std::llround of a remainder in [0, 1) seconds: a half goes up.
RoundRemainder(r) == IF 2 * r >= TicksPerSecond THEN 1 ELSE 0

\* Mutant of RealToTime: the days are truncated toward zero, as an integer
\* conversion without the floor does.
RealToTimeTruncates(x) ==
    LET days == IF x >= 0 THEN x \div TicksPerDay ELSE -((-x) \div TicksPerDay)
        inDay == x - TicksPerDay * days
        seconds == IF inDay >= 0 THEN inDay \div TicksPerSecond
                   ELSE -((-inDay) \div TicksPerSecond)
    IN  86400 * days + seconds + RoundRemainder(inDay - TicksPerSecond * seconds)

\* real_to_time: floor to days, floor the rest to seconds, round what is left.
RealToTime(x) ==
    LET days == x \div TicksPerDay
        inDay == x - TicksPerDay * days
        seconds == inDay \div TicksPerSecond
    IN  86400 * days + seconds + RoundRemainder(inDay - TicksPerSecond * seconds)

TimeToReal(t) == TicksPerSecond * t

-----------------------------------------------------------------------------
Distance(x, y) == IF x >= y THEN x - y ELSE y - x

(* No whole second is nearer to x than the one real_to_time returns, on    *)
(* either side of zero and of a day's end.                                 *)
IsNearestSecond(x) == 2 * Distance(x, TimeToReal(RealToTime(x))) <= TicksPerSecond
=============================================================================
