-------------------------------- MODULE Days --------------------------------
(***************************************************************************)
(* The arithmetic of work sessions (app/modules/attendance/service.py).  A *)
(* moment is a number of time units of the business time zone.             *)
(***************************************************************************)
EXTENDS Integers

CONSTANTS
    DayLength,      \* units of a day (24 hours)
    Cap,            \* units of the longest session (MAX_SESSION_HOURS)
    CloseAt         \* unit of the day a forgotten session is closed at (23:50)

ASSUME DayConstants ==
    /\ DayLength \in Nat \ {0}
    /\ Cap \in 1..(DayLength - 1)
    /\ CloseAt \in 1..(DayLength - 1)

NoTime == -1

Earlier(x, y) == IF x <= y THEN x ELSE y
Later(x, y) == IF x <= y THEN y ELSE x
DayOf(x) == x \div DayLength
StartOf(d) == d * DayLength

\* Mutant: only the clock-out is capped, not the forgotten session.
Uncapped(in, out) == out

CappedOut(in, out) == Earlier(out, in + Cap)

\* When the session begun at in, forgotten on the day d, is closed.
ForgottenOut(in, d) == CappedOut(in, StartOf(d) + CloseAt)

\* A session split at midnight: the days it touches, and its part on each.
SegmentDays(in, out) ==
    {d \in DayOf(in)..DayOf(out) : StartOf(d) < out}
SegmentIn(in, d) == Later(in, StartOf(d))
SegmentOut(out, d) == Earlier(out, StartOf(d + 1))
=============================================================================
