----------------------------- MODULE Timestamp -----------------------------
(***************************************************************************)
(* The times a program reports: to_iso_8601 of rapidjson_serializer.cpp    *)
(* and the check service.cpp makes before it.  A time_point is a number of *)
(* ticks since the epoch.  What is printed is a record: the date and time  *)
(* of day (as the second they would be in UTC), the digits behind the      *)
(* point, and the zone, of which %z prints the hours and the minutes and   *)
(* leaves out the seconds.                                                 *)
(***************************************************************************)
EXTENDS Integers

CONSTANTS
    Minute,     \* seconds in a minute (60)
    Micros,     \* microseconds in a second (10^6)
    Nanos,      \* ticks of system_clock in a microsecond (1000)
    Word,       \* how many values a uint64_t has (2^64)
    Seconds,    \* the seconds std::localtime is asked about
    Offset,     \* the local zone: seconds ahead of UTC, at each second
    Instants    \* the time_points the user passes

Ticks == Micros * Nanos

\* Integer division of C++: towards zero.
Quotient(a, b) == IF a >= 0 THEN a \div b ELSE - ((- a) \div b)

\* system_clock::to_time_t.
ToTimeT(t) == Quotient(t, Ticks)

\* A uint64_t holds the microseconds of a second and the complement of as
\* many: a fraction that wrapped around is none that did not.
ASSUME ClockAssumption ==
    /\ Minute \in Nat \ {0} /\ Micros \in Nat \ {0} /\ Nanos \in Nat \ {0}
    /\ Word \in Nat /\ Word >= 2 * Micros

ASSUME ZoneAssumption ==
    /\ Seconds \subseteq Int
    /\ Offset \in [Seconds -> Int]
    /\ Instants \subseteq Int
    /\ \A t \in Instants : ToTimeT(t) \in Seconds

-----------------------------------------------------------------------------
\* Mutation: the ticks beyond the second, not converted to microseconds.
DeltaTicks(t) == (t - ToTimeT(t) * Ticks) % Word

\* The distance to the truncated time, in microseconds, in a uint64_t.
DeltaUs(t) == Quotient(t - ToTimeT(t) * Ticks, Nanos) % Word

ToIso8601(t) ==
    [local    |-> ToTimeT(t) + Offset[ToTimeT(t)],
     fraction |-> DeltaUs(t),
     zone     |-> Quotient(Offset[ToTimeT(t)], Minute)]

\* Mutation: an invalid time is sent all the same.
AlwaysValid(t) == TRUE

IsValidTime(t) == t > 0

\* The zone of an instant prints whole: it is one of whole minutes, as every
\* zone is today, and Africa/Monrovia was not before 1972.
WholeMinutes(t) == Offset[ToTimeT(t)] % Minute = 0

\* The instant a printed text stands for, in microseconds.
Denoted(text) == (text.local - text.zone * Minute) * Micros + text.fraction
=============================================================================
