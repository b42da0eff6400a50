----------------------------- MODULE Durations -----------------------------
(***************************************************************************)
(* The integers of Go that the notification records are computed with.  An *)
(* interval between notifications is an int32 number of hours, and a       *)
(* time.Duration is an int64 of nanoseconds; both wrap around, the second  *)
(* after fewer hours than the first can hold.                              *)
(***************************************************************************)
EXTENDS Integers

CONSTANTS
    Int32Half,    \* an int32 lies in -Int32Half .. Int32Half - 1
    DurationHalf  \* a Duration lies in -DurationHalf .. DurationHalf - 1 hours

ASSUME WidthsAssumption ==
    Int32Half \in Nat \ {0} /\ DurationHalf \in 1..Int32Half

Int32s == (-Int32Half)..(Int32Half - 1)

Int32(x) == ((x + Int32Half) % (2 * Int32Half)) - Int32Half

\* time.Duration(x) * time.Hour, in hours.
Hours(x) == ((x + DurationHalf) % (2 * DurationHalf)) - DurationHalf

=============================================================================
