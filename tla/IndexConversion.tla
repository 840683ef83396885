--------------------------- MODULE IndexConversion ---------------------------
(***************************************************************************)
(* IndexConversion.hpp: which index of a flow belongs to a point in time,  *)
(* and when an index is due.  A rate is a rational number of grains or     *)
(* samples per second; time is counted in ticks, Second of them a second   *)
(* (1,000,000,000 nanoseconds in the code).  The products are computed     *)
(* with 128 bits, nothing overflows.                                       *)
(***************************************************************************)
EXTENDS Integers

CONSTANT Second

ASSUME SecondAssumption == Second \in Nat \ {0} /\ Second % 2 = 0

ValidRates == [num : Nat \ {0}, den : Nat \ {0}]

(* The conversion that cuts off what it should round.                      *)
TimestampToIndex_Truncated(rate, t) == (t * rate.num) \div (Second * rate.den)

TimestampToIndex(rate, t) ==
    (t * rate.num + (Second \div 2) * rate.den) \div (Second * rate.den)

IndexToTimestamp(rate, i) ==
    (i * rate.den * Second + rate.num \div 2) \div rate.num

(* mxlGetNsUntilIndex: how long it is until index i is due.                *)
TimeUntilIndex(rate, i, now) ==
    LET due == IndexToTimestamp(rate, i) IN IF due >= now THEN due - now ELSE 0

=============================================================================
