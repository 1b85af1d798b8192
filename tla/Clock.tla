--------------------------------- MODULE Clock ---------------------------------
(***************************************************************************)
(* The time of day, kernel/time/time.c: get_time_string's conversion of the *)
(* 64-bit count of ticks (100 MHz, in two words) to hours, minutes and      *)
(* seconds.  A pure function, so there is nothing for TLC to explore, and   *)
(* its words exceed TLC's integers: its facts are in LibraryProof.         *)
(***************************************************************************)
EXTENDS Integers

Word  == 4294967296
Ticks == 100000000

\* The count divided by 256, as A * Word + B; 390625 ticks of it are a second.
A(high) == high \div 256
B(high, low) == low \div 256 + 16777216 * (high % 256)

Second(high, low) ==
    LET second == A(high) % 390625
    IN  (((second * 10995) % Word) + (((second * 45421) % Word) % 390625)
            + (B(high, low) \div 390625)) % Word

TimeOfDay(high, low) ==
    LET second == Second(high, low)  minute == second \div 60
    IN  [hour |-> (minute \div 60) % 24, minute |-> minute % 60, second |-> second % 60]
================================================================================
