------------------------------ MODULE MCTimer ------------------------------
(* A timer of 20 clocks in a second, 60 units: a tick of divisor 6 is six      *)
(* clocks and two thirds, of 8 and 9 ten clocks.  8 and 9 leave time for the    *)
(* handlers, the smaller ones lose ticks.                                      *)
EXTENDS Timer

AllDivisors == {0, 6, 8, 10}
AllFrequencies == {0, 1, 2, 3, 21}
SomeReloads == {2, 11}
SomeSleeps == {0, 1, 31, 59}
=============================================================================
