------------------------------- MODULE MCCharging -------------------------------
(* Instances of Charging for TLC: short days in a short week. *)
EXTENDS Charging

Wish(from, to, days, end) == [from |-> from, to |-> to, days |-> days, end |-> end]

\* Over midnight and within a day, one time and on a day, to a time and to the limit.
SomeAsked == {Wish(3, 1, {}, "time"), Wish(1, 3, {1}, "time"), Wish(2, 2, {}, "limit"), Wish(3, 2, {0}, "limit")}
SomeAppWindows == {Wish(0, 1, {}, "time"), Wish(2, 1, {0, 1}, "time"), Wish(3, 2, {}, "limit")}
=================================================================================
