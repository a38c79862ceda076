-------------------------------- MODULE MCLimiter --------------------------------
(***************************************************************************)
(* Two processes that share the limiter's state file, one of them with two   *)
(* tasks: small windows, budgets and pauses with the order of the real ones   *)
(* (the gap below the timeout, the timeout below the longest window, and a     *)
(* recovery pause that outlives every window).                                 *)
(***************************************************************************)
EXTENDS Limiter, TLC

CONSTANTS t1, t2, u

TwoProcesses == (t1 :> "p") @@ (t2 :> "p") @@ (u :> "q")
Interchangeable == Permutations({t1, t2})
Requests == {<<4, 2>>}
Commands == {<<4, 1>>}
==================================================================================
