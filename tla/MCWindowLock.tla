---------------------------- MODULE MCWindowLock ----------------------------
(* Instances of WindowLock for TLC. *)
EXTENDS WindowLock, TLC

CONSTANTS a, b, c, d

\* Every process has a pid of its own ...
OwnPid == [p \in Proc |-> p]

Starters == Permutations(Proc \ Leftover)
=============================================================================
