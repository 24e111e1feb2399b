------------------------------ MODULE MCModeLock ------------------------------
(* Instances of ModeLock for TLC.                                          *)
EXTENDS ModeLock

CONSTANTS u1, u2

TwoUsers   == {u1, u2}

(* Station numbers of the two users, the second is the highest *)
(* number the strong ranges cover (254 in the code, Width - 2 here).       *)
TwoNodes   == [u \in TwoUsers |-> IF u = u1 THEN 0 ELSE Width - 2]

AllModes  == LockMode

=============================================================================
