---------------------------- MODULE MCConnection ----------------------------
EXTENDS Connection, TLC

CONSTANTS s1, s2, MaxErrors, MaxAttempts

(* Each limit of 10 is scaled to MaxErrors, and the limit of 3            *)
(* authentication attempts to MaxAttempts: limits are met and exceeded.    *)
MCLimit == [k \in Counters |-> IF k = "authenticationAttempts" THEN MaxAttempts ELSE MaxErrors]
MCSymmetry == Permutations(Slots)
=============================================================================
