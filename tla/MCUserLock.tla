----------------------------- MODULE MCUserLock -----------------------------
(* The lock of one user shared by a flushed batch, the poller and a        *)
(* consolidation run, whose ttl is the longest (180, 180 and 600 seconds   *)
(* in the code, scaled to 2, 2 and 3 ticks).                               *)
EXTENDS UserLock, TLC

CONSTANTS batch, poller, sleeper, k1, k2, k3, k4

MCClient == {batch, poller, sleeper}
MCToken == {k1, k2, k3, k4}
MCTtlOf == [c \in MCClient |-> IF c = sleeper THEN 3 ELSE 2]
=============================================================================
