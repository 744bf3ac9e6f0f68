---------------------------- MODULE MCRateLimiter ----------------------------
(***************************************************************************)
(* A small instance of RateLimiter: limits of 2 and 1 stand for the 30 and *)
(* the 5 of the router, a window of 3 seconds for its minute.              *)
(***************************************************************************)
EXTENDS RateLimiter, TLC

CONSTANTS ip1, ip2, r1, r2, r3

TwoLimits == [auth |-> 2, profile |-> 1]
AllFaults == FaultKinds
=============================================================================
