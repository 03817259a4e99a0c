--------------------------- MODULE MCRateLimiter ---------------------------
(***************************************************************************)
(* A small instance of RateLimiter for TLC.                                *)
(***************************************************************************)
EXTENDS RateLimiter

\* The auth limiter allows less than the general one, as in config.Load.
FewLogins == [l \in Limiters |-> IF l = "auth" THEN 1 ELSE 2]
=============================================================================
