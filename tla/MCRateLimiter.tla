--------------------------- MODULE MCRateLimiter ----------------------------
(* RateLimiter for TLC: the constants are given in the cfg.                 *)
EXTENDS RateLimiter
=============================================================================
