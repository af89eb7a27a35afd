---------------------------- MODULE MCRateLimiter ----------------------------
(* RateLimiter for TLC: the constants are in the .cfg files.                *)
EXTENDS RateLimiter
=============================================================================
