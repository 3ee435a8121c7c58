---------------------------- MODULE MCRateLimiter ----------------------------
(* RateLimiter for model checking: the instances are in the .cfg files.     *)
EXTENDS RateLimiter
=============================================================================
