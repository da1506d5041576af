---------------------------- MODULE MCRateLimiter ----------------------------
(***************************************************************************)
(* TLC instance of RateLimiter: a local program and a remote client.       *)
(***************************************************************************)
EXTENDS RateLimiter

=============================================================================
