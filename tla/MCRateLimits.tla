---------------------------- MODULE MCRateLimits ----------------------------
(* The instance TLC checks: its constants are model values and numbers. *)
EXTENDS RateLimits
=============================================================================
