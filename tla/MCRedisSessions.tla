--------------------------- MODULE MCRedisSessions ---------------------------
(***************************************************************************)
(* The instance of the sessions that TLC checks: two requests of one       *)
(* browser, each of which comes again and again, and what they may make    *)
(* and store.  The ids are made in a fixed order, so only the requests     *)
(* can be exchanged.                                                       *)
(***************************************************************************)
EXTENDS RedisSessions, TLC

CONSTANTS r1, r2, i1, i2, v1

RequestSymmetry == Permutations(Requests)
==============================================================================
