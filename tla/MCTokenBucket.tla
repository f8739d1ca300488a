---------------------------- MODULE MCTokenBucket ----------------------------
(* Small instance of TokenBucket: its cfg has two sessions and a clock of    *)
(* two and a half seconds, enough for a full burst, a refill to the cap and  *)
(* a second burst.                                                           *)
EXTENDS TokenBucket
=============================================================================
