-------------------------------- MODULE MCJobs --------------------------------
(* The instance: a sweep that repeats, a refund under its booking's key,  *)
(* and a message without a key that this build has no handler for.         *)
EXTENDS Jobs

CONSTANTS r1, r2
=============================================================================
