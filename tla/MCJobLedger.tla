---------------------------- MODULE MCJobLedger ----------------------------
(***************************************************************************)
(* JobLedger on small instances, with backoff_for tabulated.               *)
(***************************************************************************)
EXTENDS JobLedger, TLC

CONSTANTS BackoffBase, BackoffFactor, MaxBackoff

\* JobSpec.backoff_for, capped.
BackoffFor(attempt) ==
    LET delay == BackoffBase * BackoffFactor^(attempt - 1)
    IN  IF delay < MaxBackoff THEN delay ELSE MaxBackoff

MCBackoff == [n \in 1..MaxAttempts |-> BackoffFor(n)]

LedgerSymmetry == Permutations(Workers) \cup Permutations(Jobs)
=============================================================================
