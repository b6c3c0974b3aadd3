--------------------------- MODULE MCDurableJobs ---------------------------
(* Instances of DurableJobs for TLC. *)
EXTENDS DurableJobs, TLC

\* The default backoff doubles from one second up to five minutes; a tick is
\* coarser, so the cap is reached at once.
MCRetryDelay == [n \in 1..MaxAttempts |-> 1]
MCSymmetry == Permutations(Tokens) \cup Permutations(Workers)
=============================================================================
