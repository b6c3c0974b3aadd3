--------------------------- MODULE MCDurableRaces ---------------------------
(* The kinds of row explored apart, in one run, under two workers and three *)
(* tokens: `submits`, chosen once, is the set of the jobs that are ever     *)
(* submitted.  Where the job is an ordinary one at most two executions are  *)
(* under way at a time, the holder's and a late one.                        *)
EXTENDS MCDurableJobs

VARIABLE submits

MCInit == Init /\ submits \in {{job} : job \in Jobs}
MCNext ==
    /\ Next
    /\ UNCHANGED submits
    /\ \A job \in Jobs \ submits : row'[job] = NoRow
    /\ submits \subseteq Retained \/ Cardinality({t \in Tokens : exec'[t] # NoClaim}) <= 2
MCSpec == MCInit /\ [][MCNext]_<<vars, submits>>
=============================================================================
