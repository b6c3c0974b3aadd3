------------------------------ MODULE JobQueue ------------------------------
(***************************************************************************)
(* What the durable job table promises, without clocks, retries counts,    *)
(* batches or statements: a job is worked on by holders, the latest of     *)
(* which is the only one whose report counts.  A holder may disappear, be  *)
(* superseded, or learn late that it was; none of that changes the job.    *)
(***************************************************************************)

CONSTANTS
  Jobs,        \* the jobs
  Protected,   \* jobs that mirror a committed write: never withdrawn or given up
  Unreadable,  \* those of them that no holder can read: they may fail
  Holders,     \* identities under which a job is worked on
  Nobody,      \* the job has no holder
  Nothing      \* the holder works on no job

VARIABLES
  status,      \* status[j]: where job j is in its life
  holder,      \* holder[j]: whose report on j counts
  active       \* active[h]: the job h is working on

vars == <<status, holder, active>>

Settled == {"succeeded", "failed", "cancelled"}
Status == {"absent", "pending", "running"} \cup Settled

Init ==
  /\ status = [j \in Jobs |-> "absent"]
  /\ holder = [j \in Jobs |-> Nobody]
  /\ active = [h \in Holders |-> Nothing]

Submit(j) ==
  /\ status[j] = "absent"
  /\ status' = [status EXCEPT ![j] = "pending"]
  /\ UNCHANGED <<holder, active>>

(* h becomes the holder of j, whether j was waiting or held by another. *)
Grant(h, j) ==
  /\ status[j] \in {"pending", "running"}
  /\ active[h] = Nothing
  /\ \A k \in Jobs : holder[k] # h
  /\ status' = [status EXCEPT ![j] = "running"]
  /\ holder' = [holder EXCEPT ![j] = h]
  /\ active' = [active EXCEPT ![h] = j]

(* The holder of j reports: done, failed for good, or to be tried again. *)
Report(h, j, s) ==
  /\ active[h] = j
  /\ holder[j] = h
  /\ s \in {"succeeded", "failed", "pending"}
  /\ j \in Protected \ Unreadable => s # "failed"
  /\ status' = [status EXCEPT ![j] = s]
  /\ holder' = [holder EXCEPT ![j] = Nobody]
  /\ active' = [active EXCEPT ![h] = Nothing]

(* Holders stop without a report that counts. *)
Vanish(H) ==
  /\ active' = [h \in Holders |-> IF h \in H THEN Nothing ELSE active[h]]
  /\ UNCHANGED <<status, holder>>

Resign(S, s) ==
  /\ S \cap Protected = {}
  /\ status' = [j \in Jobs |-> IF j \in S THEN s ELSE status[j]]
  /\ holder' = [j \in Jobs |-> IF j \in S THEN Nobody ELSE holder[j]]
  /\ UNCHANGED active

(* Jobs whose holder is given up are failed. *)
GiveUp(S) ==
  /\ \A j \in S : status[j] = "running"
  /\ Resign(S, "failed")

Withdraw(j) ==
  /\ status[j] \in {"pending", "running"}
  /\ Resign({j}, "cancelled")

Rearm(j) ==
  /\ status[j] = "failed"
  /\ status' = [status EXCEPT ![j] = "pending"]
  /\ UNCHANGED <<holder, active>>

Discard(S) ==
  /\ \A j \in S : status[j] \in Settled
  /\ \A j \in S \cap Protected : status[j] = "succeeded"
  /\ status' = [j \in Jobs |-> IF j \in S THEN "absent" ELSE status[j]]
  /\ UNCHANGED <<holder, active>>

Next ==
  \/ \E j \in Jobs : Submit(j) \/ Withdraw(j) \/ Rearm(j)
  \/ \E h \in Holders, j \in Jobs : Grant(h, j)
  \/ \E h \in Holders, j \in Jobs, s \in Status : Report(h, j, s)
  \/ \E H \in SUBSET Holders : Vanish(H)
  \/ \E S \in SUBSET Jobs : GiveUp(S) \/ Discard(S)

Spec == Init /\ [][Next]_vars
=============================================================================
