--------------------------- MODULE MCDurableLive ---------------------------
(* Which of the jobs are ever submitted is chosen once: one of them, with   *)
(* every fault and operator, or an ordinary and a readable storage job      *)
(* beside each other, of which one is claimed at a time.  Beside each other *)
(* nothing is lost, no operator acts, each is submitted once, and time      *)
(* passes only between executions: what is left is which of the two the     *)
(* claims come to.  A claim call takes time where only storage jobs are     *)
(* about.                                                                   *)
EXTENDS MCDurableJobs

VARIABLE submits

MCInit ==
  submits \in {{job} : job \in Jobs} \cup {Jobs \ Malformed} /\ Init

Prompt == \A w \in Workers : batch'[w] # Idle => batch'[w].age = 0
Beside ==
  /\ \A w \in Workers : ~AbortClaim(w)
  /\ \A t \in Tokens : Live(t) =>
       /\ Owns(t, 0) /\ row' = row => exec'[t] # NoClaim
       /\ exec'[t] # NoClaim => exec'[t].authoritative /\ exec'[t].since = 0
  /\ \A job \in Jobs :
       /\ row'[job].state # "cancelled"
       /\ row[job].state = "failed" => row'[job].state # "pending"
       /\ row[job].state # "absent" => row'[job].state # "absent"

Scene ==
  /\ \A job \in Jobs \ submits : row'[job] = NoRow
  /\ Cardinality(submits) > 1 => Beside
  /\ submits \subseteq Retained \/ Prompt

MCNext == Next /\ Scene /\ UNCHANGED submits
\* Of the fair actions a scene restricts the clock only, which is then fair to
\* what is left of it.
MCLiveSpec ==
  /\ MCInit /\ [][MCNext]_<<vars, submits>>
  /\ SF_vars(Tick /\ Scene) /\ Scheduling /\ TargetAnswers
=============================================================================
