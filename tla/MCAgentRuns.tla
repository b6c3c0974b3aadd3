---------------------------- MODULE MCAgentRuns ----------------------------
(* Instances of AgentRuns for TLC.  Two scenes share a run of the checker:  *)
(* "alone", one run with every fault, and "pair", two runs of one user with *)
(* no fault, one of which may be cancelled and whose reservations do not    *)
(* expire.  No action that is fair is restricted by a scene.                *)
EXTENDS AgentRuns, TLC

VARIABLE scene

MCOwnerOf == [r \in Runs |-> "one user"]
First == CHOOSE r \in Runs : TRUE

\* Two of these at most: a fault, another one, a cancellation, an expiry.
Alone ==
  /\ scene = "alone"
  /\ Next
  /\ \A r \in Runs \ {First} : run'[r].status = "none"
  /\ faults' + Cardinality({r \in Runs : run'[r].cancel})
            + Cardinality({r \in Runs : hold'[r].expired}) <= 2
Pair ==
  /\ scene = "pair"
  /\ Next
  /\ faults' = 0
  /\ \A r \in Runs : ~hold'[r].expired
  /\ Cardinality({r \in Runs : run'[r].cancel}) <= 1

MCInit == Init /\ scene \in {"alone", "pair"}
MCLiveSpec ==
  /\ MCInit
  /\ [][(Alone \/ Pair) /\ UNCHANGED scene]_<<vars, scene>>
  /\ Fairness
=============================================================================
