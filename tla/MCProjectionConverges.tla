------------------------ MODULE MCProjectionConverges ------------------------
(* Three scenes of PageProjection with one process, all faults and fairness: *)
(* two revisions under a publication window; one revision while passwords    *)
(* come and go; one revision while what renders depend on changes.  No       *)
(* action that is fair is restricted by a scene.                             *)
EXTENDS MCPageProjection

VARIABLE scene

MCInit == Init /\ scene \in {"windows", "passwords", "context"}

Within ==
  /\ scene # "windows" =>
       /\ page'.revision <= 1
       /\ page'.window = page.window \/ page.revision = 0
  /\ scene # "passwords" => ~page'.protected /\ ~refresh'
  /\ scene # "context" => context' = context

MCNext == Next /\ Within /\ UNCHANGED scene
MCLiveSpec == MCInit /\ [][MCNext]_<<vars, scene>> /\ Fairness
=============================================================================
