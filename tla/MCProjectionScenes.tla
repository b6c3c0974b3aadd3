------------------------- MODULE MCProjectionScenes -------------------------
(* Scenes of PageProjection in one run.  In a faulty scene the page has one  *)
(* revision, perhaps an older history, and every fault; either what renders *)
(* depend on changes or, where search is watched, passwords come and go.    *)
(* In the others a listed page is edited, deleted and restored, rerendered  *)
(* while it has its first revision, and nothing fails.  Links and search    *)
(* depend on the render and not on each other: a scene leaves the effects   *)
(* of one of them unclaimed.                                                *)
EXTENDS MCPageProjection

VARIABLE scene

Scenes == [about : {"context", "edits"}, watched : {"links", "search"}]
          \cup {[about |-> "passwords", watched |-> "search"]}
Faultless == scene.about = "edits"

MCInit ==
  /\ Init
  /\ scene \in Scenes
  /\ Faultless => page = NoPage

OneRevision ==
  /\ ~Faultless
  /\ Next
  /\ page'.revision <= 1
  /\ page'.protected => scene.about = "passwords"
  /\ context' # context => scene.about = "context"
  /\ page'.listed \/ ~page'.present \/ scene.watched = "links"

Restores == ~page.present /\ page.revision # 0
Editing ==
  /\ Faultless
  /\ \/ Mutation /\ (page'.revision # page.revision \/ page.revision = 1)
     \/ Maintenance
     \/ \E w \in Workers : Claims(w) \/ Executes(w)
     \/ ReleaseExpired
  /\ context' = context /\ ~refresh'
  /\ page'.revision <= (IF scene.watched = "search" THEN MaxRevision ELSE 2)
  /\ page'.revision # page.revision /\ page'.present /\ ~Restores => page'.listed

\* The last revision is deleted: the bound ends the run, not the system.
OutOfRevisions == Faultless /\ ~page.present /\ page.revision > 1 /\ UNCHANGED vars

MCNext ==
  /\ OneRevision \/ Editing \/ OutOfRevisions
  /\ \A w \in Workers : work'[w] # Idle => work'[w].kind \in {"render", scene.watched}
  /\ UNCHANGED scene
MCSpec == MCInit /\ [][MCNext]_<<vars, scene>>
=============================================================================
