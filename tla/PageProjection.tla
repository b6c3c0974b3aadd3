--------------------------- MODULE PageProjection ---------------------------
(***************************************************************************)
(* One page, its projections and the receipts of the work that keeps them  *)
(* current (server/core/page-mutation-outbox.ts, jobs/render-page.ts).     *)
(*                                                                         *)
(* A mutation of the page commits with one effect row per projection and   *)
(* source revision.  Workers lease the rows; a sink reads the page, works, *)
(* writes, and looks again, each a step of its own, so mutations, readmis- *)
(* sions and other workers come between.  Transactions that hold the page  *)
(* lock are one step.                                                      *)
(*                                                                         *)
(* A process runs one effect at a time, so its name stands for the token   *)
(* of the lease it holds; the token of an execution that is gone is Lost.  *)
(* A lease is unexpired until it lapses; a heartbeat is its not lapsing.   *)
(***************************************************************************)
EXTENDS Naturals, FiniteSets

CONSTANTS
  Workers,      \* processes with a PageProjectionLifecycle
  Kinds,        \* the projections this instance follows
  MaxRevision,  \* BOUND: source revisions of the page
  MaxContext,   \* BOUND: changes to what a render reads besides the page
  MaxAttempts,  \* attempts before an error is final (5 in the code)
  Legacy,       \* the page may be older than the outbox
  Listings,     \* the choices an author has: listed to the public, or not
  Windowed,     \* pages may carry a publication window
  Protectable,  \* pages may be given a password
  Faulty,       \* calls may throw, processes crash, leases lapse
  NoToken,      \* leaseToken is null
  Lost,         \* the token of an execution that is gone
  NoRender,     \* empty HTML, no links, no body text
  NoVector,     \* no search row
  Idle          \* the process executes nothing

ASSUME KindsAssumption ==
  /\ Kinds \subseteq {"render", "links", "search"}
  /\ "render" \in Kinds
ASSUME BoundsAssumption ==
  /\ MaxRevision \in Nat \ {0}
  /\ MaxContext \in Nat
  /\ MaxAttempts \in Nat \ {0}
  /\ Listings \subseteq BOOLEAN /\ Legacy \in BOOLEAN
  /\ Windowed \in BOOLEAN /\ Protectable \in BOOLEAN /\ Faulty \in BOOLEAN
ASSUME TokensAssumption == NoToken \notin Workers /\ Lost \notin Workers /\ NoToken # Lost

VARIABLES
  page,         \* the row of pages, its password and its publication window
  context,      \* which linked pages exist, which extensions are enabled
  links,        \* the page's rows in pageLinks, as the render they came from
  vector,       \* the page's row in pagesVector
  effect,       \* effect[k][r]: the outbox row of projection k at revision r
  work,         \* work[w]: the effect process w executes
  refresh       \* a search refresh promised after a password change is due

vars == <<page, context, links, vector, effect, work, refresh>>

Revisions == 1..MaxRevision
Statuses == {"none", "pending", "retry", "running", "succeeded", "failed", "superseded"}
Html == [revision : Revisions, context : 0..MaxContext] \cup {NoRender}
Page == [present : BOOLEAN, revision : 0..MaxRevision, certified : 0..MaxRevision,
         render : Html, listed : BOOLEAN, window : {"before", "open", "after"},
         protected : BOOLEAN]
Vector == [revision : Revisions, body : Html] \cup {NoVector}
Effect == [status : Statuses, desired : {"present", "absent"}, attempts : 0..MaxAttempts,
           token : Workers \cup {NoToken, Lost}, lapsed : BOOLEAN]
Phases == {"claimed", "read", "render", "publish", "replace", "remove", "depend",
           "reconcile", "check", "satisfied", "unsatisfied", "threw"}
Execution == [kind : Kinds, revision : Revisions, attempts : 1..MaxAttempts,
              phase : Phases, seen : Html, eligible : BOOLEAN]

ASSUME SentinelsAssumption ==
  /\ Idle \notin Execution
  /\ NoRender \notin [revision : Revisions, context : 0..MaxContext]
  /\ NoVector \notin [revision : Revisions, body : Html]

Waiting(status, desired) ==
  [status |-> status, desired |-> desired, attempts |-> 0, token |-> NoToken, lapsed |-> FALSE]
NoEffect == Waiting("none", "present")

NoPage == [present |-> FALSE, revision |-> 0, certified |-> 0, render |-> NoRender,
           listed |-> FALSE, window |-> "open", protected |-> FALSE]
(* A page older than the outbox: no receipts, its HTML unverified. *)
LegacyPage == [NoPage EXCEPT !.present = TRUE, !.revision = 1, !.listed = TRUE]

Init ==
  /\ page \in {NoPage} \cup {p \in {LegacyPage} : Legacy}
  /\ context = 0 /\ links = NoRender /\ vector = NoVector
  /\ effect = [k \in Kinds |-> [r \in Revisions |-> NoEffect]]
  /\ work = [w \in Workers |-> Idle]
  /\ refresh = FALSE

Certified(p) == p.certified = p.revision
Eligible(p) == p.listed /\ p.window = "open"
Current(r) == page.present /\ page.revision = r
RenderSucceeded(eff, r) == eff["render"][r].status = "succeeded"
Proven(r) == Certified(page) /\ RenderSucceeded(effect, r)

-----------------------------------------------------------------------------
(* Admission of work for the current revision, inside a transaction that   *)
(* locks the page.  A transaction is worked out on a record of the tables. *)

Tables == [page |-> page, links |-> links, vector |-> vector, effect |-> effect]
Commit(t) ==
  page' = t.page /\ links' = t.links /\ vector' = t.vector /\ effect' = t.effect

(* Variant: a running dependent keeps its lease. *)
AdmittedUnfenced(e, rearm, fence) ==
  IF e.status = "none" THEN Waiting("pending", "present")
  ELSE IF rearm /\ e.status \in {"succeeded", "failed"} /\ e.token = NoToken
  THEN Waiting("retry", e.desired) ELSE e
Admitted(e, rearm, fence) ==
  IF e.status = "none" THEN Waiting("pending", "present")
  ELSE IF \/ rearm /\ e.status \in {"succeeded", "failed"} /\ e.token = NoToken
          \/ fence /\ e.status = "running"
  THEN Waiting("retry", e.desired) ELSE e

Admit(t, k, rearm, fence) ==
  IF k \in Kinds
  THEN [t EXCEPT !.effect[k][t.page.revision] = Admitted(@, rearm, fence)]
  ELSE t

Invalidated(t) ==
  [t EXCEPT !.page.render = NoRender, !.page.certified = 0,
            !.links = NoRender, !.vector = NoVector]

Rerender(t) ==
  LET asked == Admit(t, "render", TRUE, FALSE)
  IN  IF asked = t THEN t
      ELSE Admit(Admit(Invalidated(asked), "links", TRUE, TRUE), "search", TRUE, TRUE)

EnsureRender(t) ==
  LET status == t.effect["render"][t.page.revision].status
  IN  IF status = "none" \/ (status = "succeeded" /\ ~Certified(t.page))
      THEN Rerender(t) ELSE t

AdmittedSearch(t) ==
  LET asked == Admit(t, "search", TRUE, TRUE)
  IN  IF Eligible(t.page) /\ ~t.page.protected THEN EnsureRender(asked) ELSE asked

(* Render effects of other revisions that nobody has claimed are given up. *)
StaleSuperseded(t) ==
  [t EXCEPT !.effect["render"] = [r \in Revisions |->
     IF r # t.page.revision /\ @[r].status \in {"pending", "retry"}
     THEN [@[r] EXCEPT !.status = "superseded"] ELSE @[r]]]

-----------------------------------------------------------------------------
(* Mutations of the page. *)

Windows == IF Windowed THEN {"before", "open"} ELSE {"open"}

(* The page moves to its next revision with an effect of every kind. *)
Mutated(p, desired) ==
  /\ page' = p
  /\ effect' = [k \in Kinds |->
       [effect[k] EXCEPT ![p.revision] = Waiting("pending", desired)]]
  /\ UNCHANGED <<context, vector, work, refresh>>

CreatePage ==
  /\ page.revision = 0
  /\ \E listed \in Listings, window \in Windows :
       Mutated([NoPage EXCEPT !.present = TRUE, !.revision = 1,
                              !.listed = listed, !.window = window], "present")
  /\ UNCHANGED links

(* Every edit, move, approval or tag change. *)
SaveCanonicalPageRevision ==
  /\ page.present /\ page.revision < MaxRevision
  /\ \E listed \in Listings, window \in Windows :
       Mutated([page EXCEPT !.revision = @ + 1, !.certified = 0,
                            !.listed = listed, !.window = window], "present")
  /\ UNCHANGED links

(* The rows that refer to the page go with it; the search row stays. *)
DeletePage ==
  /\ page.present /\ page.revision < MaxRevision
  /\ Mutated([page EXCEPT !.revision = @ + 1, !.present = FALSE, !.certified = 0,
                          !.render = NoRender], "absent")
  /\ links' = NoRender

(* A restored page comes back unpublished, under a revision of its own and *)
(* with the password it had.                                               *)
RestoreDeletedPage ==
  /\ ~page.present /\ page.revision \in 1..(MaxRevision - 1)
  /\ Mutated([page EXCEPT !.revision = @ + 1, !.present = TRUE, !.listed = FALSE], "present")
  /\ UNCHANGED links

(* The publication window opens, then closes, with no revision. *)
WindowMoves ==
  /\ Windowed /\ page.present /\ page.window # "after"
  /\ page' = [page EXCEPT !.window = IF @ = "before" THEN "open" ELSE "after"]
  /\ UNCHANGED <<context, links, vector, effect, work, refresh>>

(* A page it links to appears or goes, an extension is toggled. *)
ContextChanges ==
  /\ context < MaxContext
  /\ context' = context + 1
  /\ UNCHANGED <<page, links, vector, effect, work, refresh>>

(* The rerender that follows, or an administrator's. *)
AdmitPageRenderEffect ==
  /\ page.present
  /\ \E supersede \in BOOLEAN :
       Commit(Rerender(IF supersede THEN StaleSuperseded(Tables) ELSE Tables))
  /\ UNCHANGED <<context, work, refresh>>

SetPageProtection ==
  /\ Protectable /\ page.present
  /\ Commit([AdmittedSearch([Tables EXCEPT !.page.protected = TRUE])
              EXCEPT !.vector = NoVector])
  /\ refresh' = TRUE
  /\ UNCHANGED <<context, work>>

RemovePageProtection ==
  /\ Protectable /\ page.present
  /\ Commit(AdmittedSearch([Tables EXCEPT !.page.protected = FALSE]))
  /\ refresh' = TRUE
  /\ UNCHANGED <<context, work>>

(* reconcilePage: what the search row of the page should be now. *)
(* Variant: the body is indexed whether or not the page has a password. *)
IndexedIgnoringPassword(p) ==
  IF p.present /\ Eligible(p)
  THEN [revision |-> p.revision, body |-> IF Certified(p) THEN p.render ELSE NoRender]
  ELSE NoVector
Indexed(p) ==
  IF p.present /\ Eligible(p)
  THEN [revision |-> p.revision,
        body |-> IF p.protected \/ ~Certified(p) THEN NoRender ELSE p.render]
  ELSE NoVector

(* The callback after a password change runs late, or its process is gone. *)
RefreshSearch ==
  /\ refresh
  /\ \E runs \in BOOLEAN : vector' = IF runs THEN Indexed(page) ELSE vector
  /\ refresh' = FALSE
  /\ UNCHANGED <<page, context, links, effect, work>>

-----------------------------------------------------------------------------
(* Maintenance: the audit of the graph, of the search rows, and of the     *)
(* search rows of a page that is gone.                                     *)

MaintainGraphEffects ==
  /\ "links" \in Kinds /\ page.present /\ page.listed
  /\ LET t == EnsureRender(Tables)
         disagree == t = Tables /\ Certified(page) /\ links # page.render
     IN  Commit(Admit(t, "links", disagree, FALSE))
  /\ UNCHANGED <<context, work, refresh>>

SearchStateDisagrees ==
  IF Eligible(page) THEN vector = NoVector \/ vector.revision # page.revision
  ELSE vector # NoVector
RepairSearchPage ==
  /\ "search" \in Kinds /\ page.present
  /\ LET t == IF Eligible(page) /\ ~page.protected THEN EnsureRender(Tables) ELSE Tables
     IN  Commit(Admit(t, "search", SearchStateDisagrees, FALSE))
  /\ UNCHANGED <<context, work, refresh>>

MaintainAbsentSearchEffects(r) ==
  /\ "search" \in Kinds /\ ~page.present /\ vector # NoVector
  /\ effect["search"][r].desired = "absent"
  /\ effect["search"][r].status \in {"succeeded", "failed"}
  /\ effect' = [effect EXCEPT !["search"][r] = Waiting("retry", "absent")]
  /\ UNCHANGED <<page, context, links, vector, work, refresh>>

-----------------------------------------------------------------------------
(* Claims. *)

Lapse(k, r) ==
  /\ effect[k][r].status = "running" /\ ~effect[k][r].lapsed
  /\ effect' = [effect EXCEPT ![k][r].lapsed = TRUE]
  /\ UNCHANGED <<page, context, links, vector, work, refresh>>

(* A claim first frees every lease that ran out. *)
(* Variant: of the renders only. *)
ReleasedRenders ==
  [effect EXCEPT !["render"] = [r \in Revisions |->
     IF @[r].status = "running" /\ @[r].lapsed
     THEN [@[r] EXCEPT !.status = "pending", !.token = NoToken, !.lapsed = FALSE] ELSE @[r]]]
Released ==
  [k \in Kinds |-> [r \in Revisions |->
     IF effect[k][r].status = "running" /\ effect[k][r].lapsed
     THEN [effect[k][r] EXCEPT !.status = "pending", !.token = NoToken, !.lapsed = FALSE]
     ELSE effect[k][r]]]

(* Links and an open page's body wait for the certified HTML. *)
Ready(eff, k, r) ==
  LET rendered == Current(r) /\ Certified(page) /\ RenderSucceeded(eff, r)
      body == Current(r) /\ Eligible(page) /\ ~page.protected
  IN  \/ k = "render" \/ eff[k][r].desired = "absent" \/ rendered
      \/ k = "links" /\ ~Current(r)
      \/ k = "search" /\ ~body

Claimed(e, w) ==
  [e EXCEPT !.status = "running", !.token = w, !.lapsed = FALSE,
            !.attempts = IF @ = MaxAttempts THEN @ ELSE @ + 1]

ClaimPageMutationEffect(w, k, r) ==
  /\ work[w] = Idle
  /\ Released[k][r].status \in {"pending", "retry"}
  /\ Ready(Released, k, r)
  /\ effect' = [Released EXCEPT ![k][r] = Claimed(@, w)]
  /\ work' = [work EXCEPT ![w] =
       [kind |-> k, revision |-> r, attempts |-> effect'[k][r].attempts,
        phase |-> "claimed", seen |-> NoRender, eligible |-> FALSE]]
  /\ UNCHANGED <<page, context, links, vector, refresh>>

(* Nothing is due yet: only the lapsed leases are freed. *)
ReleaseExpired ==
  /\ Released # effect
  /\ effect' = Released
  /\ UNCHANGED <<page, context, links, vector, work, refresh>>

-----------------------------------------------------------------------------
(* The execution of a claimed effect. *)

At(w, phase) == work[w] # Idle /\ work[w].phase = phase
Doing(w, k, phase) == At(w, phase) /\ work[w].kind = k
Row(w) == effect[work[w].kind][work[w].revision]
Owned(w) == Row(w).status = "running" /\ Row(w).token = w
Alive(w) == Owned(w) /\ ~Row(w).lapsed

Goes(w, phase) == work' = [work EXCEPT ![w].phase = phase]
Tells(w, good) == Goes(w, IF good THEN "satisfied" ELSE "unsatisfied")

(* The execution ends without a word; a row it holds keeps its token. *)
Drop(w) ==
  /\ work' = [work EXCEPT ![w] = Idle]
  /\ effect' = IF Owned(w)
               THEN [effect EXCEPT ![work[w].kind][work[w].revision].token = Lost]
               ELSE effect

BeginExecution(w) ==
  /\ At(w, "claimed")
  /\ IF Alive(w) THEN Goes(w, "read") /\ UNCHANGED effect ELSE Drop(w)
  /\ UNCHANGED <<page, context, links, vector, refresh>>

Reads(w, phase, seen, eligible) ==
  /\ work' = [work EXCEPT ![w].phase = phase, ![w].seen = seen, ![w].eligible = eligible]
  /\ UNCHANGED <<page, context, links, vector, effect, refresh>>

(* An effect whose revision is not the page's is superseded: nothing to do. *)
ReadSuperseded(w) ==
  /\ At(w, "read")
  /\ IF Row(w).desired = "absent" THEN page.present ELSE ~Current(work[w].revision)
  /\ Reads(w, "satisfied", NoRender, FALSE)

ReadAbsent(w) ==
  /\ At(w, "read") /\ Row(w).desired = "absent" /\ ~page.present
  /\ Reads(w, CASE work[w].kind = "render" -> "satisfied"
                [] work[w].kind = "links" -> "remove"
                [] OTHER -> "reconcile", NoRender, FALSE)

ReadCurrent(w) ==
  LET k == work[w].kind
      r == work[w].revision
      body == Eligible(page) /\ ~page.protected
  IN
  /\ At(w, "read") /\ Row(w).desired = "present" /\ Current(r)
  /\ \/ k = "render" /\ Reads(w, "render", NoRender, FALSE)
     \/ k = "links" /\ Proven(r) /\ Reads(w, "replace", page.render, FALSE)
     \/ k = "links" /\ ~Proven(r) /\ Reads(w, "threw", NoRender, FALSE)
     \/ k = "search" /\ (~body \/ Proven(r)) /\ Reads(w, "reconcile", NoRender, Eligible(page))
     \/ k = "search" /\ body /\ ~Proven(r) /\ Reads(w, "depend", NoRender, TRUE)

(* The render job reads the page again, and what its links lead to. *)
RenderHtml(w) ==
  /\ Doing(w, "render", "render")
  /\ IF Current(work[w].revision)
     THEN Reads(w, "publish", [revision |-> work[w].revision, context |-> context], FALSE)
     ELSE Reads(w, IF page.present THEN "check" ELSE "threw", NoRender, FALSE)

(* Variant: the revision is not looked at. *)
PublishableAnyRevision(w) == page.present /\ Alive(w)
Publishable(w) == Current(work[w].revision) /\ Alive(w)

PublishRender(w) ==
  /\ Doing(w, "render", "publish")
  /\ page' = IF Publishable(w)
             THEN [page EXCEPT !.render = work[w].seen, !.certified = page.revision] ELSE page
  /\ Goes(w, "check")
  /\ UNCHANGED <<context, links, vector, effect, refresh>>

CheckRender(w) ==
  /\ Doing(w, "render", "check")
  /\ Tells(w, Current(work[w].revision) => Certified(page))
  /\ UNCHANGED <<page, context, links, vector, effect, refresh>>

(* Neither a lock nor a second look at the page. *)
RemoveLinks(w) ==
  /\ Doing(w, "links", "remove")
  /\ links' = NoRender
  /\ Goes(w, "check")
  /\ UNCHANGED <<page, context, vector, effect, refresh>>

CheckLinks(w) ==
  /\ Doing(w, "links", "check")
  /\ Tells(w, links = NoRender)
  /\ UNCHANGED <<page, context, links, vector, effect, refresh>>

SameHtml(w) == Proven(work[w].revision) /\ page.render = work[w].seen

ReplaceLinks(w) ==
  /\ Doing(w, "links", "replace")
  /\ IF Current(work[w].revision)
     THEN /\ Tells(w, SameHtml(w))
          /\ links' = IF SameHtml(w) THEN work[w].seen ELSE links
     ELSE Tells(w, TRUE) /\ UNCHANGED links
  /\ UNCHANGED <<page, context, vector, effect, refresh>>

EnsureRenderDependency(w) ==
  /\ Doing(w, "search", "depend")
  /\ Commit(IF Current(work[w].revision) THEN EnsureRender(Tables) ELSE Tables)
  /\ Goes(w, "threw")
  /\ UNCHANGED <<context, refresh>>

ReconcileSearch(w) ==
  /\ Doing(w, "search", "reconcile")
  /\ vector' = Indexed(page)
  /\ Goes(w, "check")
  /\ UNCHANGED <<page, context, links, effect, refresh>>

CheckSearch(w) ==
  /\ Doing(w, "search", "check")
  /\ Tells(w,
       IF Row(w).desired = "absent" THEN page.present \/ vector = NoVector
       ELSE Current(work[w].revision) =>
              IF work[w].eligible THEN vector # NoVector /\ vector.revision = work[w].revision
              ELSE vector = NoVector)
  /\ UNCHANGED <<page, context, links, vector, effect, refresh>>

Sink == {"read", "render", "publish", "replace", "remove", "depend", "reconcile", "check"}

(* Any call of a sink may throw, an abort by the heartbeat among them. *)
SinkThrows(w) ==
  /\ work[w] # Idle /\ work[w].phase \in Sink
  /\ Goes(w, "threw")
  /\ UNCHANGED <<page, context, links, vector, effect, refresh>>

Outcome(x) ==
  CASE x.phase = "satisfied" -> "succeeded"
    [] x.phase = "unsatisfied" -> "failed"
    [] OTHER -> IF x.attempts < MaxAttempts THEN "retry" ELSE "failed"

(* Variants: the token stays in the row; a revoked lease still reports. *)
FinishedKeepingToken(w) ==
  IF Owned(w) THEN [Row(w) EXCEPT !.status = Outcome(work[w]), !.lapsed = FALSE] ELSE Row(w)
FinishedByAnyone(w) ==
  [Row(w) EXCEPT !.status = Outcome(work[w]), !.token = NoToken, !.lapsed = FALSE]
Finished(w) ==
  IF Owned(w)
  THEN [Row(w) EXCEPT !.status = Outcome(work[w]), !.token = NoToken, !.lapsed = FALSE]
  ELSE Row(w)

FinishClaim(w) ==
  /\ work[w] # Idle /\ work[w].phase \in {"satisfied", "unsatisfied", "threw"}
  /\ effect' = [effect EXCEPT ![work[w].kind][work[w].revision] = Finished(w)]
  /\ work' = [work EXCEPT ![w] = Idle]
  /\ UNCHANGED <<page, context, links, vector, refresh>>

Crash(w) ==
  /\ work[w] # Idle
  /\ Drop(w)
  /\ UNCHANGED <<page, context, links, vector, refresh>>

-----------------------------------------------------------------------------
Mutation ==
  \/ CreatePage \/ SaveCanonicalPageRevision \/ DeletePage \/ RestoreDeletedPage
  \/ WindowMoves \/ ContextChanges \/ AdmitPageRenderEffect
  \/ SetPageProtection \/ RemovePageProtection

Fault ==
  /\ Faulty
  /\ \/ \E w \in Workers : SinkThrows(w) \/ Crash(w)
     \/ \E k \in Kinds, r \in Revisions : effect[k][r].token # Lost /\ Lapse(k, r)

Maintenance ==
  \/ MaintainGraphEffects \/ RepairSearchPage
  \/ \E r \in Revisions : MaintainAbsentSearchEffects(r)

Claims(w) == \E k \in Kinds, r \in Revisions : ClaimPageMutationEffect(w, k, r)

Executes(w) ==
  \/ BeginExecution(w) \/ ReadSuperseded(w) \/ ReadAbsent(w) \/ ReadCurrent(w)
  \/ RenderHtml(w) \/ PublishRender(w) \/ CheckRender(w)
  \/ RemoveLinks(w) \/ CheckLinks(w) \/ ReplaceLinks(w)
  \/ EnsureRenderDependency(w) \/ ReconcileSearch(w) \/ CheckSearch(w)
  \/ FinishClaim(w)

LostLeaseLapses == \E k \in Kinds, r \in Revisions : effect[k][r].token = Lost /\ Lapse(k, r)

Next ==
  \/ Mutation \/ Fault \/ Maintenance \/ RefreshSearch
  \/ \E w \in Workers : Claims(w) \/ Executes(w)
  \/ ReleaseExpired \/ LostLeaseLapses

Spec == Init /\ [][Next]_vars

(* Each process keeps claiming and a claimed effect moves on, the audits   *)
(* come round, an abandoned lease runs out.                                *)
Fairness ==
  /\ \A w \in Workers :
       /\ \A k \in Kinds : WF_vars(\E r \in Revisions : ClaimPageMutationEffect(w, k, r))
       /\ WF_vars(Executes(w))
  /\ WF_vars(ReleaseExpired) /\ WF_vars(LostLeaseLapses)
  /\ WF_vars(MaintainGraphEffects) /\ WF_vars(RepairSearchPage)
  /\ \A r \in Revisions : WF_vars(MaintainAbsentSearchEffects(r))
LiveSpec == Spec /\ Fairness

-----------------------------------------------------------------------------
(* The tables hold what their columns allow, and a row has a lease token    *)
(* exactly while it is running (what claim, finish and admission write).   *)
TypeOK ==
  /\ page \in Page /\ context \in 0..MaxContext
  /\ links \in Html /\ vector \in Vector
  /\ effect \in [Kinds -> [Revisions -> Effect]]
  /\ work \in [Workers -> Execution \cup {Idle}]
  /\ refresh \in BOOLEAN
  /\ \A k \in Kinds, r \in Revisions :
       LET e == effect[k][r]
       IN  (e.status = "running" <=> e.token # NoToken) /\ (e.lapsed => e.status = "running")

(* HTML that is certified is that of the revision it is served for, and a  *)
(* succeeded render receipt of the current revision is never without it.   *)
CertifiedHtmlIsCurrent ==
  page.present =>
    /\ Certified(page) => page.render # NoRender /\ page.render.revision = page.revision
    /\ RenderSucceeded(effect, page.revision) => Certified(page)

(* Whoever finds a succeeded links receipt of the current revision may use *)
(* the rows: they are those of the certified HTML.                         *)
LinksReceiptIsTrue ==
  page.present /\ "links" \in Kinds /\ effect["links"][page.revision].status = "succeeded" =>
    Certified(page) /\ links = page.render

(* A succeeded search receipt of the current revision says what the row    *)
(* holds: an open page's body, nothing of an unlisted one.                 *)
SearchReceiptIsTrue ==
  page.present /\ "search" \in Kinds /\ effect["search"][page.revision].status = "succeeded" =>
    /\ Eligible(page) /\ ~page.protected => Certified(page)
    /\ vector = Indexed(page)

(* No word of a protected page's body is in the index, and a body that a   *)
(* query can match comes from certified HTML of the current source.        *)
BodyIsCertified ==
  page.present /\ vector # NoVector /\ vector.body # NoRender =>
    /\ ~page.protected
    /\ vector.revision = page.revision =>
         Certified(page) /\ vector.body.revision = page.revision

(* No receipt of the current revision is failed by a race: a process that  *)
(* still has its lease never finds its work undone by a mutation, an       *)
(* admission or another process.                                           *)
NoRaceFailsAReceipt ==
  \A w \in Workers :
    At(w, "unsatisfied") /\ work[w].revision = page.revision => ~Alive(w)

(* Once mutations and faults end, the current page has its certified HTML, *)
(* the links of it and the search row of it, unless an effect of it was    *)
(* failed.                                                                 *)
CurrentFailed == \E k \in Kinds : effect[k][page.revision].status = "failed"
UpToDate ==
  /\ "render" \in Kinds /\ page.present => Certified(page)
  /\ "links" \in Kinds => links = page.render
  /\ "search" \in Kinds => vector = Indexed(page)
Converges ==
  <>[][~Mutation /\ ~Fault]_vars =>
    <>[](page.revision > 0 => CurrentFailed \/ UpToDate)

(* As the documentation has it: a page that its window opens is found by   *)
(* its body, unless an effect that is outstanding will see to it.          *)
Outstanding(k) == effect[k][page.revision].status \in {"pending", "retry", "running"}
OpenedPageIsIndexed ==
  page.present /\ "search" \in Kinds /\ SearchStateDisagrees = FALSE /\ Certified(page)
    /\ Eligible(page) /\ ~page.protected /\ ~Outstanding("search")
  => vector.body = page.render
=============================================================================
