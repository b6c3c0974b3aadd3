------------------------ MODULE PageProjectionProofs ------------------------
(***************************************************************************)
(* The safety of PageProjection for any number of processes, revisions,    *)
(* context changes and attempts, with every fault.                         *)
(***************************************************************************)
EXTENDS PageProjection, TLAPS

\* A row of the outbox as every statement leaves it.
SoundRow(e) ==
  /\ e \in Effect
  /\ e.status = "running" <=> e.token # NoToken
  /\ e.lapsed => e.status = "running"

\* What a page is served with, and the receipts of its render.
Served(p, eff) ==
  p.present =>
    /\ p.revision # 0
    /\ \A k \in Kinds : eff[k][p.revision].desired = "present"
    /\ Certified(p) => p.render # NoRender /\ p.render.revision = p.revision
    /\ eff["render"][p.revision].status = "succeeded" => Certified(p)

Core(p, eff) ==
  /\ p \in Page /\ p.certified <= p.revision
  /\ eff \in [Kinds -> [Revisions -> Effect]]
  /\ \A k \in Kinds, r \in Revisions :
       SoundRow(eff[k][r]) /\ (eff[k][r].status # "none" => r <= p.revision)
  /\ Served(p, eff)

\* What of a body is in the index, whether or not the page is there.
Body(p, v) ==
  v # NoVector =>
    /\ v.revision <= p.revision
    /\ v.body # NoRender =>
         /\ ~p.protected
         /\ v.revision = p.revision => Certified(p) /\ v.body.revision = p.revision

\* What an execution has in hand.
WorkSound(w, x, p, eff) ==
  x # Idle =>
    /\ x.revision <= p.revision
    /\ x.kind = "render" /\ x.phase = "publish" =>
         x.seen # NoRender /\ x.seen.revision = x.revision
    /\ /\ x.kind = "render" /\ x.phase = "satisfied"
       /\ eff["render"][x.revision].status = "running"
       /\ eff["render"][x.revision].token = w
       /\ p.present /\ p.revision = x.revision
       => Certified(p)

IInv ==
  /\ Core(page, effect) /\ Body(page, vector)
  /\ links \in Html /\ vector \in Vector /\ context \in 0..MaxContext /\ refresh \in BOOLEAN
  /\ work \in [Workers -> Execution \cup {Idle}]
  /\ \A w \in Workers : WorkSound(w, work[w], page, effect)

(* The bounds are numbers, and a render is always followed.                *)
LEMMA Bounds ==
  /\ MaxRevision \in Nat /\ MaxContext \in Nat /\ MaxAttempts \in Nat /\ MaxAttempts >= 1
  /\ Revisions \subseteq Nat /\ 0 \notin Revisions
  /\ "render" \in Kinds /\ Kinds \subseteq {"render", "links", "search"}
  BY KindsAssumption, BoundsAssumption DEF Revisions

(* The invariant gives the properties that the runs check.                 *)
LEMMA Implied == IInv => TypeOK /\ CertifiedHtmlIsCurrent /\ BodyIsCertified
<1> SUFFICES ASSUME IInv PROVE TypeOK /\ CertifiedHtmlIsCurrent /\ BodyIsCertified
  OBVIOUS
<1>1. TypeOK
  BY DEF IInv, Core, SoundRow, TypeOK
<1>2. CertifiedHtmlIsCurrent
  BY DEF IInv, Core, Served, CertifiedHtmlIsCurrent, RenderSucceeded
<1>3. BodyIsCertified
  BY DEF IInv, Body, BodyIsCertified
<1> QED
  BY <1>1, <1>2, <1>3

(* An effect that waits is a sound row.                                    *)
LEMMA WaitingIsSound ==
  ASSUME NEW status \in Statuses, status # "running", NEW desired \in {"present", "absent"}
  PROVE  /\ SoundRow(Waiting(status, desired))
         /\ Waiting(status, desired).status = status
         /\ Waiting(status, desired).desired = desired
         /\ Waiting(status, desired).token = NoToken
<1>1. 0 \in 0..MaxAttempts
  BY Bounds
<1> QED
  BY <1>1 DEF Waiting, SoundRow, Effect

(* The invariant holds of a page that is not there yet, and of a legacy one. *)
LEMMA InitInvariant == Init => IInv
<1> SUFFICES ASSUME Init PROVE IInv
  OBVIOUS
<1>1. page \in {NoPage, LegacyPage}
  BY DEF Init
<1>2. NoRender \in Html /\ NoVector \in Vector
  BY DEF Html, Vector
<1>3. /\ 0 \in 0..MaxRevision /\ 1 \in 0..MaxRevision /\ 0 \in 0..MaxContext
      /\ Revisions \subseteq Nat /\ MaxRevision \in Nat
  BY BoundsAssumption DEF Revisions
<1>4. NoPage \in Page /\ LegacyPage \in Page
  BY <1>2, <1>3 DEF NoPage, LegacyPage, Page
<1>5. SoundRow(NoEffect) /\ NoEffect.status = "none" /\ NoEffect.desired = "present"
  BY WaitingIsSound DEF NoEffect, Statuses
<1>6. NoEffect \in Effect
  BY <1>5 DEF SoundRow
<1>7. Core(page, effect)
  <2>0. /\ NoPage.certified = 0 /\ ~NoPage.present
        /\ LegacyPage.certified = 0 /\ LegacyPage.revision = 1
    BY DEF NoPage, LegacyPage
  <2>1. page \in Page /\ page.certified = 0
    BY <1>1, <1>4, <2>0
  <2>2. page.present => page.revision = 1
    BY <1>1, <2>0
  <2>3. \A k \in Kinds, r \in Revisions : effect[k][r] = NoEffect
    BY DEF Init
  <2>4. effect \in [Kinds -> [Revisions -> Effect]]
    BY <1>6 DEF Init
  <2>5. 1 \in Revisions
    BY BoundsAssumption DEF Revisions
  <2>6. page.certified <= page.revision
    BY <2>1, <1>3 DEF Page
  <2>7. Served(page, effect)
    BY <2>1, <2>2, <2>3, <2>5, <1>5, Bounds DEF Served, Certified
  <2> QED
    BY <1>5, <2>1, <2>3, <2>4, <2>6, <2>7 DEF Core
<1> QED
  BY <1>2, <1>3, <1>7 DEF Init, IInv, Body, WorkSound

---------------------------------------------------------------------------
(* Transactions, worked out on a record of the tables.                     *)

TablesType == [page : Page, links : Html, vector : Vector,
               effect : [Kinds -> [Revisions -> Effect]]]

Good(t) == t \in TablesType /\ Core(t.page, t.effect) /\ t.page.present

\* What a transaction may do to the tables.
Eases(t, u) ==
  /\ u.page.revision = t.page.revision /\ u.page.present = t.page.present
  /\ u.page.protected = t.page.protected
  /\ \A r \in Revisions : u.effect["render"][r].status = "running" =>
                            u.effect["render"][r] = t.effect["render"][r]
  /\ u.effect["render"][t.page.revision].status = "running" =>
       u.page.certified = t.page.certified
  /\ u.vector = NoVector \/ (u.vector = t.vector /\ u.page.certified = t.page.certified)

Leads(t, u) == Good(u) /\ Eases(t, u)

(* The revision of a page that is there has its effects.                   *)
LEMMA PresentRevision ==
  ASSUME NEW t, Good(t)
  PROVE  t.page.revision \in Revisions
  BY Bounds DEF Good, Core, Served, Page, Revisions

(* A transaction that does nothing eases the tables. *)
LEMMA LeadsReflexive ==
  ASSUME NEW t, Good(t)
  PROVE  Leads(t, t)
  BY DEF Leads, Eases

(* One transaction after another eases the tables as one would. *)
LEMMA LeadsTransitive ==
  ASSUME NEW t, NEW u, NEW v, Good(t), Leads(t, u), Leads(u, v)
  PROVE  Leads(t, v)
  BY PresentRevision DEF Leads, Eases

(* Admission leaves a running row alone or puts it back to wait. *)
LEMMA AdmittedIsSound ==
  ASSUME NEW e, SoundRow(e), NEW rearm \in BOOLEAN, NEW fence \in BOOLEAN,
         NEW f, f = Admitted(e, rearm, fence)
  PROVE  /\ SoundRow(f)
         /\ f.status = "running" => f = e
         /\ f.status = "succeeded" => e.status = "succeeded"
         /\ f.desired = e.desired \/ f.desired = "present"
         /\ f # e => f.status \in {"pending", "retry"}
  BY WaitingIsSound DEF Admitted, SoundRow, Effect, Statuses

(* Admitting an effect of the current revision eases the tables. *)
LEMMA AdmitLeads ==
  ASSUME NEW t, Good(t), NEW k \in {"render", "links", "search"}, NEW rearm \in BOOLEAN, NEW fence \in BOOLEAN
  PROVE  /\ Leads(t, Admit(t, k, rearm, fence))
         /\ k \in Kinds /\ Admit(t, k, rearm, fence) # t =>
              Admit(t, k, rearm, fence).effect[k][t.page.revision].status \in {"pending", "retry"}
<1>1. CASE k \notin Kinds
  BY <1>1, LeadsReflexive DEF Admit
<1>2. CASE k \in Kinds
  <2> DEFINE r == t.page.revision
             e == t.effect[k][r]
             f == Admitted(e, rearm, fence)
             g == [t.effect EXCEPT ![k] = [t.effect[k] EXCEPT ![r] = f]]
             u == [t EXCEPT !.effect = g]
  <2>1. r \in Revisions
    BY PresentRevision
  <2>2. t \in TablesType /\ Core(t.page, t.effect) /\ t.page.present
    BY DEF Good
  <2>3. t.effect \in [Kinds -> [Revisions -> Effect]]
    BY <2>2 DEF TablesType
  <2>4. SoundRow(e)
    BY <1>2, <2>1, <2>2 DEF Core
  <2> HIDE DEF f
  <2>5. /\ SoundRow(f)
        /\ f.status = "running" => f = e
        /\ f.status = "succeeded" => e.status = "succeeded"
        /\ f.desired = e.desired \/ f.desired = "present"
        /\ f # e => f.status \in {"pending", "retry"}
    <3> HIDE DEF e
    <3>1. f = Admitted(e, rearm, fence)
      BY DEF f
    <3> QED
      BY <2>4, <3>1, AdmittedIsSound
  <2>6. Admit(t, k, rearm, fence) = u
    BY <1>2 DEF Admit, f
  <2>7. f \in Effect
    BY <2>5 DEF SoundRow
  <2>8. /\ g \in [Kinds -> [Revisions -> Effect]]
        /\ g[k][r] = f
        /\ \A j \in Kinds, q \in Revisions : (j # k \/ q # r) => g[j][q] = t.effect[j][q]
    BY <1>2, <2>1, <2>3, <2>7
  <2> HIDE DEF g
  <2>9. /\ u \in TablesType /\ u.page = t.page /\ u.vector = t.vector /\ u.links = t.links
        /\ u.effect = g
    BY <2>2, <2>8 DEF TablesType
  <2> HIDE DEF u, e
  <2>10. t.page.revision = r /\ r <= t.page.revision /\ t.page \in Page
    <3>1. t.page.revision = r /\ r \in Nat
      BY <2>1, Bounds
    <3>2. r <= r
      BY <3>1
    <3> QED
      BY <2>2, <3>1, <3>2 DEF Core
  <2>11. e = t.effect[k][r]
    BY DEF e
  <2> HIDE DEF r
  <2>12. \A j \in Kinds, q \in Revisions :
           SoundRow(g[j][q]) /\ (g[j][q].status # "none" => q <= t.page.revision)
    BY <2>2, <2>5, <2>8, <2>10 DEF Core
  <2>13. Served(t.page, g)
    BY <2>1, <2>2, <2>5, <2>8, <2>10, <2>11, Bounds DEF Core, Served
  <2>14. Core(t.page, g)
    BY <2>2, <2>8, <2>12, <2>13 DEF Core
  <2>15. Good(u)
    BY <2>2, <2>9, <2>14 DEF Good
  <2>16. Eases(t, u)
    BY <2>1, <2>5, <2>8, <2>9, <2>11, Bounds DEF Eases
  <2>17. u # t => g[k][r].status \in {"pending", "retry"}
    <3>1. ASSUME f = e PROVE g = t.effect
      BY <2>1, <2>3, <2>8, <2>11, <3>1, <1>2 DEF g
    <3>2. ASSUME g = t.effect PROVE u = t
      BY <2>2, <3>2 DEF u, TablesType
    <3> QED
      BY <3>1, <3>2, <2>5, <2>8
  <2> QED
    BY <1>2, <2>6, <2>9, <2>10, <2>15, <2>16, <2>17 DEF Leads
<1> QED
  BY <1>1, <1>2

(* HTML may be invalidated when a render of it waits. *)
LEMMA InvalidatedLeads ==
  ASSUME NEW t, Good(t), t.effect["render"][t.page.revision].status \in {"pending", "retry"}
  PROVE  Leads(t, Invalidated(t))
<1> DEFINE u == Invalidated(t)
           p == [t.page EXCEPT !.render = NoRender, !.certified = 0]
<1>1. t \in TablesType /\ Core(t.page, t.effect) /\ t.page.present /\ t.page \in Page
  BY DEF Good, Core
<1>2. NoRender \in Html /\ NoVector \in Vector /\ 0 \in 0..MaxRevision
  BY BoundsAssumption DEF Html, Vector
<1>3. /\ p \in Page /\ p.certified = 0 /\ p.revision = t.page.revision
      /\ p.present = t.page.present /\ p.protected = t.page.protected
  BY <1>1, <1>2 DEF Page
<1>4. u = [t EXCEPT !.page = p, !.links = NoRender, !.vector = NoVector]
  BY DEF Invalidated
<1> HIDE DEF p, u
<1>5. u \in TablesType /\ u.page = p /\ u.vector = NoVector /\ u.effect = t.effect
  BY <1>1, <1>2, <1>3, <1>4 DEF TablesType
<1>6. t.page.revision \in Nat /\ 0 <= t.page.revision /\ t.page.revision # 0
  BY <1>1, BoundsAssumption DEF Page, Core, Served
<1>7. Core(p, t.effect)
  BY <1>1, <1>3, <1>6 DEF Core, Served, Certified
<1>8. Good(u)
  BY <1>1, <1>3, <1>5, <1>7 DEF Good
<1>9. Eases(t, u)
  BY <1>3, <1>5 DEF Eases
<1> QED
  BY <1>8, <1>9 DEF Leads, u

(* A rerender eases the tables: it admits the render first. *)
LEMMA RerenderLeads ==
  ASSUME NEW t, Good(t)
  PROVE  Leads(t, Rerender(t))
<1> DEFINE asked == Admit(t, "render", TRUE, FALSE)
<1>1. /\ Leads(t, asked)
      /\ asked # t => asked.effect["render"][t.page.revision].status \in {"pending", "retry"}
  BY AdmitLeads, Bounds
<1>2. CASE asked = t
  BY <1>2, LeadsReflexive DEF Rerender
<1>3. CASE asked # t
  <2> DEFINE invalid == Invalidated(asked)
             linked == Admit(invalid, "links", TRUE, TRUE)
             searched == Admit(linked, "search", TRUE, TRUE)
  <2>1. asked.effect["render"][asked.page.revision].status \in {"pending", "retry"}
    <3> HIDE DEF asked
    <3>1. asked.page.revision = t.page.revision
      BY <1>1 DEF Leads, Eases
    <3> QED
      BY <1>1, <1>3, <3>1
  <2>2. Leads(asked, invalid)
    BY <1>1, <2>1, InvalidatedLeads DEF Leads
  <2>3. Leads(invalid, linked)
    BY <2>2, AdmitLeads DEF Leads
  <2>4. Leads(linked, searched)
    BY <2>3, AdmitLeads DEF Leads
  <2>5. Rerender(t) = searched
    BY <1>3 DEF Rerender
  <2> HIDE DEF asked, invalid, linked, searched
  <2>6. Good(asked) /\ Good(invalid)
    BY <1>1, <2>2 DEF Leads
  <2>7. Leads(t, invalid)
    BY <1>1, <2>2, <2>6, LeadsTransitive
  <2>8. Leads(t, linked)
    BY <2>3, <2>7, LeadsTransitive
  <2> QED
    BY <2>4, <2>5, <2>8, LeadsTransitive
<1> QED
  BY <1>2, <1>3

(* So does a render that is only admitted if it is missing. *)
LEMMA EnsureRenderLeads ==
  ASSUME NEW t, Good(t)
  PROVE  Leads(t, EnsureRender(t))
  BY RerenderLeads, LeadsReflexive DEF EnsureRender

(* So does the admission of search, with the render it waits for. *)
LEMMA AdmittedSearchLeads ==
  ASSUME NEW t, Good(t)
  PROVE  Leads(t, AdmittedSearch(t))
<1> DEFINE asked == Admit(t, "search", TRUE, TRUE)
<1>1. Leads(t, asked)
  BY AdmitLeads
<1>2. Leads(asked, EnsureRender(asked))
  BY <1>1, EnsureRenderLeads DEF Leads
<1>3. AdmittedSearch(t) \in {asked, EnsureRender(asked)}
  BY DEF AdmittedSearch
<1> HIDE DEF asked
<1>4. Leads(t, EnsureRender(asked))
  BY <1>1, <1>2, LeadsTransitive DEF Leads
<1> QED
  BY <1>1, <1>3, <1>4

(* So does giving up the renders of other revisions. *)
LEMMA StaleSupersededLeads ==
  ASSUME NEW t, Good(t)
  PROVE  Leads(t, StaleSuperseded(t))
<1> DEFINE rows == t.effect["render"]
           row == [r \in Revisions |->
                     IF r # t.page.revision /\ rows[r].status \in {"pending", "retry"}
                     THEN [rows[r] EXCEPT !.status = "superseded"] ELSE rows[r]]
           g == [t.effect EXCEPT !["render"] = row]
           u == [t EXCEPT !.effect = g]
<1>1. /\ t \in TablesType /\ Core(t.page, t.effect) /\ t.page.present
      /\ t.effect \in [Kinds -> [Revisions -> Effect]]
  BY DEF Good, Core
<1>2. ASSUME NEW r \in Revisions
      PROVE  /\ SoundRow(row[r]) /\ row[r] \in Effect
             /\ row[r].desired = rows[r].desired
             /\ row[r].status \in {"running", "succeeded", "none"} => row[r] = rows[r]
             /\ r = t.page.revision => row[r] = rows[r]
             /\ row[r].status # "none" => rows[r].status # "none"
  <2>1. SoundRow(rows[r]) /\ rows[r] \in Effect
    BY <1>1, Bounds DEF Core
  <2> DEFINE f == [rows[r] EXCEPT !.status = "superseded"]
  <2>2. f \in Effect /\ f.status = "superseded" /\ f.token = rows[r].token
        /\ f.lapsed = rows[r].lapsed /\ f.desired = rows[r].desired
    BY <2>1 DEF Effect, Statuses
  <2> HIDE DEF f
  <2>3. row[r] = IF r # t.page.revision /\ rows[r].status \in {"pending", "retry"}
                 THEN f ELSE rows[r]
    BY DEF f
  <2> HIDE DEF row, rows
  <2> QED
    BY <2>1, <2>2, <2>3 DEF SoundRow
<1>3. StaleSuperseded(t) = u
  BY DEF StaleSuperseded
<1>4. row \in [Revisions -> Effect] /\ \A r \in Revisions : rows[r] = t.effect["render"][r]
  BY <1>2
<1> HIDE DEF row, rows
<1>5. /\ g \in [Kinds -> [Revisions -> Effect]] /\ g["render"] = row
      /\ \A j \in Kinds : j # "render" => g[j] = t.effect[j]
  BY <1>1, <1>4, Bounds
<1> HIDE DEF g
<1>6. u \in TablesType /\ u.page = t.page /\ u.vector = t.vector /\ u.effect = g
  BY <1>1, <1>5 DEF TablesType
<1> HIDE DEF u
<1>7. ASSUME NEW j \in Kinds, NEW q \in Revisions
      PROVE  /\ SoundRow(g[j][q]) /\ (g[j][q].status # "none" => q <= t.page.revision)
             /\ g[j][q].desired = t.effect[j][q].desired
  BY <1>1, <1>2, <1>4, <1>5 DEF Core
<1>8. t.page.revision \in Revisions
  BY PresentRevision
<1>9. Served(t.page, g)
  <2>1. /\ Served(t.page, t.effect)
        /\ \A j \in Kinds : g[j][t.page.revision].desired = t.effect[j][t.page.revision].desired
    BY <1>1, <1>7, <1>8 DEF Core
  <2>2. g["render"][t.page.revision].status = "succeeded" =>
          t.effect["render"][t.page.revision].status = "succeeded"
    BY <1>2, <1>4, <1>5, <1>8
  <2> QED
    BY <2>1, <2>2 DEF Served
<1>10. Good(u)
  BY <1>1, <1>5, <1>6, <1>7, <1>9 DEF Good, Core
<1>11. Eases(t, u)
  BY <1>2, <1>4, <1>5, <1>6 DEF Eases
<1> QED
  BY <1>3, <1>10, <1>11 DEF Leads

---------------------------------------------------------------------------
(* Steps. *)

(* What a transaction commits. *)
LEMMA CommitRight ==
  ASSUME IInv, NEW t, Good(t), t.page.revision = page.revision,
         t.page.present = page.present, t.page.certified = page.certified, t.effect = effect,
         NEW u, Leads(t, u), Body(u.page, u.vector), Commit(u),
         context' \in 0..MaxContext, refresh' \in BOOLEAN,
         work' \in [Workers -> Execution \cup {Idle}],
         \A w \in Workers :
           \/ work'[w] = work[w]
           \/ /\ work[w] # Idle /\ work'[w].revision = work[w].revision
              /\ work'[w].kind = "search"
  PROVE  IInv'
<1>1. /\ page' = u.page /\ links' = u.links /\ vector' = u.vector /\ effect' = u.effect
      /\ Core(page', effect') /\ links' \in Html /\ vector' \in Vector
  BY DEF Commit, Leads, Good, TablesType
<1>2. Body(page', vector')
  BY <1>1
<1>3. /\ page'.revision = page.revision /\ page'.present = page.present /\ page.present
      /\ page.revision \in Revisions
      /\ \A r \in Revisions : effect'["render"][r].status = "running" =>
                                effect'["render"][r] = effect["render"][r]
      /\ effect'["render"][page.revision].status = "running" =>
           page'.certified = page.certified
  BY <1>1, PresentRevision DEF Leads, Eases, Good
<1>4. ASSUME NEW w \in Workers PROVE WorkSound(w, work'[w], page', effect')
  <2>1. WorkSound(w, work[w], page, effect)
    BY DEF IInv
  <2>2. CASE work'[w] = work[w]
    BY <1>3, <2>1, <2>2 DEF WorkSound, Certified
  <2>3. CASE work'[w] # work[w]
    BY <1>3, <2>1, <2>3 DEF WorkSound
  <2> QED
    BY <2>2, <2>3
<1> QED
  BY <1>1, <1>2, <1>4 DEF IInv

(* What eases the tables leaves no body that it should not. *)
LEMMA BodyPasses ==
  ASSUME NEW t, NEW u, Leads(t, u), Body(t.page, t.vector)
  PROVE  Body(u.page, u.vector)
  BY DEF Leads, Eases, Body, Certified

(* The tables of a page that is there are ones a transaction may start from. *)
LEMMA TablesAreGood ==
  ASSUME IInv, page.present
  PROVE  /\ Good(Tables) /\ Tables.page = page /\ Tables.effect = effect
         /\ Tables.vector = vector /\ Tables.links = links /\ Body(Tables.page, Tables.vector)
  BY DEF IInv, Good, Tables, TablesType, Core

(* A transaction that eases the tables as they are. *)
LEMMA TransactionRight ==
  ASSUME IInv, page.present, NEW u, Leads(Tables, u), Commit(u),
         UNCHANGED <<context, refresh>>, work' \in [Workers -> Execution \cup {Idle}],
         \A w \in Workers :
           \/ work'[w] = work[w]
           \/ /\ work[w] # Idle /\ work'[w].revision = work[w].revision
              /\ work'[w].kind = "search"
  PROVE  IInv'
<1>1. Good(Tables) /\ Tables.page = page /\ Tables.effect = effect
  BY TablesAreGood
<1>2. Body(u.page, u.vector)
  BY TablesAreGood, BodyPasses
<1>3. context' \in 0..MaxContext /\ refresh' \in BOOLEAN
  BY DEF IInv
<1> QED
  BY <1>1, <1>2, <1>3, CommitRight

---------------------------------------------------------------------------
(* Mutations and maintenance. *)

(* The page moves to its next revision: nothing in hand is of that one.    *)
LEMMA MutatedRight ==
  ASSUME IInv, NEW p \in Page, p.revision = page.revision + 1, p.certified <= page.revision,
         p.protected => page.protected, NEW desired \in {"present", "absent"},
         desired = "present" \/ ~p.present, Mutated(p, desired), links' \in Html
  PROVE  IInv'
<1> DEFINE fresh == Waiting("pending", desired)
<1>1. /\ Core(page, effect) /\ page \in Page /\ page.revision \in Nat /\ p.certified \in Nat
  BY BoundsAssumption DEF IInv, Core, Page
<1>2. p.revision \in Revisions /\ p.revision # 0
  BY <1>1, BoundsAssumption DEF Page, Revisions
<1>3. SoundRow(fresh) /\ fresh.status = "pending" /\ fresh.desired = desired /\ fresh \in Effect
  BY WaitingIsSound DEF Statuses, SoundRow
<1> HIDE DEF fresh
<1>4. effect \in [Kinds -> [Revisions -> Effect]]
  BY <1>1 DEF Core
<1>5. effect' = [k \in Kinds |-> [effect[k] EXCEPT ![p.revision] = fresh]]
  BY DEF Mutated, fresh
<1>6. ASSUME NEW k \in Kinds, NEW r \in Revisions
      PROVE  effect'[k][r] = IF r = p.revision THEN fresh ELSE effect[k][r]
  BY <1>4, <1>5
<1>7. effect' \in [Kinds -> [Revisions -> Effect]]
  BY <1>2, <1>3, <1>4, <1>5
<1>8. page' = p /\ context' = context /\ vector' = vector /\ work' = work /\ refresh' = refresh
  BY DEF Mutated
<1>9. ASSUME NEW k \in Kinds, NEW r \in Revisions
      PROVE  SoundRow(effect'[k][r]) /\ (effect'[k][r].status # "none" => r <= p.revision)
  <2>1. r \in Nat /\ (effect[k][r].status # "none" => r <= page.revision) /\ SoundRow(effect[k][r])
    BY <1>1, Bounds DEF Core
  <2> QED
    BY <1>1, <1>3, <1>6, <2>1
<1>10. Served(p, effect')
  <2>1. p.certified # p.revision
    BY <1>1
  <2>2. \A k \in Kinds : effect'[k][p.revision] = fresh
    BY <1>2, <1>6
  <2>3. effect'["render"][p.revision].status # "succeeded"
    BY <1>3, <2>2, Bounds
  <2> QED
    BY <1>2, <1>3, <2>1, <2>2, <2>3 DEF Served, Certified
<1>11. Core(page', effect')
  BY <1>1, <1>7, <1>8, <1>9, <1>10 DEF Core
<1>12. Body(page', vector')
  <2>1. Body(page, vector) /\ vector \in Vector
    BY DEF IInv
  <2>2. vector # NoVector => vector.revision \in Nat
    BY <2>1, Bounds DEF Vector
  <2> QED
    BY <1>1, <1>8, <2>1, <2>2 DEF Body
<1>13. ASSUME NEW w \in Workers PROVE WorkSound(w, work'[w], page', effect')
  <2>1. WorkSound(w, work[w], page, effect) /\ work[w] \in Execution \cup {Idle}
    BY DEF IInv
  <2>2. work[w] # Idle => work[w].revision \in Nat
    BY <2>1, Bounds DEF Execution
  <2> QED
    BY <1>1, <1>8, <2>1, <2>2 DEF WorkSound
<1> QED
  BY <1>8, <1>11, <1>12, <1>13 DEF IInv

(* Creation, edit, deletion and restoration keep the invariant. *)
LEMMA RevisionsRight ==
  ASSUME IInv,
         CreatePage \/ SaveCanonicalPageRevision \/ DeletePage \/ RestoreDeletedPage
  PROVE  IInv'
<1>1. /\ page \in Page /\ page.certified <= page.revision /\ NoRender \in Html
      /\ page.revision \in Nat /\ page.certified \in Nat /\ links \in Html /\ MaxRevision \in Nat
  BY BoundsAssumption DEF IInv, Core, Page, Html
<1>2. 0 \in 0..MaxRevision /\ (page.revision < MaxRevision => page.revision + 1 \in 0..MaxRevision)
  BY <1>1
<1>3. CASE CreatePage
  <2>1. PICK listed \in Listings, window \in Windows :
          Mutated([NoPage EXCEPT !.present = TRUE, !.revision = 1,
                                 !.listed = listed, !.window = window], "present")
    BY <1>3 DEF CreatePage
  <2> DEFINE p == [NoPage EXCEPT !.present = TRUE, !.revision = 1,
                                 !.listed = listed, !.window = window]
  <2>2. listed \in BOOLEAN /\ window \in {"before", "open", "after"} /\ 1 \in 0..MaxRevision
    BY BoundsAssumption DEF Windows
  <2>3. p \in Page /\ p.revision = 1 /\ p.certified = 0 /\ ~p.protected
    BY <1>1, <1>2, <2>2 DEF NoPage, Page
  <2> HIDE DEF p
  <2>4. Mutated(p, "present")
    BY <2>1 DEF p
  <2>5. links' \in Html /\ page.revision = 0
    BY <1>1, <1>3 DEF CreatePage
  <2>6. p.revision = page.revision + 1 /\ p.certified <= page.revision
    BY <2>3, <2>5
  <2> QED
    BY <2>3, <2>4, <2>5, <2>6, MutatedRight
<1>4. CASE SaveCanonicalPageRevision
  <2>1. PICK listed \in Listings, window \in Windows :
          Mutated([page EXCEPT !.revision = @ + 1, !.certified = 0,
                               !.listed = listed, !.window = window], "present")
    BY <1>4 DEF SaveCanonicalPageRevision
  <2> DEFINE n == page.revision + 1
             p == [page EXCEPT !.revision = n, !.certified = 0,
                               !.listed = listed, !.window = window]
  <2>2. listed \in BOOLEAN /\ window \in {"before", "open", "after"} /\ n \in 0..MaxRevision
    BY <1>2, <1>4, BoundsAssumption DEF Windows, SaveCanonicalPageRevision
  <2>3. Mutated(p, "present")
    BY <2>1
  <2> HIDE DEF n
  <2>4. p \in Page /\ p.revision = n /\ p.certified = 0 /\ p.protected = page.protected
    BY <1>1, <1>2, <2>2 DEF Page
  <2> HIDE DEF p
  <2>5. n = page.revision + 1 /\ p.certified <= page.revision
    BY <1>1, <2>4 DEF n
  <2>6. links' \in Html
    BY <1>1, <1>4 DEF SaveCanonicalPageRevision
  <2> QED
    BY <2>3, <2>4, <2>5, <2>6, MutatedRight
<1>5. CASE DeletePage
  <2> DEFINE n == page.revision + 1
             p == [page EXCEPT !.revision = n, !.present = FALSE, !.certified = 0,
                               !.render = NoRender]
  <2>1. Mutated(p, "absent") /\ n \in 0..MaxRevision /\ links' \in Html
    BY <1>1, <1>2, <1>5 DEF DeletePage
  <2> HIDE DEF n
  <2>2. p \in Page /\ p.revision = n /\ p.certified = 0 /\ p.protected = page.protected
        /\ ~p.present
    BY <1>1, <1>2, <2>1 DEF Page
  <2> HIDE DEF p
  <2>3. n = page.revision + 1 /\ p.certified <= page.revision
    BY <1>1, <2>2 DEF n
  <2> QED
    BY <2>1, <2>2, <2>3, MutatedRight
<1>6. CASE RestoreDeletedPage
  <2> DEFINE n == page.revision + 1
             p == [page EXCEPT !.revision = n, !.present = TRUE, !.listed = FALSE]
  <2>1. Mutated(p, "present") /\ links' \in Html
    BY <1>1, <1>6 DEF RestoreDeletedPage
  <2>2. n \in 0..MaxRevision
    BY <1>1, <1>6 DEF RestoreDeletedPage
  <2> HIDE DEF n
  <2>3. p \in Page /\ p.revision = n /\ p.certified = page.certified
        /\ p.protected = page.protected
    BY <1>1, <2>2 DEF Page
  <2> HIDE DEF p
  <2>4. n = page.revision + 1 /\ p.certified <= page.revision
    BY <1>1, <2>3 DEF n
  <2> QED
    BY <2>1, <2>3, <2>4, MutatedRight
<1> QED
  BY <1>3, <1>4, <1>5, <1>6

(* The publication window and the context move without a revision.         *)
LEMMA QuietMutationsRight ==
  ASSUME IInv, WindowMoves \/ ContextChanges
  PROVE  IInv'
<1>1. CASE WindowMoves
  <2> DEFINE window == IF page.window = "before" THEN "open" ELSE "after"
             p == [page EXCEPT !.window = window]
  <2>1. page \in Page /\ window \in {"before", "open", "after"}
    BY DEF IInv, Core
  <2>2. /\ page' = p
        /\ UNCHANGED <<context, links, vector, effect, work, refresh>>
    BY <1>1 DEF WindowMoves
  <2> HIDE DEF window
  <2>3. p \in Page /\ p.present = page.present /\ p.revision = page.revision
        /\ p.certified = page.certified /\ p.render = page.render /\ p.protected = page.protected
    BY <2>1 DEF Page
  <2> HIDE DEF p
  <2>4. Core(page', effect')
    BY <2>2, <2>3 DEF IInv, Core, Served, Certified
  <2>5. Body(page', vector')
    BY <2>2, <2>3 DEF IInv, Body, Certified
  <2>6. \A w \in Workers : WorkSound(w, work'[w], page', effect')
    BY <2>2, <2>3 DEF IInv, WorkSound, Certified
  <2> QED
    BY <2>2, <2>4, <2>5, <2>6 DEF IInv
<1>2. CASE ContextChanges
  BY <1>2, BoundsAssumption DEF ContextChanges, IInv
<1> QED
  BY <1>1, <1>2

(* So do a rerender and the audits of the page that is there. *)
LEMMA AdmissionsRight ==
  ASSUME IInv, AdmitPageRenderEffect \/ MaintainGraphEffects \/ RepairSearchPage
  PROVE  IInv'
<1>0. work' = work /\ context' = context /\ refresh' = refresh /\ page.present
      /\ work' \in [Workers -> Execution \cup {Idle}]
  BY DEF AdmitPageRenderEffect, MaintainGraphEffects, RepairSearchPage, IInv
<1>1. Good(Tables)
  BY <1>0, TablesAreGood
<1>2. ASSUME NEW u, Leads(Tables, u), Commit(u) PROVE IInv'
  BY <1>0, <1>2, TransactionRight
<1>3. CASE AdmitPageRenderEffect
  <2>1. PICK t \in {Tables, StaleSuperseded(Tables)} : Commit(Rerender(t))
    BY <1>3 DEF AdmitPageRenderEffect
  <2>2. Leads(Tables, t)
    BY <1>1, StaleSupersededLeads, LeadsReflexive
  <2>3. Leads(t, Rerender(t))
    BY <2>2, RerenderLeads DEF Leads
  <2> QED
    BY <1>1, <1>2, <2>1, <2>2, <2>3, LeadsTransitive
<1>4. ASSUME NEW t \in {Tables, EnsureRender(Tables)}, NEW k \in {"links", "search"},
             NEW rearm \in BOOLEAN, Commit(Admit(t, k, rearm, FALSE))
      PROVE  IInv'
  <2>1. Leads(Tables, t)
    BY <1>1, EnsureRenderLeads, LeadsReflexive
  <2>2. Leads(t, Admit(t, k, rearm, FALSE))
    BY <2>1, AdmitLeads DEF Leads
  <2> QED
    BY <1>1, <1>2, <1>4, <2>1, <2>2, LeadsTransitive
<1>5. CASE MaintainGraphEffects
  <2> DEFINE t == EnsureRender(Tables)
             disagree == t = Tables /\ Certified(page) /\ links # page.render
  <2>1. Commit(Admit(t, "links", disagree, FALSE)) /\ disagree \in BOOLEAN
    BY <1>5 DEF MaintainGraphEffects
  <2> HIDE DEF disagree
  <2> QED
    BY <1>4, <2>1
<1>6. CASE RepairSearchPage
  <2> DEFINE t == IF Eligible(page) /\ ~page.protected THEN EnsureRender(Tables) ELSE Tables
  <2>1. Commit(Admit(t, "search", SearchStateDisagrees, FALSE)) /\ SearchStateDisagrees \in BOOLEAN
    BY <1>6 DEF RepairSearchPage, SearchStateDisagrees
  <2>2. t \in {Tables, EnsureRender(Tables)}
    OBVIOUS
  <2> HIDE DEF t
  <2> QED
    BY <1>4, <2>1, <2>2
<1> QED
  BY <1>3, <1>5, <1>6

(* So do setting and removing its password. *)
LEMMA ProtectionRight ==
  ASSUME IInv, SetPageProtection \/ RemovePageProtection
  PROVE  IInv'
<1>0. /\ work' = work /\ context' = context /\ refresh' \in BOOLEAN /\ page.present
      /\ work' \in [Workers -> Execution \cup {Idle}] /\ context' \in 0..MaxContext
  BY DEF SetPageProtection, RemovePageProtection, IInv
<1>1. ASSUME NEW b \in BOOLEAN
      PROVE  LET t == [Tables EXCEPT !.page.protected = b]
             IN  /\ Good(t) /\ t.page.revision = page.revision /\ t.page.present = page.present
                 /\ t.page.certified = page.certified /\ t.effect = effect
                 /\ t.page.protected = b /\ t.vector = vector
  <2> DEFINE p == [page EXCEPT !.protected = b]
             t == [Tables EXCEPT !.page.protected = b]
  <2>1. page \in Page /\ Core(page, effect) /\ links \in Html /\ vector \in Vector
        /\ effect \in [Kinds -> [Revisions -> Effect]]
    BY DEF IInv, Core
  <2>2. /\ p \in Page /\ p.present = page.present /\ p.revision = page.revision
        /\ p.certified = page.certified /\ p.render = page.render /\ p.protected = b
    BY <2>1 DEF Page
  <2>3. t = [page |-> p, links |-> links, vector |-> vector, effect |-> effect]
    BY DEF Tables
  <2> HIDE DEF p, t
  <2>4. Core(p, effect)
    BY <2>1, <2>2 DEF Core, Served, Certified
  <2>5. t \in TablesType /\ t.page = p /\ t.effect = effect /\ t.vector = vector
    BY <2>1, <2>2, <2>3 DEF TablesType
  <2>6. Good(t)
    BY <1>0, <2>2, <2>4, <2>5 DEF Good
  <2> QED
    BY <2>2, <2>5, <2>6 DEF t
<1>2. CASE SetPageProtection
  <2> DEFINE t == [Tables EXCEPT !.page.protected = TRUE]
             u == AdmittedSearch(t)
             v == [u EXCEPT !.vector = NoVector]
  <2>1. Commit(v)
    BY <1>2 DEF SetPageProtection
  <2>2. /\ Good(t) /\ t.page.revision = page.revision /\ t.page.present = page.present
        /\ t.page.certified = page.certified /\ t.effect = effect
    BY <1>1
  <2> HIDE DEF t
  <2>3. Leads(t, u)
    BY <2>2, AdmittedSearchLeads
  <2> HIDE DEF u
  <2>4. u \in TablesType /\ NoVector \in Vector
    BY <2>3 DEF Leads, Good, Vector
  <2>5. v \in TablesType /\ v.page = u.page /\ v.effect = u.effect /\ v.vector = NoVector
    BY <2>4 DEF TablesType
  <2> HIDE DEF v
  <2>6. Leads(t, v) /\ Body(v.page, v.vector)
    BY <2>3, <2>5 DEF Leads, Eases, Good, Body
  <2> QED
    BY <1>0, <2>1, <2>2, <2>6, CommitRight
<1>3. CASE RemovePageProtection
  <2> DEFINE t == [Tables EXCEPT !.page.protected = FALSE]
             u == AdmittedSearch(t)
  <2>1. Commit(u)
    BY <1>3 DEF RemovePageProtection
  <2>2. /\ Good(t) /\ t.page.revision = page.revision /\ t.page.present = page.present
        /\ t.page.certified = page.certified /\ t.effect = effect
        /\ t.page.protected = FALSE /\ t.vector = vector
    BY <1>1
  <2> HIDE DEF t
  <2>3. Leads(t, u)
    BY <2>2, AdmittedSearchLeads
  <2> HIDE DEF u
  <2>4. Body(t.page, t.vector)
    BY <2>2 DEF IInv, Body, Certified
  <2>5. Body(u.page, u.vector)
    BY <2>3, <2>4, BodyPasses
  <2> QED
    BY <1>0, <2>1, <2>2, <2>3, <2>5, CommitRight
<1> QED
  BY <1>2, <1>3

---------------------------------------------------------------------------
(* Claims and leases. *)

\* A process whose row turns holds it only if it did, or drops what it does.
Keeps(w, e, f) ==
  \/ /\ work'[w] = work[w]
     /\ f.status = "running" /\ f.token = w => e.status = "running" /\ e.token = w
  \/ work'[w] = Idle

\* A row that changes hands, or is freed: no claim's receipt appears by it.
Turns(e, f) ==
  /\ SoundRow(f) /\ f.desired = e.desired
  /\ f.status # "none" => e.status # "none"
  /\ f.status = "succeeded" => e.status = "succeeded"

(* Steps that turn rows and leave the page and what others hold alone.     *)
LEMMA RowsRight ==
  ASSUME IInv, effect' \in [Kinds -> [Revisions -> Effect]],
         \A k \in Kinds, r \in Revisions : Turns(effect[k][r], effect'[k][r]),
         UNCHANGED <<page, context, links, vector, refresh>>,
         work' \in [Workers -> Execution \cup {Idle}],
         \A w \in Workers :
           \/ /\ work'[w] = work[w]
              /\ \A r \in Revisions :
                   effect'["render"][r].status = "running" /\ effect'["render"][r].token = w =>
                     effect["render"][r].status = "running" /\ effect["render"][r].token = w
           \/ work'[w] = Idle
           \/ work'[w].phase = "claimed" /\ work'[w].revision <= page.revision
  PROVE  IInv'
<1>1. Core(page, effect)
  BY DEF IInv
<1>2. Served(page', effect')
  <2>1. page.present => page.revision \in Revisions
    BY <1>1, Bounds DEF Core, Served, Page, Revisions
  <2>2. Served(page, effect) /\ page' = page
    BY <1>1 DEF Core
  <2>3. page.present =>
          /\ \A k \in Kinds : effect'[k][page.revision].desired = effect[k][page.revision].desired
          /\ effect'["render"][page.revision].status = "succeeded" =>
               effect["render"][page.revision].status = "succeeded"
    <3> SUFFICES ASSUME page.present, NEW k \in Kinds
                 PROVE  /\ effect'[k][page.revision].desired = effect[k][page.revision].desired
                        /\ effect'[k][page.revision].status = "succeeded" =>
                             effect[k][page.revision].status = "succeeded"
      BY Bounds
    <3>1. Turns(effect[k][page.revision], effect'[k][page.revision])
      BY <2>1
    <3> QED
      BY <3>1 DEF Turns
  <2>4. Served(page, effect')
    BY <2>2, <2>3 DEF Served
  <2> QED
    BY <2>2, <2>4
<1>3. Core(page', effect')
  BY <1>1, <1>2 DEF Core, Turns
<1>4. ASSUME NEW w \in Workers PROVE WorkSound(w, work'[w], page', effect')
  <2>1. WorkSound(w, work[w], page, effect) /\ work[w] \in Execution \cup {Idle}
    BY DEF IInv
  <2>2. work[w] # Idle => work[w].revision \in Revisions
    BY <2>1 DEF Execution
  <2> QED
    BY <2>1, <2>2 DEF WorkSound
<1> QED
  BY <1>3, <1>4 DEF IInv

(* One row turns. *)
LEMMA RowRight ==
  ASSUME IInv, NEW k \in Kinds, NEW r \in Revisions, NEW f, Turns(effect[k][r], f),
         effect' = [effect EXCEPT ![k][r] = f],
         UNCHANGED <<page, context, links, vector, refresh>>,
         work' \in [Workers -> Execution \cup {Idle}],
         \A w \in Workers : Keeps(w, effect[k][r], f)
  PROVE  IInv'
<1>1. effect \in [Kinds -> [Revisions -> Effect]] /\ f \in Effect
      /\ \A j \in Kinds, q \in Revisions : SoundRow(effect[j][q])
  BY DEF IInv, Core, Turns, SoundRow
<1>2. effect' \in [Kinds -> [Revisions -> Effect]]
      /\ \A j \in Kinds, q \in Revisions :
           effect'[j][q] = IF j = k /\ q = r THEN f ELSE effect[j][q]
  BY <1>1
<1>3. \A j \in Kinds, q \in Revisions : Turns(effect[j][q], effect'[j][q])
  BY <1>1, <1>2 DEF Turns
<1> QED
  BY <1>2, <1>3, RowsRight, Bounds DEF Keeps

(* Freeing a lapsed lease turns its row. *)
LEMMA ReleasedTurns ==
  ASSUME IInv
  PROVE  /\ Released \in [Kinds -> [Revisions -> Effect]]
         /\ \A k \in Kinds, r \in Revisions :
              /\ Turns(effect[k][r], Released[k][r])
              /\ Released[k][r].status = "running" => Released[k][r] = effect[k][r]
<1>1. ASSUME NEW k \in Kinds, NEW r \in Revisions
      PROVE  /\ Turns(effect[k][r], Released[k][r]) /\ Released[k][r] \in Effect
             /\ Released[k][r].status = "running" => Released[k][r] = effect[k][r]
  <2> DEFINE e == effect[k][r]
             f == [e EXCEPT !.status = "pending", !.token = NoToken, !.lapsed = FALSE]
  <2>1. SoundRow(e) /\ e \in Effect
    BY DEF IInv, Core, SoundRow
  <2>2. /\ f \in Effect /\ f.status = "pending" /\ f.token = NoToken /\ f.lapsed = FALSE
        /\ f.desired = e.desired
    BY <2>1 DEF Effect, Statuses
  <2>3. Released[k][r] = IF e.status = "running" /\ e.lapsed THEN f ELSE e
    BY DEF Released
  <2> HIDE DEF e, f
  <2>4. e = effect[k][r]
    BY DEF e
  <2> QED
    BY <2>1, <2>2, <2>3, <2>4 DEF Turns, SoundRow
<1>2. Released = [k \in Kinds |-> [r \in Revisions |-> Released[k][r]]]
  BY DEF Released
<1> QED
  BY <1>1, <1>2

(* A claim gives a row that waits to a process that does nothing. *)
LEMMA ClaimRight ==
  ASSUME IInv, NEW w \in Workers, NEW k \in Kinds, NEW r \in Revisions,
         ClaimPageMutationEffect(w, k, r)
  PROVE  IInv'
<1> DEFINE e == Released[k][r]
           f == Claimed(e, w)
           x == [kind |-> k, revision |-> r, attempts |-> f.attempts,
                 phase |-> "claimed", seen |-> NoRender, eligible |-> FALSE]
<1>1. /\ Released \in [Kinds -> [Revisions -> Effect]]
      /\ \A j \in Kinds, q \in Revisions :
           /\ Turns(effect[j][q], Released[j][q])
           /\ Released[j][q].status = "running" => Released[j][q] = effect[j][q]
  BY ReleasedTurns
<1>2. /\ work[w] = Idle /\ e.status \in {"pending", "retry"} /\ e \in Effect
      /\ effect' = [Released EXCEPT ![k][r] = f]
      /\ UNCHANGED <<page, context, links, vector, refresh>>
  BY <1>1 DEF ClaimPageMutationEffect
<1>3. /\ f \in Effect /\ f.status = "running" /\ f.token = w /\ f.lapsed = FALSE
      /\ f.desired = e.desired /\ f.attempts \in 1..MaxAttempts
  <2> DEFINE n == IF e.attempts = MaxAttempts THEN e.attempts ELSE e.attempts + 1
  <2>1. n \in 1..MaxAttempts /\ n \in 0..MaxAttempts
    BY <1>2, Bounds DEF Effect
  <2>2. f = [e EXCEPT !.status = "running", !.token = w, !.lapsed = FALSE, !.attempts = n]
    BY DEF Claimed
  <2> HIDE DEF n, f, e
  <2> QED
    BY <1>2, <2>1, <2>2 DEF Effect, Statuses
<1> HIDE DEF f
<1>4. /\ effect' \in [Kinds -> [Revisions -> Effect]]
      /\ \A j \in Kinds, q \in Revisions :
           effect'[j][q] = IF j = k /\ q = r THEN f ELSE Released[j][q]
  BY <1>1, <1>2, <1>3
<1>5. work' = [work EXCEPT ![w] = x]
  BY <1>4 DEF ClaimPageMutationEffect
<1>6. x \in Execution /\ x.phase = "claimed" /\ x.revision = r
  BY <1>3 DEF Execution, Phases, Html
<1> HIDE DEF x
<1>7. /\ work' \in [Workers -> Execution \cup {Idle}] /\ work'[w] = x
      /\ \A v \in Workers : v # w => work'[v] = work[v]
  BY <1>5, <1>6 DEF IInv
<1>8. \A j \in Kinds, q \in Revisions : Turns(effect[j][q], effect'[j][q])
  BY <1>1, <1>2, <1>3, <1>4, TokensAssumption DEF Turns, SoundRow
<1>9. r <= page.revision
  BY <1>1, <1>2 DEF IInv, Core, Turns
<1>10. ASSUME NEW v \in Workers
       PROVE  \/ /\ work'[v] = work[v]
                 /\ \A q \in Revisions :
                      effect'["render"][q].status = "running" /\ effect'["render"][q].token = v =>
                        effect["render"][q].status = "running" /\ effect["render"][q].token = v
              \/ work'[v] = Idle
              \/ work'[v].phase = "claimed" /\ work'[v].revision <= page.revision
  <2>1. CASE v = w
    BY <1>6, <1>7, <1>9, <2>1
  <2>2. CASE v # w
    BY <1>1, <1>3, <1>4, <1>7, <2>2, Bounds
  <2> QED
    BY <2>1, <2>2
<1> QED
  BY <1>2, <1>4, <1>7, <1>8, <1>10, RowsRight

(* Leases run out and are freed, and an absent page is audited again. *)
LEMMA LeasesRight ==
  ASSUME IInv, \/ ReleaseExpired
               \/ \E k \in Kinds, r \in Revisions : Lapse(k, r)
               \/ \E r \in Revisions : MaintainAbsentSearchEffects(r)
  PROVE  IInv'
<1>0. work \in [Workers -> Execution \cup {Idle}]
  BY DEF IInv
<1>1. CASE ReleaseExpired
  BY <1>0, <1>1, ReleasedTurns, RowsRight, Bounds DEF ReleaseExpired
<1>2. ASSUME NEW k \in Kinds, NEW r \in Revisions, Lapse(k, r)
      PROVE  IInv'
  <2> DEFINE f == [effect[k][r] EXCEPT !.lapsed = TRUE]
  <2>1. SoundRow(effect[k][r]) /\ effect[k][r].status = "running"
    BY <1>2 DEF IInv, Core, Lapse
  <2>2. /\ f \in Effect /\ f.status = "running" /\ f.token = effect[k][r].token
        /\ f.desired = effect[k][r].desired
    BY <2>1 DEF SoundRow, Effect
  <2>3. effect' = [effect EXCEPT ![k][r] = f]
    BY <1>2 DEF Lapse
  <2> HIDE DEF f
  <2>4. Turns(effect[k][r], f)
    BY <2>1, <2>2 DEF Turns, SoundRow
  <2>5. UNCHANGED <<page, context, links, vector, work, refresh>>
    BY <1>2 DEF Lapse
  <2>6. \A v \in Workers : Keeps(v, effect[k][r], f)
    BY <2>1, <2>2, <2>5 DEF Keeps
  <2>7. work' \in [Workers -> Execution \cup {Idle}]
    BY <1>0, <2>5
  <2> QED
    BY <2>3, <2>4, <2>5, <2>6, <2>7, RowRight
<1>3. ASSUME NEW r \in Revisions, MaintainAbsentSearchEffects(r)
      PROVE  IInv'
  <2> DEFINE f == Waiting("retry", "absent")
  <2>1. SoundRow(f) /\ f.status = "retry" /\ f.desired = "absent"
    BY WaitingIsSound DEF Statuses
  <2>2. /\ effect' = [effect EXCEPT !["search"][r] = f] /\ "search" \in Kinds
        /\ Turns(effect["search"][r], f)
    BY <1>3, <2>1 DEF MaintainAbsentSearchEffects, Turns
  <2> HIDE DEF f
  <2> QED
    BY <1>0, <1>3, <2>1, <2>2, RowRight DEF MaintainAbsentSearchEffects, Keeps
<1> QED
  BY <1>1, <1>2, <1>3

---------------------------------------------------------------------------
(* The execution of a claimed effect. *)

(* What the invariant says of a process that executes an effect. *)
LEMMA Executing ==
  ASSUME IInv, NEW w \in Workers, work[w] # Idle
  PROVE  /\ work[w] \in Execution /\ work[w].kind \in Kinds /\ work[w].revision \in Revisions
         /\ SoundRow(Row(w)) /\ Row(w) = effect[work[w].kind][work[w].revision]
         /\ WorkSound(w, work[w], page, effect)
  BY DEF IInv, Core, Execution, Row

\* What an execution has in hand changes, and the execution goes on.
Holds(w, phase, seen, eligible) ==
  work' = [work EXCEPT ![w] = [work[w] EXCEPT !.phase = phase, !.seen = seen,
                                              !.eligible = eligible]]

(* A step of a sink that writes links or the search row, and no other row.  *)
LEMMA SinkRight ==
  ASSUME IInv, NEW w \in Workers, work[w] # Idle,
         NEW phase \in Phases, NEW seen \in Html, NEW eligible \in BOOLEAN,
         Holds(w, phase, seen, eligible),
         UNCHANGED <<page, effect, context, refresh>>, links' \in Html,
         vector' \in Vector, Body(page, vector'),
         /\ work[w].kind = "render" /\ phase = "publish" =>
              seen # NoRender /\ seen.revision = work[w].revision
         /\ work[w].kind = "render" /\ phase = "satisfied" =>
              (Current(work[w].revision) => Certified(page))
  PROVE  IInv'
<1> DEFINE x == [work[w] EXCEPT !.phase = phase, !.seen = seen, !.eligible = eligible]
<1>1. work[w] \in Execution /\ WorkSound(w, work[w], page, effect)
  BY Executing
<1>2. /\ x \in Execution /\ x.kind = work[w].kind /\ x.revision = work[w].revision
      /\ x.phase = phase /\ x.seen = seen
  BY <1>1 DEF Execution
<1>3. work' = [work EXCEPT ![w] = x]
  BY DEF Holds
<1> HIDE DEF x
<1>4. /\ work' \in [Workers -> Execution \cup {Idle}] /\ work'[w] = x
      /\ \A v \in Workers : v # w => work'[v] = work[v]
  BY <1>2, <1>3 DEF IInv
<1>5. WorkSound(w, x, page, effect)
  BY <1>1, <1>2 DEF WorkSound, Current
<1>6. page' = page /\ effect' = effect /\ context' = context /\ refresh' = refresh
  OBVIOUS
<1>7. Core(page', effect') /\ Body(page', vector')
  BY <1>6 DEF IInv
<1>8. ASSUME NEW v \in Workers PROVE WorkSound(v, work'[v], page', effect')
  <2>1. CASE v = w
    BY <1>4, <1>5, <1>6, <2>1
  <2>2. CASE v # w
    BY <1>4, <1>6, <2>2 DEF IInv
  <2> QED
    BY <2>1, <2>2
<1>9. context' \in 0..MaxContext /\ refresh' \in BOOLEAN
  BY <1>6 DEF IInv
<1> QED
  BY <1>4, <1>7, <1>8, <1>9 DEF IInv

(* What a phase alone is. *)
LEMMA GoesRight ==
  ASSUME IInv, NEW w \in Workers, work[w] # Idle, NEW phase \in Phases, Goes(w, phase),
         UNCHANGED <<page, effect, context, refresh>>, links' \in Html,
         vector' \in Vector, Body(page, vector'), phase # "publish",
         work[w].kind = "render" /\ phase = "satisfied" =>
           (Current(work[w].revision) => Certified(page))
  PROVE  IInv'
<1>1. work[w] \in Execution
  BY Executing
<1>2. [work[w] EXCEPT !.phase = phase] =
        [work[w] EXCEPT !.phase = phase, !.seen = work[w].seen, !.eligible = work[w].eligible]
  BY <1>1 DEF Execution
<1>3. work[w].seen \in Html /\ work[w].eligible \in BOOLEAN
  BY <1>1 DEF Execution
<1> DEFINE seen == work[w].seen
           eligible == work[w].eligible
<1>4. Holds(w, phase, seen, eligible)
  <2>1. work' = [work EXCEPT ![w] = [work[w] EXCEPT !.phase = phase]]
    BY DEF Goes
  <2> QED
    BY <1>2, <2>1 DEF Holds
<1>5. seen \in Html /\ eligible \in BOOLEAN
  BY <1>3
<1> HIDE DEF seen, eligible
<1> QED
  BY <1>4, <1>5, SinkRight

(* What a read of the page leaves in hand. *)
LEMMA ReadsRight ==
  ASSUME IInv, NEW w \in Workers, work[w] # Idle, NEW phase \in Phases, NEW seen \in Html,
         NEW eligible \in BOOLEAN, Reads(w, phase, seen, eligible), phase # "publish",
         work[w].kind = "render" /\ phase = "satisfied" =>
           (Current(work[w].revision) => Certified(page))
  PROVE  IInv'
<1>1. links \in Html /\ vector \in Vector /\ Body(page, vector)
  BY DEF IInv
<1>2. Holds(w, phase, seen, eligible) /\ UNCHANGED <<page, context, links, vector, effect, refresh>>
  BY DEF Reads, Holds
<1> QED
  BY <1>1, <1>2, SinkRight

(* An execution that ends without a word leaves its row to nobody. *)
LEMMA DropRight ==
  ASSUME IInv, NEW w \in Workers, work[w] # Idle, Drop(w),
         UNCHANGED <<page, context, links, vector, refresh>>
  PROVE  IInv'
<1> DEFINE k == work[w].kind
           r == work[w].revision
<1>1. /\ k \in Kinds /\ r \in Revisions /\ SoundRow(effect[k][r]) /\ Row(w) = effect[k][r]
  BY Executing
<1>2. /\ work' \in [Workers -> Execution \cup {Idle}] /\ work'[w] = Idle
      /\ \A v \in Workers : v # w => work'[v] = work[v]
  BY DEF Drop, IInv
<1>3. CASE Owned(w)
  <2> DEFINE f == [effect[k][r] EXCEPT !.token = Lost]
  <2>1. /\ f \in Effect /\ f.token = Lost /\ f.status = "running"
        /\ f.desired = effect[k][r].desired
    BY <1>1, <1>3 DEF Owned, SoundRow, Effect
  <2>2. effect' = [effect EXCEPT ![k][r] = f]
    BY <1>3 DEF Drop
  <2> HIDE DEF f
  <2>3. Turns(effect[k][r], f) /\ Lost \notin Workers
    BY <1>1, <1>3, <2>1, TokensAssumption DEF Turns, SoundRow, Owned
  <2>4. \A v \in Workers : Keeps(v, effect[k][r], f)
    BY <1>2, <2>1, <2>3 DEF Keeps
  <2> HIDE DEF k, r
  <2> QED
    BY <1>1, <1>2, <2>2, <2>3, <2>4, RowRight
<1>4. CASE ~Owned(w)
  <2>1. effect' = effect
    BY <1>4 DEF Drop
  <2>2. \A j \in Kinds, q \in Revisions : Turns(effect[j][q], effect[j][q])
    BY DEF Turns, IInv, Core
  <2>3. effect' \in [Kinds -> [Revisions -> Effect]]
    BY <2>1 DEF IInv, Core
  <2> QED
    BY <1>2, <2>1, <2>2, <2>3, RowsRight
<1> QED
  BY <1>3, <1>4

(* The first steps of a sink: it holds the lease, and reads the page. *)
LEMMA ReadingRight ==
  ASSUME IInv, NEW w \in Workers,
         BeginExecution(w) \/ ReadSuperseded(w) \/ ReadAbsent(w) \/ ReadCurrent(w)
  PROVE  IInv'
<1>0. /\ work[w] # Idle /\ NoRender \in Html /\ work[w].kind \in {"render", "links", "search"}
      /\ links \in Html /\ vector \in Vector /\ Body(page, vector)
  BY Executing, Bounds DEF At, BeginExecution, ReadSuperseded, ReadAbsent, ReadCurrent, Html, IInv
<1>1. CASE BeginExecution(w)
  <2>1. CASE Alive(w)
    BY <1>0, <1>1, <2>1, GoesRight DEF BeginExecution, Phases
  <2>2. CASE ~Alive(w)
    BY <1>0, <1>1, <2>2, DropRight DEF BeginExecution
  <2> QED
    BY <2>1, <2>2
<1>2. CASE ReadSuperseded(w)
  <2>1. ~Current(work[w].revision)
    <3>1. Current(work[w].revision) => Row(w).desired = "present"
      BY <1>0, Executing DEF IInv, Core, Served, Current
    <3> QED
      BY <1>2, <3>1 DEF ReadSuperseded, Current
  <2>2. Reads(w, "satisfied", NoRender, FALSE) /\ "satisfied" \in Phases
    BY <1>2 DEF ReadSuperseded, Phases
  <2> QED
    BY <1>0, <2>1, <2>2, ReadsRight
<1>3. CASE ReadAbsent(w)
  <2>1. PICK phase \in {"satisfied", "remove", "reconcile"} : Reads(w, phase, NoRender, FALSE)
    BY <1>3 DEF ReadAbsent
  <2>2. phase \in Phases /\ ~Current(work[w].revision)
    BY <1>3 DEF ReadAbsent, Current, Phases
  <2> QED
    BY <1>0, <2>1, <2>2, ReadsRight
<1>4. CASE ReadCurrent(w)
  <2>1. \E phase \in {"render", "replace", "threw", "reconcile", "depend"},
           seen \in {NoRender, page.render}, eligible \in BOOLEAN : Reads(w, phase, seen, eligible)
    BY <1>4 DEF ReadCurrent, Eligible
  <2>2. PICK phase \in {"render", "replace", "threw", "reconcile", "depend"},
             seen \in {NoRender, page.render}, eligible \in BOOLEAN : Reads(w, phase, seen, eligible)
    BY <2>1
  <2>3. seen \in Html /\ phase \in Phases
    BY <1>0, <2>2 DEF IInv, Core, Page, Phases
  <2> QED
    BY <1>0, <2>2, <2>3, ReadsRight
<1> QED
  BY <1>1, <1>2, <1>3, <1>4

(* A render keeps what it read the page to be, and looks at it again.      *)
LEMMA RenderRight ==
  ASSUME IInv, NEW w \in Workers, RenderHtml(w)
  PROVE  IInv'
<1>0. /\ work[w] # Idle /\ NoRender \in Html /\ work[w].revision \in Revisions
      /\ links \in Html /\ vector \in Vector /\ Body(page, vector) /\ context \in 0..MaxContext
      /\ {"publish", "check", "threw"} \subseteq Phases
  BY Executing DEF At, Doing, RenderHtml, Html, IInv, Phases
<1>1. CASE Current(work[w].revision)
  <2> DEFINE seen == [revision |-> work[w].revision, context |-> context]
  <2>1. seen \in Html /\ seen # NoRender /\ seen.revision = work[w].revision
    BY <1>0, SentinelsAssumption DEF Html
  <2>2. Reads(w, "publish", seen, FALSE)
    BY <1>1 DEF RenderHtml
  <2> HIDE DEF seen
  <2>3. /\ Holds(w, "publish", seen, FALSE)
        /\ UNCHANGED <<page, context, links, vector, effect, refresh>>
    BY <2>2 DEF Reads, Holds
  <2> QED
    BY <1>0, <2>1, <2>3, SinkRight
<1>2. CASE ~Current(work[w].revision)
  <2>1. PICK phase \in {"check", "threw"} : Reads(w, phase, NoRender, FALSE)
    BY <1>2 DEF RenderHtml
  <2> QED
    BY <1>0, <2>1, ReadsRight
<1> QED
  BY <1>1, <1>2

(* HTML is published under the page's lock, for the revision it was made of. *)
LEMMA PublishRight ==
  ASSUME IInv, NEW w \in Workers, PublishRender(w)
  PROVE  IInv'
<1>0. /\ work[w] # Idle /\ work[w].kind = "render" /\ work[w].phase = "publish"
      /\ work[w] \in Execution /\ WorkSound(w, work[w], page, effect) /\ "check" \in Phases
      /\ links \in Html /\ vector \in Vector /\ Body(page, vector)
      /\ UNCHANGED <<context, links, vector, effect, refresh>> /\ Goes(w, "check")
  BY Executing DEF At, Doing, PublishRender, IInv, Phases
<1>1. CASE ~Publishable(w)
  <2>1. UNCHANGED page
    BY <1>1 DEF PublishRender
  <2> QED
    BY <1>0, <2>1, GoesRight
<1>2. CASE Publishable(w)
  <2> DEFINE seen == work[w].seen
             p == [page EXCEPT !.render = seen, !.certified = page.revision]
  <2>1. page' = p
    BY <1>2 DEF PublishRender
  <2>2. seen \in Html /\ seen # NoRender /\ seen.revision = page.revision
    BY <1>0, <1>2 DEF WorkSound, Execution, Publishable, Current
  <2>3. page \in Page /\ Core(page, effect)
    BY DEF IInv, Core
  <2> HIDE DEF seen
  <2>4. /\ p \in Page /\ p.revision = page.revision /\ p.present = page.present
        /\ p.protected = page.protected /\ p.certified = page.revision /\ p.render = seen
    BY <2>2, <2>3 DEF Page
  <2> HIDE DEF p
  <2>5. page.revision \in Nat /\ page.revision <= page.revision
    BY <2>3, Bounds DEF Page
  <2>6. Certified(p)
    BY <2>4 DEF Certified
  <2>7. Core(p, effect)
    BY <2>2, <2>3, <2>4, <2>5, <2>6 DEF Core, Served
  <2>8. Body(p, vector)
    BY <1>0, <2>4, <2>6 DEF Body
  <2> DEFINE x == [work[w] EXCEPT !.phase = "check"]
  <2>9. work' = [work EXCEPT ![w] = x]
    BY <1>0 DEF Goes
  <2>10. x \in Execution /\ x.kind = "render" /\ x.phase = "check" /\ x.revision = work[w].revision
    BY <1>0 DEF Execution
  <2> HIDE DEF x
  <2>11. /\ work' \in [Workers -> Execution \cup {Idle}] /\ work'[w] = x
         /\ \A v \in Workers : v # w => work'[v] = work[v]
    BY <2>9, <2>10 DEF IInv
  <2>12. ASSUME NEW v \in Workers PROVE WorkSound(v, work'[v], p, effect)
    <3>1. CASE v = w
      BY <1>0, <2>4, <2>10, <2>11, <3>1 DEF WorkSound
    <3>2. CASE v # w
      <4>1. WorkSound(v, work[v], page, effect)
        BY DEF IInv
      <4> QED
        BY <2>4, <2>6, <2>11, <3>2, <4>1 DEF WorkSound
    <3> QED
      BY <3>1, <3>2
  <2>13. context' \in 0..MaxContext /\ refresh' \in BOOLEAN
    BY <1>0 DEF IInv
  <2> QED
    BY <1>0, <2>1, <2>7, <2>8, <2>11, <2>12, <2>13 DEF IInv
<1> QED
  BY <1>1, <1>2

(* What is indexed of a page is what it is served with.                    *)
LEMMA IndexedIsServed ==
  ASSUME IInv
  PROVE  Indexed(page) \in Vector /\ Body(page, Indexed(page))
<1>1. page \in Page /\ Served(page, effect) /\ NoVector \in Vector /\ NoRender \in Html
  BY DEF IInv, Core, Vector, Html
<1>2. CASE ~(page.present /\ Eligible(page))
  BY <1>1, <1>2 DEF Indexed, Body
<1>3. CASE page.present /\ Eligible(page)
  <2> DEFINE body == IF page.protected \/ ~Certified(page) THEN NoRender ELSE page.render
  <2>1. Indexed(page) = [revision |-> page.revision, body |-> body]
    BY <1>3 DEF Indexed
  <2>2. page.revision \in Revisions /\ page.revision <= page.revision
    <3>1. page.revision \in 0..MaxRevision /\ page.revision # 0
      BY <1>1, <1>3 DEF Page, Served
    <3> QED
      BY <3>1, BoundsAssumption DEF Revisions
  <2>3. body \in Html
    BY <1>1 DEF Page
  <2>4. body # NoRender =>
          ~page.protected /\ Certified(page) /\ body.revision = page.revision
    BY <1>1, <1>3 DEF Served
  <2> HIDE DEF body
  <2> QED
    BY <2>1, <2>2, <2>3, <2>4 DEF Body, Vector
<1> QED
  BY <1>2, <1>3

(* The steps of a sink after it has read the page.                         *)
LEMMA WritingRight ==
  ASSUME IInv, NEW w \in Workers,
         \/ CheckRender(w) \/ RemoveLinks(w) \/ CheckLinks(w) \/ ReplaceLinks(w)
         \/ ReconcileSearch(w) \/ CheckSearch(w) \/ SinkThrows(w)
  PROVE  IInv'
<1>0. /\ work[w] # Idle /\ work[w] \in Execution /\ NoRender \in Html
      /\ links \in Html /\ vector \in Vector /\ Body(page, vector)
      /\ {"satisfied", "unsatisfied", "check", "threw"} \subseteq Phases
  BY Executing
     DEF At, Doing, CheckRender, RemoveLinks, CheckLinks, ReplaceLinks, ReconcileSearch,
         CheckSearch, SinkThrows, Html, IInv, Phases
<1>1. CASE CheckRender(w)
  <2> DEFINE good == Current(work[w].revision) => Certified(page)
             phase == IF good THEN "satisfied" ELSE "unsatisfied"
  <2>1. Goes(w, phase) /\ UNCHANGED <<page, context, links, vector, effect, refresh>>
    BY <1>1 DEF CheckRender, Tells
  <2>2. phase \in Phases /\ phase # "publish" /\ (phase = "satisfied" => good)
    BY <1>0
  <2> HIDE DEF phase
  <2> QED
    BY <1>0, <2>1, <2>2, GoesRight
<1>2. CASE RemoveLinks(w)
  BY <1>0, <1>2, GoesRight DEF RemoveLinks, Doing, At
<1>3. CASE CheckLinks(w)
  <2>1. PICK phase \in {"satisfied", "unsatisfied"} : Goes(w, phase)
    BY <1>3 DEF CheckLinks, Tells
  <2> QED
    BY <1>0, <1>3, <2>1, GoesRight DEF CheckLinks, Doing, At
<1>4. CASE ReplaceLinks(w)
  <2>1. PICK phase \in {"satisfied", "unsatisfied"} : Goes(w, phase)
    BY <1>4 DEF ReplaceLinks, Tells
  <2>2. links' \in Html
    BY <1>0, <1>4 DEF ReplaceLinks, Execution
  <2> QED
    BY <1>0, <1>4, <2>1, <2>2, GoesRight DEF ReplaceLinks, Doing, At
<1>5. CASE ReconcileSearch(w)
  BY <1>0, <1>5, IndexedIsServed, GoesRight DEF ReconcileSearch, Doing, At
<1>6. CASE CheckSearch(w)
  <2>1. PICK phase \in {"satisfied", "unsatisfied"} : Goes(w, phase)
    BY <1>6 DEF CheckSearch, Tells
  <2> QED
    BY <1>0, <1>6, <2>1, GoesRight DEF CheckSearch, Doing, At
<1>7. CASE SinkThrows(w)
  BY <1>0, <1>7, GoesRight DEF SinkThrows
<1> QED
  BY <1>1, <1>2, <1>3, <1>4, <1>5, <1>6, <1>7

(* Search that needs a render admits it, unless the page has moved on.     *)
LEMMA DependRight ==
  ASSUME IInv, NEW w \in Workers, EnsureRenderDependency(w)
  PROVE  IInv'
<1>1. /\ work[w] # Idle /\ work[w].kind = "search" /\ work[w] \in Execution
      /\ UNCHANGED <<context, refresh>>
  BY Executing DEF EnsureRenderDependency, Doing, At
<1> DEFINE x == [work[w] EXCEPT !.phase = "threw"]
<1>2. work' = [work EXCEPT ![w] = x]
  BY DEF EnsureRenderDependency, Goes
<1>3. x \in Execution /\ x.kind = "search" /\ x.revision = work[w].revision
  BY <1>1 DEF Execution, Phases
<1> HIDE DEF x
<1>4. /\ work' \in [Workers -> Execution \cup {Idle}] /\ work'[w] = x
      /\ \A v \in Workers : v # w => work'[v] = work[v]
  BY <1>2, <1>3 DEF IInv
<1>5. CASE Current(work[w].revision)
  <2>1. page.present /\ Commit(EnsureRender(Tables))
    BY <1>5 DEF Current, EnsureRenderDependency
  <2>2. Leads(Tables, EnsureRender(Tables))
    BY <2>1, TablesAreGood, EnsureRenderLeads
  <2> DEFINE u == EnsureRender(Tables)
  <2>3. Leads(Tables, u) /\ Commit(u)
    BY <2>1, <2>2
  <2> HIDE DEF u
  <2>4. \A v \in Workers :
          \/ work'[v] = work[v]
          \/ /\ work[v] # Idle /\ work'[v].revision = work[v].revision
             /\ work'[v].kind = "search"
    BY <1>1, <1>3, <1>4
  <2> QED
    BY <1>1, <1>4, <2>1, <2>3, <2>4, TransactionRight
<1>6. CASE ~Current(work[w].revision)
  <2>1. UNCHANGED <<page, links, vector, effect>>
    BY <1>6 DEF EnsureRenderDependency, Commit, Tables
  <2>2. Goes(w, "threw") /\ "threw" \in Phases
    BY DEF EnsureRenderDependency, Phases
  <2>3. links' \in Html /\ vector' \in Vector /\ Body(page, vector')
    BY <2>1 DEF IInv
  <2> QED
    BY <1>1, <2>1, <2>2, <2>3, GoesRight
<1> QED
  BY <1>5, <1>6

(* A render is reported done by the process that holds its row, which found *)
(* the page certified; nobody else's report counts.                        *)
LEMMA FinishRight ==
  ASSUME IInv, NEW w \in Workers, FinishClaim(w)
  PROVE  IInv'
<1> DEFINE k == work[w].kind
           r == work[w].revision
           e == effect[k][r]
           f == Finished(w)
<1>1. /\ work[w] # Idle /\ work[w] \in Execution /\ k \in Kinds /\ r \in Revisions /\ SoundRow(e)
      /\ Row(w) = e /\ WorkSound(w, work[w], page, effect)
  BY Executing DEF FinishClaim
<1>2. /\ effect' = [effect EXCEPT ![k][r] = f] /\ work' = [work EXCEPT ![w] = Idle]
      /\ UNCHANGED <<page, context, links, vector, refresh>>
  BY DEF FinishClaim
<1>3. /\ page \in Page /\ page.revision \in Nat
      /\ effect \in [Kinds -> [Revisions -> Effect]] /\ Served(page, effect)
      /\ \A j \in Kinds, q \in Revisions :
           SoundRow(effect[j][q]) /\ (effect[j][q].status # "none" => q <= page.revision)
      /\ Core(page, effect)
  BY BoundsAssumption DEF IInv, Core, Page
<1>4. Outcome(work[w]) \in {"succeeded", "failed", "retry"}
  BY DEF Outcome
<1>5. CASE Owned(w)
  <2> DEFINE status == Outcome(work[w])
  <2>1. f = [e EXCEPT !.status = status, !.token = NoToken, !.lapsed = FALSE]
    BY <1>1, <1>5 DEF Finished
  <2>2. status = "succeeded" => work[w].phase = "satisfied"
    BY DEF Outcome
  <2>3. e.status = "running" /\ e.token = w /\ e \in Effect
    BY <1>1, <1>5 DEF Owned, SoundRow
  <2>4. status \in Statuses /\ status # "running" /\ status # "none"
    BY <1>4 DEF Statuses
  <2> HIDE DEF status
  <2>5. /\ f \in Effect /\ f.status = status /\ f.token = NoToken /\ f.lapsed = FALSE
        /\ f.desired = e.desired
    BY <2>1, <2>3, <2>4 DEF Effect
  <2>6. SoundRow(f)
    BY <2>4, <2>5 DEF SoundRow
  <2>7. k = "render" /\ f.status = "succeeded" /\ page.present /\ page.revision = r =>
          Certified(page)
    BY <1>1, <2>2, <2>3, <2>5 DEF WorkSound
  <2> HIDE DEF f, k, r, e
  <2>8. e = effect[k][r]
    BY DEF e
  <2>9. /\ effect' \in [Kinds -> [Revisions -> Effect]]
        /\ \A j \in Kinds, q \in Revisions :
             effect'[j][q] = IF j = k /\ q = r THEN f ELSE effect[j][q]
    BY <1>1, <1>2, <1>3, <2>5
  <2>10. Served(page, effect')
    <3>1. page.present => page.revision \in Revisions
      BY <1>3, BoundsAssumption DEF Served, Page, Revisions
    <3> QED
      BY <1>1, <1>3, <2>5, <2>7, <2>8, <2>9, <3>1, Bounds DEF Served
  <2>11. \A j \in Kinds, q \in Revisions :
           SoundRow(effect'[j][q]) /\ (effect'[j][q].status # "none" => q <= page.revision)
    BY <1>3, <2>3, <2>6, <2>8, <2>9
  <2>12. Core(page', effect')
    BY <1>2, <1>3, <2>9, <2>10, <2>11 DEF Core
  <2>13. /\ work' \in [Workers -> Execution \cup {Idle}] /\ work'[w] = Idle
         /\ \A v \in Workers : v # w => work'[v] = work[v]
    BY <1>2 DEF IInv
  <2>14. ASSUME NEW v \in Workers PROVE WorkSound(v, work'[v], page', effect')
    <3>1. CASE v = w
      BY <2>13, <3>1 DEF WorkSound
    <3>2. CASE v # w
      <4>1. WorkSound(v, work[v], page, effect) /\ work[v] \in Execution \cup {Idle}
        BY DEF IInv
      <4>2. work[v] # Idle => work[v].revision \in Revisions
        BY <4>1 DEF Execution
      <4>3. \A q \in Revisions :
              effect'["render"][q].status = "running" => effect'["render"][q] = effect["render"][q]
        BY <2>4, <2>5, <2>9, Bounds
      <4> QED
        BY <1>2, <2>13, <3>2, <4>1, <4>2, <4>3 DEF WorkSound
    <3> QED
      BY <3>1, <3>2
  <2> QED
    BY <1>2, <2>12, <2>13, <2>14 DEF IInv
<1>6. CASE ~Owned(w)
  <2>1. f = e
    BY <1>1, <1>6 DEF Finished
  <2>2. Turns(effect[k][r], f)
    BY <1>1, <2>1 DEF Turns
  <2>3. /\ work' \in [Workers -> Execution \cup {Idle}] /\ work'[w] = Idle
        /\ \A v \in Workers : v # w => work'[v] = work[v]
    BY <1>2 DEF IInv
  <2>4. \A v \in Workers : Keeps(v, effect[k][r], f)
    BY <2>1, <2>3 DEF Keeps
  <2>5. k \in Kinds /\ r \in Revisions /\ effect' = [effect EXCEPT ![k][r] = f]
    BY <1>1, <1>2
  <2> HIDE DEF f, k, r
  <2> QED
    BY <1>2, <2>2, <2>3, <2>4, <2>5, RowRight
<1> QED
  BY <1>5, <1>6

(* The index is refreshed after a password change, or never is.            *)
LEMMA RefreshRight ==
  ASSUME IInv, RefreshSearch
  PROVE  IInv'
<1>1. /\ UNCHANGED <<page, context, links, effect, work>> /\ refresh' = FALSE
      /\ vector' \in {Indexed(page), vector}
  BY DEF RefreshSearch
<1>2. vector' \in Vector /\ Body(page, vector')
  BY <1>1, IndexedIsServed DEF IInv
<1> QED
  BY <1>1, <1>2 DEF IInv

---------------------------------------------------------------------------
(* The invariant is kept by every step of every process.                   *)
LEMMA EveryStepPreserves == IInv /\ [Next]_vars => IInv'
<1> SUFFICES ASSUME IInv, [Next]_vars PROVE IInv'
  OBVIOUS
<1>1. CASE Mutation
  BY <1>1, RevisionsRight, QuietMutationsRight, AdmissionsRight, ProtectionRight DEF Mutation
<1>2. CASE Fault
  <2>1. ASSUME NEW w \in Workers, Crash(w) PROVE IInv'
    BY <2>1, DropRight DEF Crash
  <2>2. ASSUME NEW w \in Workers, SinkThrows(w) PROVE IInv'
    BY <2>2, WritingRight
  <2> QED
    BY <1>2, <2>1, <2>2, LeasesRight DEF Fault
<1>3. CASE Maintenance
  BY <1>3, AdmissionsRight, LeasesRight DEF Maintenance
<1>4. CASE RefreshSearch
  BY <1>4, RefreshRight
<1>5. ASSUME NEW w \in Workers, Claims(w) PROVE IInv'
  BY <1>5, ClaimRight DEF Claims
<1>6. ASSUME NEW w \in Workers, Executes(w) PROVE IInv'
  <2>1. CASE BeginExecution(w) \/ ReadSuperseded(w) \/ ReadAbsent(w) \/ ReadCurrent(w)
    BY <2>1, ReadingRight
  <2>2. CASE RenderHtml(w)
    BY <2>2, RenderRight
  <2>3. CASE PublishRender(w)
    BY <2>3, PublishRight
  <2>4. CASE \/ CheckRender(w) \/ RemoveLinks(w) \/ CheckLinks(w) \/ ReplaceLinks(w)
             \/ ReconcileSearch(w) \/ CheckSearch(w)
    BY <2>4, WritingRight
  <2>5. CASE EnsureRenderDependency(w)
    BY <2>5, DependRight
  <2>6. CASE FinishClaim(w)
    BY <2>6, FinishRight
  <2> QED
    BY <1>6, <2>1, <2>2, <2>3, <2>4, <2>5, <2>6 DEF Executes
<1>7. CASE ReleaseExpired \/ LostLeaseLapses
  BY <1>7, LeasesRight DEF LostLeaseLapses
<1>8. CASE UNCHANGED vars
  <2>1. UNCHANGED <<page, context, links, vector, effect, work, refresh>>
    BY <1>8 DEF vars
  <2> QED
    BY <2>1 DEF IInv
<1> QED
  BY <1>1, <1>2, <1>3, <1>4, <1>5, <1>6, <1>7, <1>8 DEF Next

(* Whatever processes, mutations, audits and faults do, the page, its       *)
(* receipts, its search row and the work in hand agree.                    *)
THEOREM Invariant == Spec => []IInv
<1>1. Init => IInv
  BY InitInvariant
<1>2. IInv /\ [Next]_vars => IInv'
  BY EveryStepPreserves
<1> QED
  BY <1>1, <1>2, PTL DEF Spec

(* The tables hold what their columns allow, and a row has a lease token    *)
(* exactly while it is running (page-mutation-outbox.ts's statements).     *)
THEOREM TypeCorrect == Spec => []TypeOK
<1>1. IInv => TypeOK
  BY Implied
<1> QED
  BY <1>1, Invariant, PTL

(* Readers are served HTML of the revision that certifies it, and no        *)
(* succeeded render receipt of the current revision is without it: neither *)
(* a stale render nor a process whose lease was revoked can break it.      *)
THEOREM CertifiedHtmlIsServed == Spec => []CertifiedHtmlIsCurrent
<1>1. IInv => CertifiedHtmlIsCurrent
  BY Implied
<1> QED
  BY <1>1, Invariant, PTL

(* No word of a protected page's body is in the index, however a password   *)
(* change, a late refresh and a reconciliation interleave.                 *)
THEOREM IndexedBodiesAreCertified == Spec => []BodyIsCertified
<1>1. IInv => BodyIsCertified
  BY Implied
<1> QED
  BY <1>1, Invariant, PTL
=============================================================================
