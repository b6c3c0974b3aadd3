------------------------- MODULE PageReceiptsProofs -------------------------
(***************************************************************************)
(* What the receipts of PageProjection are worth: a succeeded links or     *)
(* search receipt is true of the page, and no receipt is failed by a race. *)
(* Each holds for any number of processes, revisions and attempts, with    *)
(* every fault, under the condition that its theorem states.               *)
(***************************************************************************)
EXTENDS PageProjectionProofs

\* The execution x of process w has its lease, and it has not run out.
Held(w, x, t) == t.effect[x.kind][x.revision].status = "running"
                 /\ t.effect[x.kind][x.revision].token = w
Live(w, x, t) == Held(w, x, t) /\ ~t.effect[x.kind][x.revision].lapsed

ProvenIn(t) == Certified(t.page) /\ RenderSucceeded(t.effect, t.page.revision)
Open(p) == Eligible(p) /\ ~p.protected
Succeeded(t, k) == k \in Kinds /\ t.effect[k][t.page.revision].status = "succeeded"

\* What a receipt of search, and one of links, says of the tables.
SearchServed(t) == (Open(t.page) => ProvenIn(t)) /\ t.vector = Indexed(t.page)
LinksServed(t) == ProvenIn(t) /\ t.links = t.page.render

\* What an execution has established that will report on the page's revision:
\* one of search,
SearchWork(w, x, t) ==
  x # Idle /\ x.kind = "search" /\ x.revision = t.page.revision /\ Held(w, x, t) =>
    /\ t.page.present /\ x.phase \in {"reconcile", "check"} =>
         x.eligible = Eligible(t.page) /\ (Open(t.page) => ProvenIn(t))
    /\ t.page.present /\ x.phase \in {"check", "satisfied"} => SearchServed(t)
    /\ ~t.page.present /\ x.phase = "check" => t.vector = NoVector

\* one of links, which it removes of a page that is gone and replaces by those
\* of the HTML it read of a certified one,
LinkWork(w, x, t) ==
  x # Idle /\ x.kind = "links" /\ x.revision = t.page.revision =>
    /\ x.phase \in {"remove", "check"} => ~t.page.present
    /\ x.phase = "check" => t.links = NoRender
    /\ Held(w, x, t) /\ x.phase = "replace" /\ t.page.present =>
         ProvenIn(t) /\ x.seen = t.page.render

\* and one of render: what it published stays certified while its lease lives.
RenderWork(w, x, t) ==
  x # Idle /\ x.kind = "render" /\ x.revision = t.page.revision /\ t.page.present
    /\ x.phase = "check" /\ Live(w, x, t) => Certified(t.page)

NotUndone(w, x, t) ==
  x # Idle /\ x.revision = t.page.revision /\ x.phase = "unsatisfied" => ~Live(w, x, t)

InHand(w, x, t) ==
  SearchWork(w, x, t) /\ LinkWork(w, x, t) /\ RenderWork(w, x, t) /\ NotUndone(w, x, t)

SearchTrue(t) == t.page.present /\ Succeeded(t, "search") => SearchServed(t)
SearchInv == SearchTrue(Tables) /\ \A w \in Workers : InHand(w, work[w], Tables)

\* As long as no page is restored: links are only removed of a page that is gone,
\* and who is about to report on links has found them so.
LinksInHand(w, x, t) ==
  x # Idle /\ x.kind = "links" =>
    /\ x.phase \in {"remove", "check"} => ~t.page.present
    /\ x.revision = t.page.revision /\ Held(w, x, t) /\ x.phase = "satisfied"
         /\ t.page.present => LinksServed(t)

LinksTrue(t) == t.page.present /\ Succeeded(t, "links") => LinksServed(t)
LinksInv == LinksTrue(Tables) /\ \A w \in Workers : LinksInHand(w, work[w], Tables)

---------------------------------------------------------------------------
(* What a step may do to the tables, t before it and u after it, that      *)
(* leaves the receipts and the work in hand true.                          *)

\* Nobody is at work on projection k of the page, and no receipt of it stands.
Fenced(t, k) == k \in Kinds => t.effect[k][t.page.revision].status \notin {"running", "succeeded"}

Renders(t, u) ==
  /\ u.page.revision = t.page.revision /\ u.page.present = t.page.present
  /\ Certified(t.page) =>
       Certified(u.page) \/ u.effect["render"][t.page.revision].status # "running"
  /\ t.page.present /\ ProvenIn(t) =>
       \/ ProvenIn(u) /\ u.page.render = t.page.render
       \/ Fenced(u, "links") /\ Fenced(u, "search")

Searches(t, u) ==
  /\ Eligible(u.page) = Eligible(t.page)
  /\ u.page.protected = t.page.protected \/ Fenced(u, "search")
  /\ u.vector \in {t.vector, Indexed(u.page)} \/ (Fenced(u, "search") /\ u.page.present)

Linked(t, u) == ~t.page.present => u.links \in {t.links, NoRender}

LinksKept(t, u) ==
  u.links = t.links \/ Fenced(u, "links") \/ LinksServed(u) \/ ~u.page.present

\* A process holds a row only if it did, and a lease that ran out does not come back.
Yields(w, t, u) ==
  \A k \in Kinds, q \in Revisions :
    u.effect[k][q].status = "running" /\ u.effect[k][q].token = w =>
      /\ t.effect[k][q].status = "running" /\ t.effect[k][q].token = w
      /\ t.effect[k][q].lapsed => u.effect[k][q].lapsed

(* Who holds a row afterwards held it before.                              *)
LEMMA Holding ==
  ASSUME NEW w, NEW t, NEW u, NEW x \in Execution, Yields(w, t, u)
  PROVE  /\ Held(w, x, u) => Held(w, x, t)
         /\ Live(w, x, u) => Live(w, x, t)
<1>1. x.kind \in Kinds /\ x.revision \in Revisions
  BY DEF Execution
<1> QED
  BY <1>1 DEF Yields, Held, Live

(* What is served to a search stays so, unless search is fenced.           *)
LEMMA SearchStays ==
  ASSUME NEW t, NEW u, Renders(t, u), Searches(t, u), ~Fenced(u, "search"), u.page.present
  PROVE  /\ Eligible(u.page) = Eligible(t.page) /\ Open(u.page) = Open(t.page)
         /\ (Open(t.page) => ProvenIn(t)) => (Open(u.page) => ProvenIn(u))
         /\ SearchServed(t) => SearchServed(u)
<1>1. /\ u.page.revision = t.page.revision /\ u.page.present = t.page.present
      /\ Eligible(u.page) = Eligible(t.page) /\ u.page.protected = t.page.protected
      /\ u.vector \in {t.vector, Indexed(u.page)}
      /\ ProvenIn(t) => ProvenIn(u) /\ u.page.render = t.page.render
  BY DEF Renders, Searches
<1>2. Open(u.page) = Open(t.page)
  BY <1>1 DEF Open
<1>3. (Open(t.page) => ProvenIn(t)) => Indexed(u.page) = Indexed(t.page)
  <2>1. CASE Open(t.page) /\ ProvenIn(t)
    <3>1. Certified(t.page) /\ Certified(u.page) /\ u.page.render = t.page.render
      BY <1>1, <2>1 DEF ProvenIn
    <3> QED
      BY <1>1, <3>1 DEF Indexed
  <2>2. CASE ~Open(t.page)
    BY <1>1, <2>2 DEF Open, Indexed
  <2> QED
    BY <2>1, <2>2
<1> QED
  BY <1>1, <1>2, <1>3 DEF SearchServed

(* So the receipt of search stays true, ...                                *)
LEMMA SearchTruePasses ==
  ASSUME NEW t, NEW u, Renders(t, u), Searches(t, u),
         u.page.present /\ Succeeded(u, "search") => SearchServed(t)
  PROVE  SearchTrue(u)
<1> SUFFICES ASSUME u.page.present, Succeeded(u, "search") PROVE SearchServed(u)
  BY DEF SearchTrue
<1>1. ~Fenced(u, "search")
  BY DEF Succeeded, Fenced
<1> QED
  BY <1>1, SearchStays

(* ... and so does the receipt of links.                                   *)
LEMMA LinksTruePasses ==
  ASSUME NEW t, NEW u, Renders(t, u), LinksKept(t, u),
         u.page.present /\ Succeeded(u, "links") => LinksServed(t)
  PROVE  LinksTrue(u)
<1> SUFFICES ASSUME u.page.present, Succeeded(u, "links") PROVE LinksServed(u)
  BY DEF LinksTrue
<1>1. ~Fenced(u, "links")
  BY DEF Succeeded, Fenced
<1> QED
  BY <1>1 DEF Renders, LinksKept, LinksServed

(* What an execution has in hand stays so. *)
LEMMA InHandPasses ==
  ASSUME NEW w, NEW t, NEW u, Renders(t, u), Searches(t, u), Linked(t, u), Yields(w, t, u),
         NEW x \in Execution \cup {Idle}, InHand(w, x, t)
  PROVE  InHand(w, x, u)
<1> SUFFICES ASSUME x # Idle PROVE InHand(w, x, u)
  BY DEF InHand, SearchWork, LinkWork, RenderWork, NotUndone
<1>1. /\ Held(w, x, u) => Held(w, x, t)
      /\ Live(w, x, u) => Live(w, x, t)
  BY Holding
<1>2. u.page.revision = t.page.revision /\ u.page.present = t.page.present
  BY DEF Renders
<1>3. x.kind \in Kinds
  BY DEF Execution
<1>4. SearchWork(w, x, u)
  <2> SUFFICES ASSUME x.kind = "search", x.revision = u.page.revision, Held(w, x, u)
               PROVE  SearchWork(w, x, u)
    BY DEF SearchWork
  <2>1. ~Fenced(u, "search")
    BY <1>3 DEF Held, Fenced
  <2>2. /\ t.page.present /\ x.phase \in {"reconcile", "check"} =>
             x.eligible = Eligible(t.page) /\ (Open(t.page) => ProvenIn(t))
        /\ t.page.present /\ x.phase \in {"check", "satisfied"} => SearchServed(t)
        /\ ~t.page.present /\ x.phase = "check" => t.vector = NoVector
    BY <1>1, <1>2 DEF InHand, SearchWork
  <2>3. CASE u.page.present
    BY <1>2, <2>1, <2>2, <2>3, SearchStays DEF SearchWork
  <2>4. CASE ~u.page.present
    <3>1. u.vector \in {t.vector, NoVector}
      BY <2>1, <2>4 DEF Searches, Indexed
    <3> QED
      BY <1>2, <2>2, <2>4, <3>1 DEF SearchWork
  <2> QED
    BY <2>3, <2>4
<1>5. LinkWork(w, x, u)
  <2> SUFFICES ASSUME x.kind = "links", x.revision = u.page.revision PROVE LinkWork(w, x, u)
    BY DEF LinkWork
  <2>1. /\ x.phase \in {"remove", "check"} => ~t.page.present
        /\ x.phase = "check" => t.links = NoRender
        /\ Held(w, x, t) /\ x.phase = "replace" /\ t.page.present =>
             ProvenIn(t) /\ x.seen = t.page.render
    BY <1>2 DEF InHand, LinkWork
  <2>2. x.phase = "check" => u.links = NoRender
    BY <2>1 DEF Linked
  <2>3. Held(w, x, u) => ~Fenced(u, "links")
    BY <1>3 DEF Held, Fenced
  <2>4. Held(w, x, u) /\ x.phase = "replace" /\ u.page.present =>
          ProvenIn(u) /\ x.seen = u.page.render
    BY <1>1, <1>2, <2>1, <2>3 DEF Renders
  <2> QED
    BY <1>2, <2>1, <2>2, <2>4 DEF LinkWork
<1>6. RenderWork(w, x, u)
  <2> SUFFICES ASSUME x.kind = "render", x.revision = u.page.revision, u.page.present,
                      x.phase = "check", Live(w, x, u)
               PROVE  Certified(u.page)
    BY DEF RenderWork
  <2>1. Certified(t.page)
    BY <1>1, <1>2 DEF InHand, RenderWork
  <2>2. u.effect["render"][t.page.revision].status = "running"
    BY <1>2 DEF Live, Held
  <2> QED
    BY <2>1, <2>2 DEF Renders
<1>7. NotUndone(w, x, u)
  BY <1>1, <1>2 DEF InHand, NotUndone
<1> QED
  BY <1>4, <1>5, <1>6, <1>7 DEF InHand

(* What an execution of links has in hand stays so. *)
LEMMA LinksInHandPasses ==
  ASSUME NEW w, NEW t, NEW u, Renders(t, u), LinksKept(t, u), Yields(w, t, u),
         NEW x \in Execution \cup {Idle}, LinksInHand(w, x, t)
  PROVE  LinksInHand(w, x, u)
<1> SUFFICES ASSUME x # Idle, x.kind = "links" PROVE LinksInHand(w, x, u)
  BY DEF LinksInHand
<1>1. u.page.revision = t.page.revision /\ u.page.present = t.page.present
  BY DEF Renders
<1>2. x.phase \in {"remove", "check"} => ~u.page.present
  BY <1>1 DEF LinksInHand
<1>3. ASSUME x.revision = u.page.revision, Held(w, x, u), x.phase = "satisfied", u.page.present
      PROVE  LinksServed(u)
  <2>1. ~Fenced(u, "links")
    BY <1>3 DEF Held, Fenced, Execution
  <2>2. LinksServed(t)
    BY <1>1, <1>3, Holding DEF LinksInHand
  <2> QED
    BY <1>3, <2>1, <2>2 DEF Renders, LinksKept, LinksServed
<1> QED
  BY <1>2, <1>3 DEF LinksInHand

(* A step that is all of that, and whose new work in hand is sound, keeps   *)
(* the receipts of search true and leaves no work undone.                  *)
LEMMA SearchFrame ==
  ASSUME IInv, SearchInv, NEW u, u = Tables',
         Renders(Tables, u), Searches(Tables, u), Linked(Tables, u),
         u.page.present /\ Succeeded(u, "search") => SearchServed(Tables),
         \A w \in Workers : \/ work'[w] = work[w] /\ Yields(w, Tables, u)
                            \/ InHand(w, work'[w], u)
  PROVE  SearchInv'
<1>1. SearchTrue(u)
  BY SearchTruePasses
<1>2. ASSUME NEW w \in Workers PROVE InHand(w, work'[w], u)
  <2>1. InHand(w, work[w], Tables) /\ work[w] \in Execution \cup {Idle}
    BY DEF SearchInv, IInv
  <2> QED
    BY <2>1, InHandPasses
<1> QED
  BY <1>1, <1>2 DEF SearchInv

(* The same of the receipts of links. *)
LEMMA LinksFrame ==
  ASSUME IInv, LinksInv, NEW u, u = Tables', Renders(Tables, u), LinksKept(Tables, u),
         u.page.present /\ Succeeded(u, "links") => LinksServed(Tables),
         \A w \in Workers : \/ work'[w] = work[w] /\ Yields(w, Tables, u)
                            \/ LinksInHand(w, work'[w], u)
  PROVE  LinksInv'
<1>1. LinksTrue(u)
  BY LinksTruePasses
<1>2. ASSUME NEW w \in Workers PROVE LinksInHand(w, work'[w], u)
  <2>1. LinksInHand(w, work[w], Tables) /\ work[w] \in Execution \cup {Idle}
    BY DEF LinksInv, IInv
  <2> QED
    BY <2>1, LinksInHandPasses
<1> QED
  BY <1>1, <1>2 DEF LinksInv

---------------------------------------------------------------------------
(* What admission does to the rows.                                        *)

\* No claim and no receipt appears.
RowsEase(t, u) ==
  \A k \in Kinds, q \in Revisions :
    /\ u.effect[k][q].status = "running" => u.effect[k][q] = t.effect[k][q]
    /\ u.effect[k][q].status = "succeeded" => t.effect[k][q].status = "succeeded"

\* Either what the page is served with is left alone, or it is invalidated and
\* its dependents are fenced off.
Quiet(t, u) ==
  /\ u.page = t.page /\ u.links = t.links /\ u.vector = t.vector
  /\ RenderSucceeded(t.effect, t.page.revision) => RenderSucceeded(u.effect, t.page.revision)
Stirred(u) ==
  /\ u.effect["render"][u.page.revision].status # "running"
  /\ Fenced(u, "links") /\ Fenced(u, "search")

Admits(t, u) ==
  /\ u.page.revision = t.page.revision /\ u.page.present = t.page.present
  /\ Eligible(u.page) = Eligible(t.page) /\ u.page.protected = t.page.protected
  /\ RowsEase(t, u) /\ (Quiet(t, u) \/ Stirred(u))

(* A transaction that does nothing admits nothing. *)
LEMMA AdmitsReflexive == ASSUME NEW t PROVE Admits(t, t)
  BY DEF Admits, RowsEase, Quiet

(* What is fenced stays so. *)
LEMMA FencedPasses ==
  ASSUME NEW t, NEW u, NEW k, RowsEase(t, u), u.page.revision = t.page.revision,
         t.page.revision \in Revisions, Fenced(t, k)
  PROVE  Fenced(u, k)
  BY DEF RowsEase, Fenced

(* One transaction after another admits what both do. *)
LEMMA AdmitsTransitive ==
  ASSUME NEW t, NEW u, NEW v, Good(t), Admits(t, u), Admits(u, v)
  PROVE  Admits(t, v)
<1>1. t.page.revision \in Revisions /\ u.page.revision = t.page.revision
      /\ v.page.revision = t.page.revision
  BY PresentRevision DEF Admits
<1>2. RowsEase(t, u) /\ RowsEase(u, v)
  BY DEF Admits
<1>3. RowsEase(t, v)
  BY <1>2 DEF RowsEase
<1>4. CASE Quiet(t, u) /\ Quiet(u, v)
  <2>1. Quiet(t, v)
    BY <1>1, <1>4 DEF Quiet
  <2> QED
    BY <1>3, <2>1 DEF Admits
<1>5. CASE Stirred(u)
  <2>1. Fenced(v, "links") /\ Fenced(v, "search")
    BY <1>1, <1>2, <1>5, FencedPasses DEF Stirred
  <2>2. v.effect["render"][v.page.revision].status # "running"
    <3>1. "render" \in Kinds /\ u.effect["render"][t.page.revision].status # "running"
      BY <1>1, <1>5, Bounds DEF Stirred
    <3> QED
      BY <1>1, <1>2, <3>1 DEF RowsEase
  <2> QED
    BY <1>3, <2>1, <2>2 DEF Admits, Stirred
<1>6. CASE Stirred(v)
  BY <1>3, <1>6 DEF Admits
<1> QED
  BY <1>4, <1>5, <1>6 DEF Admits

\* One row of one projection is touched.
Touches(t, u, k) ==
  /\ u.page = t.page /\ u.links = t.links /\ u.vector = t.vector
  /\ RowsEase(t, u)
  /\ \A j \in Kinds : j # k => u.effect[j] = t.effect[j]

(* Admission touches the row of the page's revision, and can fence it. *)
LEMMA AdmitTouches ==
  ASSUME NEW t, Good(t), NEW k \in {"render", "links", "search"}, NEW rearm \in BOOLEAN,
         NEW fence \in BOOLEAN
  PROVE  /\ Touches(t, Admit(t, k, rearm, fence), k)
         /\ rearm /\ fence => Fenced(Admit(t, k, rearm, fence), k)
<1> DEFINE u == Admit(t, k, rearm, fence)
<1>1. CASE k \notin Kinds
  BY <1>1 DEF Admit, RowsEase, Touches, Fenced
<1>2. CASE k \in Kinds
  <2> DEFINE r == t.page.revision
             e == t.effect[k][r]
             f == Admitted(e, rearm, fence)
             g == [t.effect EXCEPT ![k] = [t.effect[k] EXCEPT ![r] = f]]
  <2>1. r \in Revisions
    BY PresentRevision
  <2>2. t \in TablesType /\ Core(t.page, t.effect) /\ t.effect \in [Kinds -> [Revisions -> Effect]]
    BY DEF Good, TablesType
  <2>3. SoundRow(e)
    BY <1>2, <2>1, <2>2 DEF Core
  <2>4. /\ f.status = "running" => f = e
        /\ f.status = "succeeded" => e.status = "succeeded"
        /\ rearm /\ fence => f.status \notin {"running", "succeeded"}
    <3>1. rearm /\ fence => f.status \notin {"running", "succeeded"}
      <4> HIDE DEF e
      <4> QED
        BY <2>3 DEF Admitted, SoundRow, Waiting
    <3>2. \A h : h = Admitted(e, rearm, fence) =>
                   /\ h.status = "running" => h = e
                   /\ h.status = "succeeded" => e.status = "succeeded"
      <4> HIDE DEF e
      <4> QED
        BY <2>3, AdmittedIsSound
    <3> HIDE DEF e
    <3> QED
      BY <3>1, <3>2
  <2>5. u = [t EXCEPT !.effect = g]
    BY <1>2 DEF Admit
  <2> HIDE DEF f, u
  <2>6. /\ g[k][r] = f
        /\ \A j \in Kinds, q \in Revisions : (j # k \/ q # r) => g[j][q] = t.effect[j][q]
        /\ \A j \in Kinds : j # k => g[j] = t.effect[j]
    BY <1>2, <2>1, <2>2
  <2> HIDE DEF g
  <2>7. u.page = t.page /\ u.vector = t.vector /\ u.links = t.links /\ u.effect = g
    BY <2>2, <2>5 DEF TablesType
  <2>8. e = t.effect[k][r] /\ r = t.page.revision
    OBVIOUS
  <2> HIDE DEF e, r
  <2>9. RowsEase(t, u)
    BY <2>4, <2>6, <2>7, <2>8 DEF RowsEase
  <2>10. Touches(t, u, k)
    BY <2>6, <2>7, <2>9 DEF Touches
  <2>11. rearm /\ fence => Fenced(u, k)
    BY <2>4, <2>6, <2>7, <2>8 DEF Fenced
  <2> QED
    BY <2>10, <2>11 DEF u
<1> QED
  BY <1>1, <1>2

(* The admission of a dependent leaves what the page is served with alone. *)
LEMMA AdmitAdmits ==
  ASSUME NEW t, Good(t), NEW k \in {"links", "search"}, NEW rearm \in BOOLEAN, NEW fence \in BOOLEAN
  PROVE  Admits(t, Admit(t, k, rearm, fence))
<1> DEFINE u == Admit(t, k, rearm, fence)
<1>1. Touches(t, u, k)
  BY AdmitTouches
<1> HIDE DEF u
<1>2. Quiet(t, u)
  BY <1>1, Bounds DEF Touches, Quiet, RenderSucceeded
<1>3. Admits(t, u)
  BY <1>1, <1>2 DEF Touches, Admits
<1> QED
  BY <1>3 DEF u

(* A rerender that is admitted invalidates the HTML and fences off what     *)
(* derives from it.                                                        *)
LEMMA RerenderAdmits ==
  ASSUME NEW t, Good(t)
  PROVE  Admits(t, Rerender(t))
<1> DEFINE asked == Admit(t, "render", TRUE, FALSE)
           invalid == Invalidated(asked)
           linked == Admit(invalid, "links", TRUE, TRUE)
           searched == Admit(linked, "search", TRUE, TRUE)
<1>1. CASE asked = t
  BY <1>1, AdmitsReflexive DEF Rerender
<1>2. CASE asked # t
  <2>1. Rerender(t) = searched
    BY <1>2 DEF Rerender
  <2>2. /\ asked.page = t.page /\ RowsEase(t, asked)
        /\ asked.effect["render"][t.page.revision].status \in {"pending", "retry"}
        /\ Good(asked)
    <3>1. asked.page = t.page /\ RowsEase(t, asked)
      BY AdmitTouches DEF Touches
    <3>2. /\ Leads(t, asked)
          /\ asked # t => asked.effect["render"][t.page.revision].status \in {"pending", "retry"}
      BY AdmitLeads, Bounds
    <3> QED
      BY <1>2, <3>1, <3>2 DEF Leads
  <2> HIDE DEF asked
  <2>3. Good(invalid)
    BY <2>2, InvalidatedLeads DEF Leads
  <2>4. /\ invalid.effect = asked.effect /\ invalid.page.revision = t.page.revision
        /\ invalid.page.present = t.page.present /\ invalid.page.protected = t.page.protected
        /\ invalid.page.listed = t.page.listed /\ invalid.page.window = t.page.window
    <3> DEFINE p == [asked.page EXCEPT !.render = NoRender, !.certified = 0]
    <3>1. asked \in TablesType /\ asked.page \in Page
      BY <2>2 DEF Good, TablesType
    <3>2. /\ p.revision = t.page.revision /\ p.present = t.page.present
          /\ p.protected = t.page.protected /\ p.listed = t.page.listed
          /\ p.window = t.page.window
      BY <2>2, <3>1 DEF Page
    <3>3. invalid = [asked EXCEPT !.page = p, !.links = NoRender, !.vector = NoVector]
      BY DEF Invalidated
    <3> HIDE DEF p, invalid
    <3> QED
      BY <3>1, <3>2, <3>3 DEF TablesType
  <2> HIDE DEF invalid
  <2>5. /\ linked.page = invalid.page /\ RowsEase(invalid, linked) /\ Fenced(linked, "links")
        /\ linked.effect["render"] = invalid.effect["render"] /\ Good(linked)
    <3>1. Leads(invalid, linked)
      BY <2>3, AdmitLeads
    <3>2. Touches(invalid, linked, "links") /\ Fenced(linked, "links")
      BY <2>3, AdmitTouches
    <3> HIDE DEF linked
    <3> QED
      BY <3>1, <3>2, Bounds DEF Leads, Touches
  <2> HIDE DEF linked
  <2>6. /\ searched.page = invalid.page /\ RowsEase(linked, searched) /\ Fenced(searched, "search")
        /\ searched.effect["render"] = linked.effect["render"]
        /\ "links" \in Kinds => searched.effect["links"] = linked.effect["links"]
    <3>1. Touches(linked, searched, "search") /\ Fenced(searched, "search")
      BY <2>5, AdmitTouches
    <3> HIDE DEF searched
    <3> QED
      BY <2>5, <3>1, Bounds DEF Touches
  <2> HIDE DEF searched
  <2>7. Stirred(searched)
    BY <2>2, <2>4, <2>5, <2>6 DEF Stirred, Fenced
  <2>8. RowsEase(t, searched)
    <3>1. RowsEase(t, linked)
      BY <2>2, <2>4, <2>5 DEF RowsEase
    <3> QED
      BY <2>6, <3>1 DEF RowsEase
  <2> QED
    BY <2>1, <2>4, <2>6, <2>7, <2>8 DEF Admits, Eligible
<1> QED
  BY <1>1, <1>2

(* So does one that is admitted only if it is missing. *)
LEMMA EnsureRenderAdmits ==
  ASSUME NEW t, Good(t)
  PROVE  Admits(t, EnsureRender(t))
  BY RerenderAdmits, AdmitsReflexive DEF EnsureRender

(* The admission of search, with the render it waits for, fences search. *)
LEMMA AdmittedSearchAdmits ==
  ASSUME NEW t, Good(t)
  PROVE  Admits(t, AdmittedSearch(t)) /\ Fenced(AdmittedSearch(t), "search")
<1> DEFINE asked == Admit(t, "search", TRUE, TRUE)
           u == EnsureRender(asked)
<1>1. Admits(t, asked) /\ Fenced(asked, "search") /\ Good(asked)
  BY AdmitAdmits, AdmitTouches, AdmitLeads DEF Leads
<1>2. AdmittedSearch(t) \in {asked, u}
  BY DEF AdmittedSearch
<1> HIDE DEF asked
<1>3. Admits(asked, u)
  BY <1>1, EnsureRenderAdmits
<1> HIDE DEF u
<1>4. Admits(t, u)
  BY <1>1, <1>3, AdmitsTransitive
<1>5. Fenced(u, "search")
  BY <1>1, <1>3, FencedPasses, PresentRevision DEF Admits
<1> QED
  BY <1>1, <1>2, <1>4, <1>5

(* Renders of other revisions are given up before anybody claims them. *)
LEMMA StaleSupersededAdmits ==
  ASSUME NEW t, Good(t)
  PROVE  Admits(t, StaleSuperseded(t))
<1> DEFINE rows == t.effect["render"]
           row == [r \in Revisions |->
                     IF r # t.page.revision /\ rows[r].status \in {"pending", "retry"}
                     THEN [rows[r] EXCEPT !.status = "superseded"] ELSE rows[r]]
           g == [t.effect EXCEPT !["render"] = row]
           u == [t EXCEPT !.effect = g]
<1>1. /\ t \in TablesType /\ t.effect \in [Kinds -> [Revisions -> Effect]]
      /\ t.page.revision \in Revisions
  BY PresentRevision DEF Good, TablesType
<1>2. \A r \in Revisions : rows[r] \in Effect
  BY <1>1, Bounds
<1>3. ASSUME NEW r \in Revisions
      PROVE  /\ row[r].status \in {"running", "succeeded"} => row[r] = rows[r]
             /\ r = t.page.revision => row[r] = rows[r]
  BY <1>2 DEF Effect
<1>4. StaleSuperseded(t) = u
  BY DEF StaleSuperseded
<1>5. \A r \in Revisions : rows[r] = t.effect["render"][r]
  OBVIOUS
<1> HIDE DEF row, rows
<1>6. /\ g["render"] = row
      /\ \A j \in Kinds : j # "render" => g[j] = t.effect[j]
  BY <1>1, Bounds
<1> HIDE DEF g
<1>7. u.page = t.page /\ u.vector = t.vector /\ u.links = t.links /\ u.effect = g
  BY <1>1 DEF TablesType
<1> HIDE DEF u
<1>8. RowsEase(t, u)
  BY <1>3, <1>5, <1>6, <1>7 DEF RowsEase
<1>9. Quiet(t, u)
  BY <1>1, <1>3, <1>5, <1>6, <1>7 DEF Quiet, RenderSucceeded
<1> QED
  BY <1>4, <1>7, <1>8, <1>9 DEF Admits

---------------------------------------------------------------------------
(* Steps that change no receipt for the better and leave work as it is, or *)
(* at a phase that establishes nothing.                                    *)

Passes(t, u) ==
  /\ Renders(t, u) /\ Searches(t, u) /\ Linked(t, u) /\ LinksKept(t, u)
  /\ \A k \in Kinds : u.page.present /\ Succeeded(u, k) => Succeeded(t, k)

Sound(w, x, t) == (SearchInv => InHand(w, x, t)) /\ (LinksInv => LinksInHand(w, x, t))

\* Both invariants, each for itself.
Kept == (SearchInv => SearchInv') /\ (LinksInv => LinksInv')

(* What passes keeps the receipts true. *)
LEMMA PassingRight ==
  ASSUME IInv, NEW u, u = Tables', Passes(Tables, u),
         \A w \in Workers : \/ work'[w] = work[w] /\ Yields(w, Tables, u)
                            \/ Sound(w, work'[w], u)
  PROVE  Kept
<1>1. /\ Renders(Tables, u) /\ Searches(Tables, u) /\ Linked(Tables, u) /\ LinksKept(Tables, u)
      /\ u.page.present /\ Succeeded(u, "search") => Succeeded(Tables, "search")
      /\ u.page.present /\ Succeeded(u, "links") => Succeeded(Tables, "links")
      /\ u.page.present = Tables.page.present
  BY DEF Passes, Succeeded, Renders
<1>2. ASSUME SearchInv PROVE SearchInv'
  <2>1. u.page.present /\ Succeeded(u, "search") => SearchServed(Tables)
    BY <1>1, <1>2 DEF SearchInv, SearchTrue
  <2>2. \A w \in Workers : \/ work'[w] = work[w] /\ Yields(w, Tables, u)
                           \/ InHand(w, work'[w], u)
    BY <1>2 DEF Sound
  <2> QED
    BY <1>1, <1>2, <2>1, <2>2, SearchFrame
<1>3. ASSUME LinksInv PROVE LinksInv'
  <2>1. u.page.present /\ Succeeded(u, "links") => LinksServed(Tables)
    BY <1>1, <1>3 DEF LinksInv, LinksTrue
  <2>2. \A w \in Workers : \/ work'[w] = work[w] /\ Yields(w, Tables, u)
                           \/ LinksInHand(w, work'[w], u)
    BY <1>3 DEF Sound
  <2> QED
    BY <1>1, <1>3, <2>1, <2>2, LinksFrame
<1> QED
  BY <1>2, <1>3 DEF Kept

(* An execution that is gone, or that has established nothing, is sound.   *)
LEMMA QuietPhase ==
  ASSUME NEW w, NEW t, NEW x,
         x = Idle \/ x.phase \in {"claimed", "read", "render", "publish", "depend", "threw"}
  PROVE  Sound(w, x, t)
  BY DEF Sound, InHand, SearchWork, LinkWork, RenderWork, NotUndone, LinksInHand

(* While the page, its links and its search row stay, rows may change hands *)
(* or be freed, if the receipt of the render stays.                        *)
LEMMA RowsStay ==
  ASSUME IInv, NEW u, u.page = page, u.links = links, u.vector = vector,
         \A q \in Revisions :
           effect["render"][q].status = "succeeded" => u.effect["render"][q].status = "succeeded"
  PROVE  Renders(Tables, u) /\ Searches(Tables, u) /\ Linked(Tables, u) /\ LinksKept(Tables, u)
<1>1. /\ Tables.page = page /\ Tables.links = links /\ Tables.vector = vector
      /\ Tables.effect = effect
  BY DEF Tables
<1>2. page.present => page.revision \in Revisions
  BY <1>1, TablesAreGood, PresentRevision
<1>3. page.present /\ ProvenIn(Tables) => ProvenIn(u)
  BY <1>1, <1>2 DEF ProvenIn, RenderSucceeded
<1>4. Renders(Tables, u)
  BY <1>1, <1>3 DEF Renders
<1>5. Searches(Tables, u)
  BY <1>1 DEF Searches, Eligible
<1>6. Linked(Tables, u)
  BY <1>1 DEF Linked
<1>7. LinksKept(Tables, u)
  BY <1>1 DEF LinksKept
<1> QED
  BY <1>4, <1>5, <1>6, <1>7

(* Such rows pass when no receipt appears. *)
LEMMA RowsPass ==
  ASSUME IInv, NEW u, u.page = page, u.links = links, u.vector = vector,
         \A k \in Kinds, q \in Revisions :
           page.present /\ u.effect[k][q].status = "succeeded" => effect[k][q].status = "succeeded",
         \A q \in Revisions :
           effect["render"][q].status = "succeeded" => u.effect["render"][q].status = "succeeded"
  PROVE  Passes(Tables, u)
<1>1. Tables.page = page /\ Tables.effect = effect
  BY DEF Tables
<1>2. page.present => page.revision \in Revisions
  BY <1>1, TablesAreGood, PresentRevision
<1>3. \A k \in Kinds : u.page.present /\ Succeeded(u, k) => Succeeded(Tables, k)
  BY <1>1, <1>2 DEF Succeeded
<1> QED
  BY <1>3, RowsStay DEF Passes

(* What is admitted passes; so does a change of the password, and the       *)
(* removal of the search row, with an admission that fences search.        *)
LEMMA AdmissionPasses ==
  ASSUME IInv, page.present, NEW b, b.effect = effect, b.links = links, b.vector = vector,
         b.page.revision = page.revision, b.page.present, b.page.certified = page.certified,
         b.page.render = page.render, Eligible(b.page) = Eligible(page),
         NEW v, Admits(b, v), b.page.protected = page.protected \/ Fenced(v, "search"),
         NEW u, u.page = v.page, u.links = v.links, u.effect = v.effect,
         u.vector = v.vector \/ Fenced(v, "search")
  PROVE  Passes(Tables, u) /\ \A w \in Workers : Yields(w, Tables, u)
<1> DEFINE t == Tables
<1>1. /\ t.page = page /\ t.links = links /\ t.vector = vector /\ t.effect = effect
      /\ page.revision \in Revisions
  BY TablesAreGood, PresentRevision
<1> HIDE DEF t
<1>2. /\ u.page.revision = page.revision /\ u.page.present /\ Eligible(u.page) = Eligible(page)
      /\ u.page.protected = v.page.protected /\ v.page.protected = b.page.protected
      /\ RowsEase(b, u)
  <2>1. RowsEase(b, v) /\ u.effect = v.effect
    BY DEF Admits
  <2>2. RowsEase(b, u)
    BY <2>1 DEF RowsEase
  <2> QED
    BY <2>2 DEF Admits
<1>3. \/ /\ u.page.certified = page.certified /\ u.page.render = page.render /\ u.links = links
         /\ v.vector = vector
         /\ RenderSucceeded(effect, page.revision) => RenderSucceeded(u.effect, page.revision)
      \/ Stirred(u)
  BY DEF Admits, Quiet, Stirred, Fenced
<1>4. Fenced(v, "search") => Fenced(u, "search")
  BY DEF Fenced
<1>5. Renders(t, u)
  <2>1. CASE Stirred(u)
    BY <1>1, <1>2, <2>1 DEF Renders, Stirred
  <2>2. CASE ~Stirred(u)
    BY <1>1, <1>2, <1>3, <2>2 DEF Renders, ProvenIn, Certified
  <2> QED
    BY <2>1, <2>2
<1>6. Searches(t, u)
  <2>1. u.vector = t.vector \/ Fenced(u, "search")
    BY <1>1, <1>3, <1>4 DEF Stirred
  <2> QED
    BY <1>1, <1>2, <1>4, <2>1 DEF Searches
<1>7. Linked(t, u) /\ LinksKept(t, u)
  BY <1>1, <1>3 DEF Linked, LinksKept, Stirred
<1>8. \A k \in Kinds : Succeeded(u, k) => Succeeded(t, k)
  BY <1>1, <1>2 DEF Succeeded, RowsEase
<1>9. \A w \in Workers : Yields(w, t, u)
  BY <1>1, <1>2 DEF Yields, RowsEase
<1> QED
  BY <1>5, <1>6, <1>7, <1>8, <1>9 DEF Passes, t

(* A transaction that admits, and the throw of the one that asked for it.  *)
LEMMA AdmissionRight ==
  ASSUME IInv, page.present, NEW v, Admits(Tables, v), Commit(v),
         \A w \in Workers : work'[w] = work[w] \/ work'[w].phase = "threw"
  PROVE  Kept
<1> DEFINE u == Tables'
<1>1. u.page = v.page /\ u.links = v.links /\ u.effect = v.effect /\ u.vector = v.vector
  BY DEF Tables, Commit
<1>2. u = Tables'
  OBVIOUS
<1> HIDE DEF u
<1>3. /\ Tables.page = page /\ Tables.links = links /\ Tables.vector = vector
      /\ Tables.effect = effect
  BY DEF Tables
<1> DEFINE b == Tables
<1>4. /\ b.effect = effect /\ b.links = links /\ b.vector = vector /\ b.page = page
      /\ Admits(b, v)
  BY <1>3
<1> HIDE DEF b
<1>5. Passes(Tables, u) /\ \A w \in Workers : Yields(w, Tables, u)
  BY <1>1, <1>4, AdmissionPasses
<1>6. \A w \in Workers : \/ work'[w] = work[w] /\ Yields(w, Tables, u)
                         \/ Sound(w, work'[w], u)
  BY <1>5, QuietPhase
<1> QED
  BY <1>2, <1>5, <1>6, PassingRight

(* A rerender and the audits keep the receipts. *)
LEMMA AdmissionsKeep ==
  ASSUME IInv, AdmitPageRenderEffect \/ MaintainGraphEffects \/ RepairSearchPage
  PROVE  Kept
<1>0. work' = work /\ page.present
  BY DEF AdmitPageRenderEffect, MaintainGraphEffects, RepairSearchPage
<1>1. Good(Tables)
  BY <1>0, TablesAreGood
<1>2. ASSUME NEW v, Admits(Tables, v), Commit(v) PROVE Kept
  BY <1>0, <1>2, AdmissionRight
<1>3. CASE AdmitPageRenderEffect
  <2>1. PICK t \in {Tables, StaleSuperseded(Tables)} : Commit(Rerender(t))
    BY <1>3 DEF AdmitPageRenderEffect
  <2>2. Admits(Tables, t) /\ Good(t)
    BY <1>1, <2>1, StaleSupersededAdmits, StaleSupersededLeads, AdmitsReflexive DEF Leads
  <2>3. Admits(t, Rerender(t))
    BY <2>2, RerenderAdmits
  <2>4. Admits(Tables, Rerender(t))
    BY <1>1, <2>2, <2>3, AdmitsTransitive
  <2> QED
    BY <1>2, <2>1, <2>4
<1>4. ASSUME NEW t \in {Tables, EnsureRender(Tables)}, NEW k \in {"links", "search"},
             NEW rearm \in BOOLEAN, Commit(Admit(t, k, rearm, FALSE))
      PROVE  Kept
  <2>1. Admits(Tables, t) /\ Good(t)
    BY <1>1, EnsureRenderAdmits, EnsureRenderLeads, AdmitsReflexive DEF Leads
  <2>2. Admits(t, Admit(t, k, rearm, FALSE))
    BY <2>1, AdmitAdmits
  <2>3. Admits(Tables, Admit(t, k, rearm, FALSE))
    BY <1>1, <2>1, <2>2, AdmitsTransitive
  <2> QED
    BY <1>2, <1>4, <2>3
<1>5. CASE MaintainGraphEffects
  <2> DEFINE t == EnsureRender(Tables)
             disagree == t = Tables /\ Certified(page) /\ links # page.render
  <2>1. Commit(Admit(t, "links", disagree, FALSE)) /\ disagree \in BOOLEAN
    BY <1>5 DEF MaintainGraphEffects
  <2> HIDE DEF disagree
  <2> QED
    BY <1>4, <2>1
<1>6. CASE RepairSearchPage
  <2> DEFINE t == IF Eligible(page) /\ ~page.protected THEN EnsureRender(Tables) ELSE Tables
  <2>1. Commit(Admit(t, "search", SearchStateDisagrees, FALSE)) /\ SearchStateDisagrees \in BOOLEAN
    BY <1>6 DEF RepairSearchPage, SearchStateDisagrees
  <2>2. t \in {Tables, EnsureRender(Tables)}
    OBVIOUS
  <2> HIDE DEF t
  <2> QED
    BY <1>4, <2>1, <2>2
<1> QED
  BY <1>3, <1>5, <1>6

(* The tables with the password set or removed. *)
LEMMA ProtectedIsGood ==
  ASSUME IInv, page.present, NEW on \in BOOLEAN
  PROVE  LET b == [Tables EXCEPT !.page.protected = on]
         IN  /\ Good(b) /\ b.effect = effect /\ b.links = links /\ b.vector = vector
             /\ b.page.revision = page.revision /\ b.page.present
             /\ b.page.certified = page.certified /\ b.page.render = page.render
             /\ Eligible(b.page) = Eligible(page)
<1> DEFINE p == [page EXCEPT !.protected = on]
           b == [Tables EXCEPT !.page.protected = on]
<1>1. page \in Page /\ Core(page, effect) /\ links \in Html /\ vector \in Vector
      /\ effect \in [Kinds -> [Revisions -> Effect]]
  BY DEF IInv, Core
<1>2. /\ p \in Page /\ p.present = page.present /\ p.revision = page.revision
      /\ p.certified = page.certified /\ p.render = page.render
      /\ p.listed = page.listed /\ p.window = page.window
  BY <1>1 DEF Page
<1>3. b = [page |-> p, links |-> links, vector |-> vector, effect |-> effect]
  BY DEF Tables
<1> HIDE DEF p, b
<1>4. Core(p, effect) /\ Eligible(p) = Eligible(page)
  BY <1>1, <1>2 DEF Core, Served, Certified, Eligible
<1>5. b \in TablesType /\ b.page = p /\ b.effect = effect /\ b.vector = vector /\ b.links = links
  BY <1>1, <1>2, <1>3 DEF TablesType
<1>6. Good(b)
  BY <1>2, <1>4, <1>5 DEF Good
<1> QED
  BY <1>2, <1>4, <1>5, <1>6 DEF b

(* So do setting and removing its password: search is admitted afresh.     *)
LEMMA ProtectionKeeps ==
  ASSUME IInv, SetPageProtection \/ RemovePageProtection
  PROVE  Kept
<1>0. work' = work /\ page.present
  BY DEF SetPageProtection, RemovePageProtection
<1>1. PICK on \in BOOLEAN :
        LET v == AdmittedSearch([Tables EXCEPT !.page.protected = on])
        IN  /\ page' = v.page /\ links' = v.links /\ effect' = v.effect
  <2>1. CASE SetPageProtection
    <3> DEFINE v == AdmittedSearch([Tables EXCEPT !.page.protected = TRUE])
               n == [v EXCEPT !.vector = NoVector]
    <3>1. page' = n.page /\ links' = n.links /\ effect' = n.effect
      BY <2>1 DEF SetPageProtection, Commit
    <3>2. n.page = v.page /\ n.links = v.links /\ n.effect = v.effect
      <4>1. v \in TablesType
        BY <1>0, ProtectedIsGood, AdmittedSearchLeads DEF Leads, Good
      <4> HIDE DEF v
      <4> QED
        BY <4>1 DEF TablesType
    <3> QED
      BY <3>1, <3>2
  <2>2. CASE RemovePageProtection
    BY <2>2 DEF RemovePageProtection, Commit
  <2> QED
    BY <2>1, <2>2
<1> DEFINE b == [Tables EXCEPT !.page.protected = on]
           v == AdmittedSearch(b)
           u == Tables'
<1>2. /\ b.effect = effect /\ b.links = links /\ b.vector = vector
      /\ b.page.revision = page.revision /\ b.page.present
      /\ b.page.certified = page.certified /\ b.page.render = page.render
      /\ Eligible(b.page) = Eligible(page) /\ Good(b)
  BY <1>0, ProtectedIsGood
<1>3. Admits(b, v) /\ Fenced(v, "search")
  BY <1>2, AdmittedSearchAdmits
<1>4. u.page = v.page /\ u.links = v.links /\ u.effect = v.effect /\ u = Tables'
  BY <1>1 DEF Tables
<1> HIDE DEF b, v, u
<1>5. Passes(Tables, u) /\ \A w \in Workers : Yields(w, Tables, u)
  BY <1>0, <1>2, <1>3, <1>4, AdmissionPasses
<1> QED
  BY <1>0, <1>4, <1>5, PassingRight

---------------------------------------------------------------------------
(* Claims and leases. *)

\* A process whose row turns holds it no better than it did, or drops what it does.
HoldsLess(w, e, f) ==
  \/ /\ work'[w] = work[w]
     /\ f.status = "running" /\ f.token = w =>
          e.status = "running" /\ e.token = w /\ (e.lapsed => f.lapsed)
  \/ work'[w] = Idle

(* One row turns that bears no receipt, or a search row of a page that is   *)
(* gone.                                                                   *)
LEMMA RowKeeps ==
  ASSUME IInv, UNCHANGED <<page, links, vector>>, NEW k \in Kinds, NEW r \in Revisions, NEW f,
         effect' = [effect EXCEPT ![k][r] = f],
         effect[k][r].status = "running" \/ (~page.present /\ k = "search"),
         f.status # "succeeded",
         \A w \in Workers : HoldsLess(w, effect[k][r], f)
  PROVE  Kept
<1> DEFINE u == Tables'
<1>1. u.page = page /\ u.links = links /\ u.vector = vector /\ u.effect = effect' /\ u = Tables'
  BY DEF Tables
<1> HIDE DEF u
<1>2. effect \in [Kinds -> [Revisions -> Effect]]
  BY DEF IInv, Core
<1>3. \A j \in Kinds, q \in Revisions : u.effect[j][q] = IF j = k /\ q = r THEN f ELSE effect[j][q]
  BY <1>1, <1>2
<1>4. \A j \in Kinds, q \in Revisions :
        u.effect[j][q].status = "succeeded" => effect[j][q].status = "succeeded"
  BY <1>3
<1>5. \A q \in Revisions :
        effect["render"][q].status = "succeeded" => u.effect["render"][q].status = "succeeded"
  BY <1>3, Bounds
<1>6. Passes(Tables, u)
  <2>1. u.page = page /\ u.links = links /\ u.vector = vector
    BY <1>1
  <2>2. \A j \in Kinds, q \in Revisions :
          page.present /\ u.effect[j][q].status = "succeeded" => effect[j][q].status = "succeeded"
    BY <1>4
  <2> QED
    BY <2>1, <2>2, <1>5, RowsPass
<1>7. Tables.effect = effect
  BY DEF Tables
<1>8. ASSUME NEW w \in Workers
      PROVE  (work'[w] = work[w] /\ Yields(w, Tables, u)) \/ Sound(w, work'[w], u)
  <2>1. CASE work'[w] = Idle
    BY <2>1, QuietPhase
  <2>2. CASE work'[w] # Idle
    BY <1>3, <1>7, <2>2 DEF Yields, HoldsLess
  <2> QED
    BY <2>1, <2>2
<1> QED
  BY <1>1, <1>6, <1>8, PassingRight

(* Leases run out and are freed, and an absent page is audited again. *)
LEMMA LeasesKeep ==
  ASSUME IInv, \/ ReleaseExpired
               \/ \E k \in Kinds, r \in Revisions : Lapse(k, r)
               \/ \E r \in Revisions : MaintainAbsentSearchEffects(r)
  PROVE  Kept
<1>1. CASE ReleaseExpired
  <2> DEFINE u == Tables'
  <2>1. /\ u.page = page /\ u.links = links /\ u.vector = vector /\ u.effect = Released
        /\ u = Tables' /\ work' = work /\ Tables.effect = effect
    BY <1>1 DEF Tables, ReleaseExpired
  <2> HIDE DEF u
  <2>2. \A k \in Kinds, r \in Revisions :
          /\ Turns(effect[k][r], Released[k][r])
          /\ Released[k][r].status = "running" => Released[k][r] = effect[k][r]
          /\ effect[k][r].status = "succeeded" => Released[k][r] = effect[k][r]
    BY ReleasedTurns DEF Released
  <2>3. Passes(Tables, u)
    BY <2>1, <2>2, RowsPass, Bounds DEF Turns
  <2>4. \A w \in Workers : Yields(w, Tables, u)
    BY <2>1, <2>2 DEF Yields
  <2> QED
    BY <2>1, <2>3, <2>4, PassingRight
<1>2. ASSUME NEW k \in Kinds, NEW r \in Revisions, Lapse(k, r) PROVE Kept
  <2> DEFINE f == [effect[k][r] EXCEPT !.lapsed = TRUE]
  <2>1. effect[k][r] \in Effect /\ effect[k][r].status = "running"
    BY <1>2 DEF IInv, Core, Lapse
  <2>2. f.status = "running" /\ f.token = effect[k][r].token /\ f.lapsed
    BY <2>1 DEF Effect
  <2>3. effect' = [effect EXCEPT ![k][r] = f]
    BY <1>2 DEF Lapse
  <2> HIDE DEF f
  <2>4. UNCHANGED <<page, links, vector>> /\ work' = work
    BY <1>2 DEF Lapse
  <2>5. \A w \in Workers : HoldsLess(w, effect[k][r], f)
    BY <2>1, <2>2, <2>4 DEF HoldsLess
  <2>6. f.status # "succeeded"
    BY <2>2
  <2> QED
    BY <2>1, <2>3, <2>4, <2>5, <2>6, RowKeeps
<1>3. ASSUME NEW r \in Revisions, MaintainAbsentSearchEffects(r) PROVE Kept
  <2> DEFINE f == Waiting("retry", "absent")
  <2>1. f.status = "retry"
    BY DEF Waiting
  <2>2. effect' = [effect EXCEPT !["search"][r] = f] /\ "search" \in Kinds /\ ~page.present
    BY <1>3 DEF MaintainAbsentSearchEffects
  <2> HIDE DEF f
  <2> QED
    BY <1>3, <2>1, <2>2, RowKeeps DEF MaintainAbsentSearchEffects, HoldsLess
<1> QED
  BY <1>1, <1>2, <1>3

(* A claim establishes nothing yet. *)
LEMMA ClaimKeeps ==
  ASSUME IInv, NEW w \in Workers, NEW k \in Kinds, NEW r \in Revisions,
         ClaimPageMutationEffect(w, k, r)
  PROVE  Kept
<1> DEFINE f == Claimed(Released[k][r], w)
           u == Tables'
<1>1. /\ Released \in [Kinds -> [Revisions -> Effect]]
      /\ \A j \in Kinds, q \in Revisions :
           /\ Turns(effect[j][q], Released[j][q])
           /\ Released[j][q].status = "running" => Released[j][q] = effect[j][q]
           /\ effect[j][q].status = "succeeded" => Released[j][q] = effect[j][q]
  BY ReleasedTurns DEF Released
<1>2. /\ Released[k][r].status \in {"pending", "retry"}
      /\ effect' = [Released EXCEPT ![k][r] = f]
      /\ UNCHANGED <<page, links, vector>>
  BY DEF ClaimPageMutationEffect
<1>3. f.status = "running" /\ f.token = w
  <2>1. Released[k][r] \in Effect
    BY <1>1
  <2> QED
    BY <2>1 DEF Claimed, Effect
<1>4. u.page = page /\ u.links = links /\ u.vector = vector /\ u.effect = effect'
      /\ u = Tables' /\ Tables.effect = effect
  BY <1>2 DEF Tables
<1> HIDE DEF f, u
<1>5. \A j \in Kinds, q \in Revisions :
        u.effect[j][q] = IF j = k /\ q = r THEN f ELSE Released[j][q]
  BY <1>1, <1>2, <1>4
<1>6. \A j \in Kinds, q \in Revisions :
        u.effect[j][q].status = "succeeded" => effect[j][q].status = "succeeded"
  BY <1>1, <1>3, <1>5 DEF Turns
<1>7. \A q \in Revisions :
        effect["render"][q].status = "succeeded" => u.effect["render"][q].status = "succeeded"
  BY <1>1, <1>2, <1>5, Bounds
<1>8. Passes(Tables, u)
  BY <1>4, <1>6, <1>7, RowsPass
<1>9. work'[w].phase = "claimed" /\ \A v \in Workers : v # w => work'[v] = work[v]
  <2>1. work \in [Workers -> Execution \cup {Idle}]
    BY DEF IInv
  <2> QED
    BY <2>1 DEF ClaimPageMutationEffect
<1>10. ASSUME NEW v \in Workers, v # w PROVE Yields(v, Tables, u)
  BY <1>1, <1>3, <1>4, <1>5, <1>10 DEF Yields
<1>11. Sound(w, work'[w], u)
  BY <1>9, QuietPhase
<1> QED
  BY <1>4, <1>8, <1>9, <1>10, <1>11, PassingRight

(* An execution that ends without a word leaves no receipt. *)
LEMMA DropKeeps ==
  ASSUME IInv, NEW w \in Workers, work[w] # Idle, Drop(w),
         UNCHANGED <<page, links, vector>>
  PROVE  Kept
<1> DEFINE k == work[w].kind
           r == work[w].revision
<1>1. /\ k \in Kinds /\ r \in Revisions /\ SoundRow(effect[k][r]) /\ Row(w) = effect[k][r]
      /\ effect \in [Kinds -> [Revisions -> Effect]]
  BY Executing DEF IInv, Core
<1>2. work'[w] = Idle /\ \A v \in Workers : v # w => work'[v] = work[v]
  BY DEF Drop, IInv
<1>3. CASE Owned(w)
  <2> DEFINE f == [effect[k][r] EXCEPT !.token = Lost]
  <2>1. f.token = Lost /\ f.status = "running" /\ effect[k][r].status = "running"
    BY <1>1, <1>3 DEF Owned, SoundRow, Effect
  <2>2. effect' = [effect EXCEPT ![k][r] = f]
    BY <1>3 DEF Drop
  <2>3. k \in Kinds /\ r \in Revisions
    BY <1>1
  <2> HIDE DEF f, k, r
  <2>4. ASSUME NEW v \in Workers
        PROVE  HoldsLess(v, effect[k][r], f)
    BY <1>2, <2>1, TokensAssumption DEF HoldsLess
  <2>5. f.status # "succeeded"
    BY <2>1
  <2> QED
    BY <2>1, <2>2, <2>3, <2>4, <2>5, RowKeeps
<1>4. CASE ~Owned(w)
  <2> DEFINE u == Tables'
  <2>1. /\ u.page = page /\ u.links = links /\ u.vector = vector /\ u.effect = effect
        /\ u = Tables' /\ Tables.effect = effect
    BY <1>4 DEF Tables, Drop
  <2> HIDE DEF u
  <2>2. Passes(Tables, u)
    BY <2>1, RowsPass
  <2>3. \A v \in Workers : Yields(v, Tables, u)
    BY <2>1 DEF Yields
  <2>4. Sound(w, work'[w], u)
    BY <1>2, QuietPhase
  <2> QED
    BY <1>2, <2>1, <2>2, <2>3, <2>4, PassingRight
<1> QED
  BY <1>3, <1>4

---------------------------------------------------------------------------
(* The execution of a claimed effect. *)

(* What a phase alone changes of an execution. *)
LEMMA Going ==
  ASSUME IInv, NEW w \in Workers, work[w] # Idle, NEW phase, Goes(w, phase)
  PROVE  /\ work'[w].phase = phase /\ work'[w].kind = work[w].kind
         /\ work'[w].revision = work[w].revision /\ work'[w].seen = work[w].seen
         /\ work'[w].eligible = work[w].eligible
         /\ \A v \in Workers : v # w => work'[v] = work[v]
<1>1. work[w] \in Execution /\ work \in [Workers -> Execution \cup {Idle}]
  BY Executing DEF IInv
<1> DEFINE x == [work[w] EXCEPT !.phase = phase]
<1>2. work' = [work EXCEPT ![w] = x]
  BY DEF Goes
<1>3. x.phase = phase /\ x.kind = work[w].kind /\ x.revision = work[w].revision
      /\ x.seen = work[w].seen /\ x.eligible = work[w].eligible
  BY <1>1 DEF Execution
<1> HIDE DEF x
<1> QED
  BY <1>1, <1>2, <1>3

(* What a read changes of it. *)
LEMMA Reading ==
  ASSUME IInv, NEW w \in Workers, work[w] # Idle, NEW phase, NEW seen, NEW eligible,
         Reads(w, phase, seen, eligible)
  PROVE  /\ work'[w].phase = phase /\ work'[w].kind = work[w].kind
         /\ work'[w].revision = work[w].revision /\ work'[w].seen = seen
         /\ work'[w].eligible = eligible
         /\ \A v \in Workers : v # w => work'[v] = work[v]
<1>1. work[w] \in Execution /\ work \in [Workers -> Execution \cup {Idle}]
  BY Executing DEF IInv
<1> DEFINE x == [work[w] EXCEPT !.phase = phase, !.seen = seen, !.eligible = eligible]
<1>2. work' = [work EXCEPT ![w] = x]
  BY DEF Reads
<1>3. x.phase = phase /\ x.kind = work[w].kind /\ x.revision = work[w].revision
      /\ x.seen = seen /\ x.eligible = eligible
  BY <1>1 DEF Execution
<1> HIDE DEF x
<1> QED
  BY <1>1, <1>2, <1>3

(* Tables that stay as they are pass. *)
LEMMA StillPasses ==
  ASSUME IInv, UNCHANGED <<page, links, vector, effect>>
  PROVE  /\ Tables' = Tables /\ Passes(Tables, Tables)
         /\ \A v \in Workers : Yields(v, Tables, Tables)
<1>1. Tables' = Tables
  BY DEF Tables
<1>2. /\ Tables.page = page /\ Tables.links = links /\ Tables.vector = vector
      /\ Tables.effect = effect
  BY DEF Tables
<1>3. Passes(Tables, Tables)
  BY <1>2, RowsPass
<1> QED
  BY <1>1, <1>3 DEF Yields

(* A step that only changes what one process has in hand. *)
LEMMA StillKeeps ==
  ASSUME IInv, UNCHANGED <<page, links, vector, effect>>, NEW w \in Workers,
         Sound(w, work'[w], Tables), \A v \in Workers : v # w => work'[v] = work[v]
  PROVE  Kept
<1> DEFINE u == Tables'
<1>1. u = Tables' /\ u = Tables /\ Passes(Tables, u) /\ \A v \in Workers : Yields(v, Tables, u)
  BY StillPasses
<1> HIDE DEF u
<1> QED
  BY <1>1, PassingRight

(* The first steps of a sink: what it reads of the page is so.             *)
LEMMA ReadingKeeps ==
  ASSUME IInv, NEW w \in Workers,
         BeginExecution(w) \/ ReadSuperseded(w) \/ ReadAbsent(w) \/ ReadCurrent(w)
  PROVE  Kept
<1>0. /\ work[w] # Idle /\ work[w].kind \in {"render", "links", "search"}
      /\ Tables.page = page /\ Tables.links = links /\ Tables.vector = vector
      /\ Tables.effect = effect
  BY Executing, Bounds DEF At, BeginExecution, ReadSuperseded, ReadAbsent, ReadCurrent, Tables
<1>1. CASE BeginExecution(w)
  <2>1. CASE Alive(w)
    <3>1. Goes(w, "read") /\ UNCHANGED <<page, links, vector, effect>>
      BY <1>1, <2>1 DEF BeginExecution
    <3>2. work'[w].phase = "read" /\ \A v \in Workers : v # w => work'[v] = work[v]
      BY <1>0, <3>1, Going
    <3> QED
      BY <3>1, <3>2, QuietPhase, StillKeeps
  <2>2. CASE ~Alive(w)
    BY <1>0, <1>1, <2>2, DropKeeps DEF BeginExecution
  <2> QED
    BY <2>1, <2>2
<1>2. ASSUME NEW phase, NEW seen, NEW eligible, Reads(w, phase, seen, eligible),
             Sound(w, work'[w], Tables)
      PROVE  Kept
  <2>1. UNCHANGED <<page, links, vector, effect>>
    BY <1>2 DEF Reads
  <2>2. \A v \in Workers : v # w => work'[v] = work[v]
    BY <1>0, <1>2, Reading
  <2> QED
    BY <1>2, <2>1, <2>2, StillKeeps
<1>3. CASE ReadSuperseded(w)
  <2>1. ~Current(work[w].revision)
    <3>1. Current(work[w].revision) => Row(w).desired = "present"
      BY <1>0, Executing DEF IInv, Core, Served, Current
    <3> QED
      BY <1>3, <3>1 DEF ReadSuperseded, Current
  <2>2. Reads(w, "satisfied", NoRender, FALSE)
    BY <1>3 DEF ReadSuperseded
  <2>3. work'[w].phase = "satisfied" /\ work'[w].revision = work[w].revision
    BY <1>0, <2>2, Reading
  <2>4. Sound(w, work'[w], Tables)
    BY <1>0, <2>1, <2>3
       DEF Sound, InHand, SearchWork, LinkWork, RenderWork, NotUndone, LinksInHand, Current
  <2> QED
    BY <1>2, <2>2, <2>4
<1>4. CASE ReadAbsent(w)
  <2>1. PICK phase \in {"satisfied", "remove", "reconcile"} : Reads(w, phase, NoRender, FALSE)
    BY <1>4 DEF ReadAbsent
  <2>2. work'[w].phase = phase /\ ~page.present
    BY <1>0, <1>4, <2>1, Reading DEF ReadAbsent
  <2>3. Sound(w, work'[w], Tables)
    BY <1>0, <2>2
       DEF Sound, InHand, SearchWork, LinkWork, RenderWork, NotUndone, LinksInHand
  <2> QED
    BY <1>2, <2>1, <2>3
<1>5. CASE ReadCurrent(w)
  <2>1. Current(work[w].revision) /\ (Proven(work[w].revision) => ProvenIn(Tables))
    BY <1>0, <1>5 DEF ReadCurrent, Current, Proven, ProvenIn
  <2>2. \/ \E phase \in {"render", "threw", "depend"}, eligible \in BOOLEAN :
              Reads(w, phase, NoRender, eligible)
        \/ /\ work[w].kind = "links" /\ Proven(work[w].revision)
           /\ Reads(w, "replace", page.render, FALSE)
        \/ /\ work[w].kind = "search" /\ (Open(page) => Proven(work[w].revision))
           /\ Reads(w, "reconcile", NoRender, Eligible(page))
    BY <1>5 DEF ReadCurrent, Open
  <2>3. ASSUME NEW phase \in {"render", "threw", "depend"}, NEW eligible \in BOOLEAN,
               Reads(w, phase, NoRender, eligible)
        PROVE  Kept
    <3>1. work'[w].phase = phase
      BY <1>0, <2>3, Reading
    <3> QED
      BY <1>2, <2>3, <3>1, QuietPhase
  <2>4. ASSUME work[w].kind = "links", Proven(work[w].revision),
               Reads(w, "replace", page.render, FALSE)
        PROVE  Kept
    <3>1. work'[w].phase = "replace" /\ work'[w].kind = "links" /\ work'[w].seen = page.render
      <4> DEFINE seen == page.render
                 none == FALSE
      <4>1. Reads(w, "replace", seen, none)
        BY <2>4
      <4> HIDE DEF seen, none
      <4>2. work'[w].phase = "replace" /\ work'[w].kind = "links" /\ work'[w].seen = seen
        BY <1>0, <2>4, <4>1, Reading
      <4> QED
        BY <4>2 DEF seen
    <3>2. Sound(w, work'[w], Tables)
      BY <1>0, <2>1, <2>4, <3>1
         DEF Sound, InHand, SearchWork, LinkWork, RenderWork, NotUndone, LinksInHand
    <3> QED
      BY <1>2, <2>4, <3>2
  <2>5. ASSUME work[w].kind = "search", Open(page) => Proven(work[w].revision),
               Reads(w, "reconcile", NoRender, Eligible(page))
        PROVE  Kept
    <3>1. /\ work'[w].phase = "reconcile" /\ work'[w].kind = "search"
          /\ work'[w].eligible = Eligible(page)
      BY <1>0, <2>5, Reading
    <3>2. Sound(w, work'[w], Tables)
      BY <1>0, <2>1, <2>5, <3>1
         DEF Sound, InHand, SearchWork, LinkWork, RenderWork, NotUndone, LinksInHand, Current
    <3> QED
      BY <1>2, <2>5, <3>2
  <2> QED
    BY <2>2, <2>3, <2>4, <2>5
<1> QED
  BY <1>1, <1>3, <1>4, <1>5

(* A render renders the page only at its own revision, and publishes only   *)
(* with its lease; it then finds its HTML certified while the lease lives. *)
LEMMA RenderKeeps ==
  ASSUME IInv, NEW w \in Workers, RenderHtml(w) \/ PublishRender(w) \/ CheckRender(w)
  PROVE  Kept
<1>0. /\ work[w] # Idle /\ work[w].kind = "render" /\ work[w] \in Execution
      /\ Tables.page = page /\ Tables.links = links /\ Tables.vector = vector
      /\ Tables.effect = effect /\ work[w].revision \in Revisions
  BY Executing DEF At, Doing, RenderHtml, PublishRender, CheckRender, Tables
<1>1. CASE RenderHtml(w)
  <2>1. PICK phase \in {"publish", "check", "threw"},
             seen \in {NoRender, [revision |-> work[w].revision, context |-> context]} :
          Reads(w, phase, seen, FALSE) /\ (phase # "publish" => ~Current(work[w].revision))
    BY <1>1 DEF RenderHtml
  <2>2. /\ work'[w].phase = phase /\ work'[w].kind = "render"
        /\ work'[w].revision = work[w].revision
        /\ \A v \in Workers : v # w => work'[v] = work[v]
    BY <1>0, <2>1, Reading
  <2>3. Sound(w, work'[w], Tables)
    BY <1>0, <2>1, <2>2
       DEF Sound, InHand, SearchWork, LinkWork, RenderWork, NotUndone, LinksInHand, Current
  <2>4. UNCHANGED <<page, links, vector, effect>>
    BY <2>1 DEF Reads
  <2> QED
    BY <2>2, <2>3, <2>4, StillKeeps
<1>2. CASE PublishRender(w)
  <2> DEFINE u == Tables'
  <2>1. /\ Goes(w, "check") /\ u = Tables' /\ u.page = page' /\ u.links = links
        /\ u.vector = vector /\ u.effect = effect
    BY <1>2 DEF PublishRender, Tables
  <2>2. /\ work'[w].phase = "check" /\ work'[w].kind = "render"
        /\ work'[w].revision = work[w].revision
        /\ \A v \in Workers : v # w => work'[v] = work[v]
    BY <1>0, <2>1, Going
  <2> HIDE DEF u
  <2>3. /\ u.page.revision = page.revision /\ u.page.present = page.present
        /\ u.page.protected = page.protected /\ Eligible(u.page) = Eligible(page)
        /\ ~Publishable(w) => u.page = page
        /\ Publishable(w) => Certified(u.page)
    <3>1. page \in Page
      BY DEF IInv, Core
    <3>2. CASE Publishable(w)
      <4> DEFINE p == [page EXCEPT !.render = work[w].seen, !.certified = page.revision]
      <4>1. u.page = p
        BY <1>2, <2>1, <3>2 DEF PublishRender
      <4>2. /\ p.revision = page.revision /\ p.present = page.present
            /\ p.protected = page.protected /\ p.certified = page.revision
            /\ p.listed = page.listed /\ p.window = page.window
        BY <3>1 DEF Page
      <4> HIDE DEF p
      <4> QED
        BY <3>2, <4>1, <4>2 DEF Eligible, Certified
    <3>3. CASE ~Publishable(w)
      BY <1>2, <2>1, <3>3 DEF PublishRender
    <3> QED
      BY <3>2, <3>3
  <2>4. Publishable(w) => Current(work[w].revision) /\ effect["render"][page.revision].status = "running"
    BY <1>0 DEF Publishable, Current, Alive, Owned, Row
  <2>5. Publishable(w) => ~ProvenIn(Tables)
    BY <1>0, <2>4 DEF ProvenIn, RenderSucceeded
  <2>6. Renders(Tables, u)
    BY <1>0, <2>1, <2>3, <2>5 DEF Renders, ProvenIn, RenderSucceeded
  <2>7. Searches(Tables, u) /\ Linked(Tables, u) /\ LinksKept(Tables, u)
    BY <1>0, <2>1, <2>3 DEF Searches, Linked, LinksKept
  <2>8. \A k \in Kinds : u.page.present /\ Succeeded(u, k) => Succeeded(Tables, k)
    BY <1>0, <2>1, <2>3 DEF Succeeded
  <2>9. \A v \in Workers : Yields(v, Tables, u)
    BY <1>0, <2>1 DEF Yields
  <2>10. Sound(w, work'[w], u)
    <3>1. Live(w, work'[w], u) => Alive(w)
      BY <1>0, <2>1, <2>2 DEF Live, Held, Alive, Owned, Row
    <3>2. RenderWork(w, work'[w], u)
      BY <2>2, <2>3, <3>1 DEF RenderWork, Publishable, Current
    <3> QED
      BY <2>2, <3>2 DEF Sound, InHand, SearchWork, LinkWork, NotUndone, LinksInHand
  <2> QED
    BY <2>1, <2>2, <2>6, <2>7, <2>8, <2>9, <2>10, PassingRight DEF Passes
<1>3. CASE CheckRender(w)
  <2>1. PICK phase \in {"satisfied", "unsatisfied"} :
          Goes(w, phase) /\ (phase = "unsatisfied" => Current(work[w].revision) /\ ~Certified(page))
    BY <1>3 DEF CheckRender, Tells
  <2>2. /\ work'[w].phase = phase /\ work'[w].kind = "render"
        /\ work'[w].revision = work[w].revision
        /\ \A v \in Workers : v # w => work'[v] = work[v]
    BY <1>0, <2>1, Going
  <2>3. SearchInv => NotUndone(w, work'[w], Tables)
    <3> SUFFICES ASSUME SearchInv, phase = "unsatisfied" PROVE ~Live(w, work'[w], Tables)
      BY <2>2 DEF NotUndone
    <3>1. RenderWork(w, work[w], Tables) /\ work[w].phase = "check"
      BY <1>3 DEF SearchInv, InHand, CheckRender, Doing, At
    <3>2. ~Live(w, work[w], Tables)
      BY <1>0, <2>1, <3>1 DEF RenderWork, Current
    <3> QED
      BY <2>2, <3>2, <1>0 DEF Live, Held
  <2>4. Sound(w, work'[w], Tables)
    BY <2>2, <2>3
       DEF Sound, InHand, SearchWork, LinkWork, RenderWork, LinksInHand
  <2>5. UNCHANGED <<page, links, vector, effect>>
    BY <1>3 DEF CheckRender
  <2> QED
    BY <2>2, <2>4, <2>5, StillKeeps
<1> QED
  BY <1>1, <1>2, <1>3

(* Links are removed of a page that is gone, and replaced under its lock by *)
(* those of HTML that still is the page's.                                 *)
LEMMA LinksKeep ==
  ASSUME IInv, NEW w \in Workers, RemoveLinks(w) \/ CheckLinks(w) \/ ReplaceLinks(w)
  PROVE  Kept
<1>0. /\ work[w] # Idle /\ work[w].kind = "links" /\ work[w] \in Execution
      /\ Tables.page = page /\ Tables.links = links /\ Tables.vector = vector
      /\ Tables.effect = effect
  BY Executing DEF At, Doing, RemoveLinks, CheckLinks, ReplaceLinks, Tables
<1> DEFINE u == Tables'
<1>u. /\ u = Tables' /\ u.page = page /\ u.links = links' /\ u.vector = vector /\ u.effect = effect
  BY DEF Tables, RemoveLinks, CheckLinks, ReplaceLinks
<1> HIDE DEF u
<1>r. /\ Renders(Tables, u) /\ Searches(Tables, u)
      /\ \A k \in Kinds : Succeeded(u, k) => Succeeded(Tables, k)
      /\ \A v \in Workers : Yields(v, Tables, u)
  <2>1. Renders(Tables, u)
    BY <1>0, <1>u DEF Renders, ProvenIn, RenderSucceeded
  <2>2. Searches(Tables, u)
    BY <1>0, <1>u DEF Searches
  <2> QED
    BY <1>0, <1>u, <2>1, <2>2 DEF Succeeded, Yields
<1>i. /\ SearchInv => LinkWork(w, work[w], Tables)
      /\ LinksInv => LinksInHand(w, work[w], Tables)
  BY DEF SearchInv, InHand, LinksInv
<1>1. CASE RemoveLinks(w)
  <2>1. Goes(w, "check") /\ work[w].phase = "remove" /\ u.links = NoRender
    BY <1>1, <1>u DEF RemoveLinks, Doing, At
  <2>2. /\ work'[w].phase = "check" /\ work'[w].kind = "links"
        /\ work'[w].revision = work[w].revision
        /\ \A v \in Workers : v # w => work'[v] = work[v]
    BY <1>0, <2>1, Going
  <2>3. Linked(Tables, u)
    BY <2>1 DEF Linked
  <2>4. Sound(w, work'[w], u)
    BY <1>0, <1>u, <1>i, <2>1, <2>2
       DEF Sound, InHand, SearchWork, LinkWork, RenderWork, NotUndone, LinksInHand
  <2>5. ASSUME SearchInv PROVE SearchInv'
    <3>1. u.page.present /\ Succeeded(u, "search") => SearchServed(Tables)
      BY <1>0, <1>u, <1>r, <2>5 DEF SearchInv, SearchTrue, Succeeded
    <3>2. \A v \in Workers : \/ work'[v] = work[v] /\ Yields(v, Tables, u)
                             \/ InHand(v, work'[v], u)
      BY <1>r, <2>2, <2>4, <2>5 DEF Sound
    <3> QED
      BY <1>u, <1>r, <2>3, <2>5, <3>1, <3>2, SearchFrame
  <2>6. ASSUME LinksInv PROVE LinksInv'
    <3>1. LinksKept(Tables, u)
      BY <1>0, <1>u, <1>i, <2>1, <2>6 DEF LinksKept, LinksInHand
    <3>2. u.page.present /\ Succeeded(u, "links") => LinksServed(Tables)
      BY <1>0, <1>u, <1>r, <2>6 DEF LinksInv, LinksTrue, Succeeded
    <3>3. \A v \in Workers : \/ work'[v] = work[v] /\ Yields(v, Tables, u)
                             \/ LinksInHand(v, work'[v], u)
      BY <1>r, <2>2, <2>4, <2>6 DEF Sound
    <3> QED
      BY <1>u, <1>r, <2>6, <3>1, <3>2, <3>3, LinksFrame
  <2> QED
    BY <2>5, <2>6 DEF Kept
<1>2. CASE CheckLinks(w)
  <2>1. PICK phase \in {"satisfied", "unsatisfied"} :
          Goes(w, phase) /\ (phase = "unsatisfied" => links # NoRender)
    BY <1>2 DEF CheckLinks, Tells
  <2>2. /\ work'[w].phase = phase /\ work'[w].kind = "links"
        /\ work'[w].revision = work[w].revision
        /\ \A v \in Workers : v # w => work'[v] = work[v]
    BY <1>0, <2>1, Going
  <2>3. work[w].phase = "check" /\ UNCHANGED <<page, links, vector, effect>>
    BY <1>2 DEF CheckLinks, Doing, At
  <2>4. Sound(w, work'[w], Tables)
    BY <1>0, <1>i, <2>1, <2>2, <2>3
       DEF Sound, InHand, SearchWork, LinkWork, RenderWork, NotUndone, LinksInHand
  <2> QED
    BY <2>2, <2>3, <2>4, StillKeeps
<1>3. CASE ReplaceLinks(w)
  <2>0. work[w].phase = "replace"
    BY <1>3 DEF ReplaceLinks, Doing, At
  <2>1. PICK phase \in {"satisfied", "unsatisfied"} :
          /\ Goes(w, phase)
          /\ IF Current(work[w].revision)
             THEN phase = "satisfied" <=> SameHtml(w) ELSE phase = "satisfied"
    BY <1>3 DEF ReplaceLinks, Tells
  <2>2. /\ work'[w].phase = phase /\ work'[w].kind = "links"
        /\ work'[w].revision = work[w].revision
        /\ \A v \in Workers : v # w => work'[v] = work[v]
    BY <1>0, <2>1, Going
  <2>3. /\ u.links = links \/ Current(work[w].revision)
        /\ Current(work[w].revision) => u.links = IF SameHtml(w) THEN work[w].seen ELSE links
    BY <1>3, <1>u DEF ReplaceLinks
  <2>4. Current(work[w].revision) /\ SameHtml(w) => LinksServed(u)
    BY <1>u, <2>3 DEF LinksServed, SameHtml, Proven, ProvenIn, Current
  <2>5. Linked(Tables, u) /\ LinksKept(Tables, u)
    BY <1>0, <2>3, <2>4 DEF Linked, LinksKept, Current
  <2>6. Current(work[w].revision) <=> page.present /\ page.revision = work[w].revision
    BY DEF Current
  <2>7. SearchInv => NotUndone(w, work'[w], u)
    <3> SUFFICES ASSUME SearchInv, phase = "unsatisfied", work[w].revision = page.revision
                 PROVE  ~Live(w, work'[w], u)
      BY <1>u, <2>2 DEF NotUndone
    <3>1. Current(work[w].revision) /\ ~SameHtml(w)
      BY <2>1
    <3>2. ~Held(w, work[w], Tables)
      BY <1>0, <1>i, <2>0, <3>1 DEF LinkWork, SameHtml, Proven, ProvenIn, Current
    <3> QED
      BY <1>0, <1>u, <2>2, <3>2 DEF Live, Held
  <2>8. Sound(w, work'[w], u)
    BY <1>u, <2>1, <2>2, <2>4, <2>6, <2>7
       DEF Sound, InHand, SearchWork, LinkWork, RenderWork, LinksInHand
  <2> QED
    BY <1>u, <1>r, <2>2, <2>5, <2>8, PassingRight DEF Passes
<1> QED
  BY <1>1, <1>2, <1>3

(* A search that needs a render admits it; then it throws. *)
LEMMA DependKeeps ==
  ASSUME IInv, NEW w \in Workers, EnsureRenderDependency(w)
  PROVE  Kept
<1>0. work[w] # Idle /\ Goes(w, "threw")
  BY DEF EnsureRenderDependency, Doing, At
<1>1. work'[w].phase = "threw" /\ \A v \in Workers : v # w => work'[v] = work[v]
  BY <1>0, Going
<1>2. CASE Current(work[w].revision)
  <2> DEFINE v == EnsureRender(Tables)
  <2>1. page.present /\ Commit(v)
    BY <1>2 DEF Current, EnsureRenderDependency
  <2>2. Admits(Tables, v)
    BY <2>1, TablesAreGood, EnsureRenderAdmits
  <2> HIDE DEF v
  <2> QED
    BY <1>1, <2>1, <2>2, AdmissionRight
<1>3. CASE ~Current(work[w].revision)
  <2>1. UNCHANGED <<page, links, vector, effect>>
    BY <1>3 DEF EnsureRenderDependency, Commit, Tables
  <2> QED
    BY <1>1, <2>1, QuietPhase, StillKeeps
<1> QED
  BY <1>2, <1>3

(* The search row is written from the page as it is, by a process that      *)
(* looks at it again and by the refresh after a password change.           *)
LEMMA IndexingPasses ==
  ASSUME IInv, UNCHANGED <<page, links, effect>>, vector' \in {vector, Indexed(page)}
  PROVE  LET u == Tables'
         IN  /\ u.page = page /\ u.links = links /\ u.vector = vector' /\ u.effect = effect
             /\ Passes(Tables, u) /\ \A v \in Workers : Yields(v, Tables, u)
<1> DEFINE u == Tables'
<1>1. u.page = page /\ u.links = links /\ u.vector = vector' /\ u.effect = effect
  BY DEF Tables
<1>2. /\ Tables.page = page /\ Tables.links = links /\ Tables.vector = vector
      /\ Tables.effect = effect
  BY DEF Tables
<1> HIDE DEF u
<1>3. Renders(Tables, u)
  BY <1>1, <1>2 DEF Renders, ProvenIn, RenderSucceeded
<1>4. Searches(Tables, u)
  BY <1>1, <1>2 DEF Searches, Eligible
<1>5. Linked(Tables, u) /\ LinksKept(Tables, u)
  BY <1>1, <1>2 DEF Linked, LinksKept
<1>6. \A k \in Kinds : Succeeded(u, k) => Succeeded(Tables, k)
  BY <1>1, <1>2 DEF Succeeded
<1>7. \A v \in Workers : Yields(v, Tables, u)
  BY <1>1, <1>2 DEF Yields
<1> QED
  BY <1>1, <1>3, <1>4, <1>5, <1>6, <1>7 DEF Passes, u

(* The late refresh keeps the receipts. *)
LEMMA RefreshKeeps ==
  ASSUME IInv, RefreshSearch
  PROVE  Kept
<1> DEFINE u == Tables'
<1>1. u = Tables' /\ Passes(Tables, u) /\ (\A v \in Workers : Yields(v, Tables, u)) /\ work' = work
  BY IndexingPasses DEF RefreshSearch
<1> HIDE DEF u
<1> QED
  BY <1>1, PassingRight

(* What a search wrote is what it then finds, while its lease lives. *)
LEMMA SearchKeeps ==
  ASSUME IInv, NEW w \in Workers, ReconcileSearch(w) \/ CheckSearch(w)
  PROVE  Kept
<1>0. /\ work[w] # Idle /\ work[w].kind = "search" /\ work[w] \in Execution
      /\ Tables.page = page /\ Tables.links = links /\ Tables.vector = vector
      /\ Tables.effect = effect
  BY Executing DEF At, Doing, ReconcileSearch, CheckSearch, Tables
<1>i. SearchInv => SearchWork(w, work[w], Tables)
  BY DEF SearchInv, InHand
<1>1. CASE ReconcileSearch(w)
  <2> DEFINE u == Tables'
  <2>1. /\ Goes(w, "check") /\ work[w].phase = "reconcile" /\ vector' = Indexed(page)
        /\ UNCHANGED <<page, links, effect>> /\ u = Tables'
    BY <1>1 DEF ReconcileSearch, Doing, At
  <2>2. /\ u.page = page /\ u.links = links /\ u.vector = Indexed(page) /\ u.effect = effect
        /\ Passes(Tables, u) /\ \A v \in Workers : Yields(v, Tables, u)
    BY <2>1, IndexingPasses
  <2> HIDE DEF u
  <2>3. /\ work'[w].phase = "check" /\ work'[w].kind = "search"
        /\ work'[w].revision = work[w].revision /\ work'[w].eligible = work[w].eligible
        /\ \A v \in Workers : v # w => work'[v] = work[v]
    BY <1>0, <2>1, Going
  <2>4. SearchInv => SearchWork(w, work'[w], u)
    <3> SUFFICES ASSUME SearchInv, work[w].revision = page.revision, Held(w, work'[w], u)
                 PROVE  SearchWork(w, work'[w], u)
      BY <2>2, <2>3 DEF SearchWork
    <3>1. Held(w, work[w], Tables)
      BY <1>0, <2>2, <2>3 DEF Held
    <3>2. page.present => work[w].eligible = Eligible(page) /\ (Open(page) => ProvenIn(Tables))
      BY <1>0, <1>i, <2>1, <3>1 DEF SearchWork
    <3>3. ProvenIn(u) <=> ProvenIn(Tables)
      BY <1>0, <2>2 DEF ProvenIn
    <3>4. page.present => SearchServed(u)
      BY <2>2, <3>2, <3>3 DEF SearchServed
    <3>5. ~page.present => u.vector = NoVector
      BY <2>2 DEF Indexed
    <3> QED
      BY <2>2, <2>3, <3>2, <3>3, <3>4, <3>5 DEF SearchWork
  <2>5. Sound(w, work'[w], u)
    BY <2>3, <2>4 DEF Sound, InHand, LinkWork, RenderWork, NotUndone, LinksInHand
  <2> QED
    BY <2>1, <2>2, <2>3, <2>5, PassingRight
<1>2. CASE CheckSearch(w)
  <2> DEFINE good == IF Row(w).desired = "absent" THEN page.present \/ vector = NoVector
                     ELSE Current(work[w].revision) =>
                            IF work[w].eligible
                            THEN vector # NoVector /\ vector.revision = work[w].revision
                            ELSE vector = NoVector
  <2>1. PICK phase \in {"satisfied", "unsatisfied"} :
          Goes(w, phase) /\ (phase = "unsatisfied" => ~good)
    BY <1>2 DEF CheckSearch, Tells
  <2>2. /\ work'[w].phase = phase /\ work'[w].kind = "search"
        /\ work'[w].revision = work[w].revision
        /\ \A v \in Workers : v # w => work'[v] = work[v]
    BY <1>0, <2>1, Going
  <2>3. UNCHANGED <<page, links, vector, effect>> /\ work[w].phase = "check"
    BY <1>2 DEF CheckSearch, Doing, At
  <2>4. Held(w, work'[w], Tables) <=> Held(w, work[w], Tables)
    BY <1>0, <2>2 DEF Held
  <2>5. SearchInv => SearchWork(w, work'[w], Tables)
    BY <1>0, <1>i, <2>2, <2>3, <2>4 DEF SearchWork
  <2>6. ASSUME SearchInv, work[w].revision = page.revision, Held(w, work[w], Tables) PROVE good
    <3>1. /\ page.present => work[w].eligible = Eligible(page) /\ vector = Indexed(page)
          /\ ~page.present => vector = NoVector
      BY <1>0, <1>i, <2>3, <2>6 DEF SearchWork, SearchServed
    <3>2. CASE ~page.present
      BY <3>1, <3>2 DEF Current
    <3>3. CASE page.present
      <4>1. Eligible(page) => Indexed(page) # NoVector /\ Indexed(page).revision = page.revision
        <5>1. ASSUME Eligible(page) PROVE /\ Indexed(page) \in [revision : Revisions, body : Html]
                                          /\ Indexed(page).revision = page.revision
          <6> DEFINE body == IF page.protected \/ ~Certified(page) THEN NoRender ELSE page.render
          <6>1. Indexed(page) = [revision |-> page.revision, body |-> body]
            BY <3>3, <5>1 DEF Indexed
          <6>2. page.revision \in Revisions /\ page \in Page
            BY <3>3, TablesAreGood, PresentRevision DEF IInv, Core
          <6>3. body \in Html
            BY <6>2 DEF Page, Html
          <6> HIDE DEF body
          <6> QED
            BY <6>1, <6>2, <6>3
        <5> QED
          BY <5>1, SentinelsAssumption
      <4>2. ~Eligible(page) => Indexed(page) = NoVector
        BY DEF Indexed
      <4> QED
        BY <2>6, <3>1, <3>3, <4>1, <4>2
    <3> QED
      BY <3>2, <3>3
  <2> HIDE DEF good
  <2>7. SearchInv => NotUndone(w, work'[w], Tables)
    BY <1>0, <2>1, <2>2, <2>4, <2>6 DEF NotUndone, Live
  <2>8. Sound(w, work'[w], Tables)
    BY <2>2, <2>5, <2>7 DEF Sound, InHand, LinkWork, RenderWork, LinksInHand
  <2> QED
    BY <2>2, <2>3, <2>8, StillKeeps
<1> QED
  BY <1>1, <1>2

(* A sink that throws has established nothing. *)
LEMMA ThrowKeeps ==
  ASSUME IInv, NEW w \in Workers, SinkThrows(w)
  PROVE  Kept
<1>1. work[w] # Idle /\ Goes(w, "threw") /\ UNCHANGED <<page, links, vector, effect>>
  BY DEF SinkThrows
<1>2. work'[w].phase = "threw" /\ \A v \in Workers : v # w => work'[v] = work[v]
  BY <1>1, Going
<1> QED
  BY <1>1, <1>2, QuietPhase, StillKeeps

(* A receipt is written by the process that holds its row, and says what    *)
(* that process has established.                                           *)
LEMMA FinishKeeps ==
  ASSUME IInv, NEW w \in Workers, FinishClaim(w)
  PROVE  Kept
<1> DEFINE k == work[w].kind
           r == work[w].revision
           e == effect[k][r]
           f == Finished(w)
<1>1. /\ work[w] # Idle /\ work[w] \in Execution /\ k \in Kinds /\ r \in Revisions /\ SoundRow(e)
      /\ Row(w) = e /\ effect \in [Kinds -> [Revisions -> Effect]]
  BY Executing DEF FinishClaim, IInv, Core
<1>2. /\ effect' = [effect EXCEPT ![k][r] = f] /\ UNCHANGED <<page, links, vector>>
      /\ work'[w] = Idle /\ \A v \in Workers : v # w => work'[v] = work[v]
  BY DEF FinishClaim, IInv
<1>3. CASE ~Owned(w)
  <2>1. f = e
    BY <1>1, <1>3 DEF Finished
  <2>2. effect' = effect
    BY <1>1, <1>2, <2>1
  <2> QED
    BY <1>2, <2>2, QuietPhase, StillKeeps
<1>4. CASE Owned(w)
  <2>1. /\ f.status = Outcome(work[w]) /\ f.status # "running" /\ e.status = "running"
        /\ e.token = w /\ (f.status = "succeeded" => work[w].phase = "satisfied")
    <3>1. f = [e EXCEPT !.status = Outcome(work[w]), !.token = NoToken, !.lapsed = FALSE]
      BY <1>1, <1>4 DEF Finished
    <3>2. e \in Effect /\ e.status = "running" /\ e.token = w
      BY <1>1, <1>4 DEF Owned, SoundRow
    <3>3. /\ Outcome(work[w]) \in {"succeeded", "failed", "retry"}
          /\ Outcome(work[w]) = "succeeded" => work[w].phase = "satisfied"
      BY DEF Outcome
    <3> HIDE DEF f, e
    <3>4. f.status = Outcome(work[w])
      BY <3>1, <3>2 DEF Effect
    <3> QED
      BY <3>2, <3>3, <3>4
  <2> DEFINE u == Tables'
  <2>2. /\ u = Tables' /\ u.page = page /\ u.links = links /\ u.vector = vector
        /\ u.effect = effect'
    BY <1>2 DEF Tables
  <2>3. /\ Tables.page = page /\ Tables.links = links /\ Tables.vector = vector
        /\ Tables.effect = effect
    BY DEF Tables
  <2> HIDE DEF u, f
  <2>4. \A j \in Kinds, q \in Revisions :
          u.effect[j][q] = IF j = k /\ q = r THEN f ELSE effect[j][q]
    BY <1>1, <1>2, <2>2
  <2>5. Held(w, work[w], Tables)
    BY <2>1, <2>3 DEF Held
  <2> HIDE DEF k, r, e
  <2>6. e = effect[k][r] /\ k = work[w].kind /\ r = work[w].revision
    BY DEF k, r, e
  <2>7. Renders(Tables, u) /\ Searches(Tables, u) /\ Linked(Tables, u) /\ LinksKept(Tables, u)
    <3>1. \A q \in Revisions :
            effect["render"][q].status = "succeeded" => u.effect["render"][q].status = "succeeded"
      BY <2>1, <2>4, <2>6, Bounds
    <3> QED
      BY <2>2, <3>1, RowsStay
  <2>8. \A v \in Workers : (work'[v] = work[v] /\ Yields(v, Tables, u)) \/ work'[v] = Idle
    <3>1. \A v \in Workers : Yields(v, Tables, u)
      BY <2>1, <2>3, <2>4 DEF Yields
    <3> QED
      BY <1>2, <3>1
  <2>9. page.present => page.revision \in Revisions
    BY TablesAreGood, PresentRevision
  <2>10. ASSUME NEW j \in Kinds, u.page.present, Succeeded(u, j)
         PROVE  \/ Succeeded(Tables, j)
                \/ work[w].kind = j /\ work[w].revision = page.revision /\ work[w].phase = "satisfied"
    BY <2>1, <2>2, <2>3, <2>4, <2>6, <2>9, <2>10 DEF Succeeded
  <2>11. ASSUME SearchInv PROVE SearchInv'
    <3>1. u.page.present /\ Succeeded(u, "search") => SearchServed(Tables)
      <4> SUFFICES ASSUME u.page.present, Succeeded(u, "search") PROVE SearchServed(Tables)
        OBVIOUS
      <4>1. CASE Succeeded(Tables, "search")
        BY <2>2, <2>3, <2>11, <4>1 DEF SearchInv, SearchTrue
      <4>2. CASE ~Succeeded(Tables, "search")
        <5>1. /\ work[w].kind = "search" /\ work[w].revision = page.revision
              /\ work[w].phase = "satisfied"
          BY <2>10, <4>2 DEF Succeeded
        <5>2. SearchWork(w, work[w], Tables)
          BY <2>11 DEF SearchInv, InHand
        <5> QED
          BY <1>1, <2>2, <2>3, <2>5, <5>1, <5>2 DEF SearchWork
      <4> QED
        BY <4>1, <4>2
    <3>2. \A v \in Workers : \/ work'[v] = work[v] /\ Yields(v, Tables, u)
                             \/ InHand(v, work'[v], u)
      BY <2>8, <2>11, QuietPhase DEF Sound
    <3> QED
      BY <2>2, <2>7, <2>11, <3>1, <3>2, SearchFrame
  <2>12. ASSUME LinksInv PROVE LinksInv'
    <3>1. u.page.present /\ Succeeded(u, "links") => LinksServed(Tables)
      <4> SUFFICES ASSUME u.page.present, Succeeded(u, "links") PROVE LinksServed(Tables)
        OBVIOUS
      <4>1. CASE Succeeded(Tables, "links")
        BY <2>2, <2>3, <2>12, <4>1 DEF LinksInv, LinksTrue
      <4>2. CASE ~Succeeded(Tables, "links")
        <5>1. /\ work[w].kind = "links" /\ work[w].revision = page.revision
              /\ work[w].phase = "satisfied"
          BY <2>10, <4>2 DEF Succeeded
        <5>2. LinksInHand(w, work[w], Tables)
          BY <2>12 DEF LinksInv
        <5> QED
          BY <1>1, <2>2, <2>3, <2>5, <5>1, <5>2 DEF LinksInHand
      <4> QED
        BY <4>1, <4>2
    <3>2. \A v \in Workers : \/ work'[v] = work[v] /\ Yields(v, Tables, u)
                             \/ LinksInHand(v, work'[v], u)
      BY <2>8, <2>12, QuietPhase DEF Sound
    <3> QED
      BY <2>2, <2>7, <2>12, <3>1, <3>2, LinksFrame
  <2> QED
    BY <2>11, <2>12 DEF Kept
<1> QED
  BY <1>3, <1>4

---------------------------------------------------------------------------
(* Mutations. *)

(* The page moves on: no receipt of its new revision stands, and nothing in *)
(* hand is of that revision.                                               *)
LEMMA MutatedKeeps ==
  ASSUME IInv, NEW p, p.revision = page.revision + 1, p.revision \in Revisions,
         NEW desired, Mutated(p, desired)
  PROVE  /\ SearchInv'
         /\ LinksInv /\ (page.present \/ ~p.present \/ page.revision = 0) => LinksInv'
<1> DEFINE u == Tables'
           fresh == Waiting("pending", desired)
<1>1. u.page = p /\ u.effect = effect' /\ u = Tables' /\ work' = work /\ Tables.page = page
  BY DEF Tables, Mutated
<1>2. fresh.status = "pending"
  BY DEF Waiting
<1>3. effect' = [j \in Kinds |-> [effect[j] EXCEPT ![p.revision] = fresh]]
  BY DEF Mutated
<1> HIDE DEF u, fresh
<1>4. effect \in [Kinds -> [Revisions -> Effect]] /\ page.revision \in Nat
  BY BoundsAssumption DEF IInv, Core, Page
<1>5. \A k \in Kinds : effect'[k][p.revision] = fresh
  BY <1>3, <1>4
<1>6. \A k : ~Succeeded(u, k)
  BY <1>1, <1>2, <1>5 DEF Succeeded
<1>7. ASSUME NEW w \in Workers, work[w] # Idle
      PROVE  work[w].revision # u.page.revision /\ page.revision # 0
  <2>1. work[w].revision \in Nat /\ work[w].revision # 0 /\ work[w].revision <= page.revision
    BY <1>7, Executing, Bounds DEF WorkSound
  <2> QED
    BY <1>1, <1>4, <2>1
<1>8. SearchTrue(u) /\ LinksTrue(u)
  BY <1>6 DEF SearchTrue, LinksTrue
<1>9. \A w \in Workers : InHand(w, work'[w], u)
  BY <1>1, <1>7 DEF InHand, SearchWork, LinkWork, RenderWork, NotUndone
<1>10. SearchInv'
  BY <1>1, <1>8, <1>9 DEF SearchInv
<1>11. ASSUME LinksInv, page.present \/ ~p.present \/ page.revision = 0 PROVE LinksInv'
  <2>1. ASSUME NEW w \in Workers PROVE LinksInHand(w, work'[w], u)
    <3>1. LinksInHand(w, work[w], Tables)
      BY <1>11 DEF LinksInv
    <3> QED
      BY <1>1, <1>7, <1>11, <3>1 DEF LinksInHand
  <2> QED
    BY <1>1, <1>8, <2>1 DEF LinksInv
<1> QED
  BY <1>10, <1>11

(* Only a restoration can let somebody remove the links of a page that is   *)
(* there.                                                                  *)
LEMMA RevisionsKeep ==
  ASSUME IInv,
         CreatePage \/ SaveCanonicalPageRevision \/ DeletePage \/ RestoreDeletedPage
  PROVE  SearchInv' /\ (~RestoreDeletedPage /\ LinksInv => LinksInv')
<1>1. /\ page \in Page /\ page.revision \in Nat /\ MaxRevision \in Nat
      /\ page.present => page.revision \in Revisions
  BY BoundsAssumption, TablesAreGood, PresentRevision DEF IInv, Core, Page
<1>2. \E p, desired : /\ Mutated(p, desired) /\ p.revision = page.revision + 1
                      /\ p.revision \in Revisions
                      /\ ~RestoreDeletedPage /\ ~page.present => ~p.present \/ page.revision = 0
  <2>1. CASE CreatePage
    <3>1. PICK listed \in Listings, window \in Windows :
            Mutated([NoPage EXCEPT !.present = TRUE, !.revision = 1,
                                   !.listed = listed, !.window = window], "present")
      BY <2>1 DEF CreatePage
    <3> DEFINE p == [NoPage EXCEPT !.present = TRUE, !.revision = 1,
                                   !.listed = listed, !.window = window]
    <3>2. page.revision = 0 /\ p.revision = 1 /\ Mutated(p, "present")
      BY <2>1, <3>1 DEF CreatePage, NoPage
    <3> HIDE DEF p
    <3>3. p.revision = page.revision + 1 /\ p.revision \in Revisions
      BY <3>2, BoundsAssumption DEF Revisions
    <3> QED
      BY <3>2, <3>3
  <2>2. CASE SaveCanonicalPageRevision
    <3>1. PICK listed \in Listings, window \in Windows :
            Mutated([page EXCEPT !.revision = @ + 1, !.certified = 0,
                                 !.listed = listed, !.window = window], "present")
      BY <2>2 DEF SaveCanonicalPageRevision
    <3> DEFINE p == [page EXCEPT !.revision = @ + 1, !.certified = 0,
                                 !.listed = listed, !.window = window]
    <3>2. p.revision = page.revision + 1 /\ Mutated(p, "present")
      BY <1>1, <3>1 DEF Page
    <3>3. page.present /\ page.revision < MaxRevision
      BY <2>2 DEF SaveCanonicalPageRevision
    <3> HIDE DEF p
    <3>4. p.revision \in Revisions
      BY <1>1, <3>2, <3>3 DEF Revisions
    <3> QED
      BY <3>2, <3>3, <3>4
  <2>3. CASE DeletePage
    <3> DEFINE p == [page EXCEPT !.revision = @ + 1, !.present = FALSE, !.certified = 0,
                                 !.render = NoRender]
    <3>1. p.revision = page.revision + 1 /\ ~p.present /\ Mutated(p, "absent")
      BY <1>1, <2>3 DEF Page, DeletePage
    <3>2. page.revision < MaxRevision
      BY <2>3 DEF DeletePage
    <3> HIDE DEF p
    <3>3. p.revision \in Revisions
      BY <1>1, <3>1, <3>2 DEF Revisions
    <3> QED
      BY <3>1, <3>3
  <2>4. CASE RestoreDeletedPage
    <3> DEFINE p == [page EXCEPT !.revision = @ + 1, !.present = TRUE, !.listed = FALSE]
    <3>1. p.revision = page.revision + 1 /\ Mutated(p, "present")
      BY <1>1, <2>4 DEF Page, RestoreDeletedPage
    <3>2. page.revision \in 1..(MaxRevision - 1)
      BY <2>4 DEF RestoreDeletedPage
    <3> HIDE DEF p
    <3>3. p.revision \in Revisions
      BY <1>1, <3>1, <3>2 DEF Revisions
    <3> QED
      BY <2>4, <3>1, <3>3
  <2> QED
    BY <2>1, <2>2, <2>3, <2>4
<1>3. PICK p, desired : /\ Mutated(p, desired) /\ p.revision = page.revision + 1
                        /\ p.revision \in Revisions
                        /\ ~RestoreDeletedPage /\ ~page.present => ~p.present \/ page.revision = 0
  BY <1>2
<1> QED
  BY <1>3, MutatedKeeps

(* The window moves with no word to anybody: links do not depend on it.    *)
LEMMA WindowKeepsLinks ==
  ASSUME IInv, LinksInv, WindowMoves
  PROVE  LinksInv'
<1> DEFINE u == Tables'
           p == [page EXCEPT !.window = IF @ = "before" THEN "open" ELSE "after"]
<1>1. /\ u = Tables' /\ u.page = p /\ u.links = links /\ u.effect = effect /\ work' = work
      /\ Tables.page = page /\ Tables.links = links /\ Tables.effect = effect
  BY DEF Tables, WindowMoves
<1>2. page \in Page
  BY DEF IInv, Core
<1>3. /\ p.revision = page.revision /\ p.present = page.present
      /\ p.certified = page.certified /\ p.render = page.render
  BY <1>2 DEF Page
<1> HIDE DEF u, p
<1>4. Renders(Tables, u)
  BY <1>1, <1>3 DEF Renders, ProvenIn, RenderSucceeded, Certified
<1>5. LinksKept(Tables, u)
  BY <1>1 DEF LinksKept
<1>6. \A w \in Workers : Yields(w, Tables, u)
  BY <1>1 DEF Yields
<1>7. u.page.present /\ Succeeded(u, "links") => LinksServed(Tables)
  BY <1>1, <1>3 DEF LinksInv, LinksTrue, Succeeded
<1> QED
  BY <1>1, <1>4, <1>5, <1>6, <1>7, LinksFrame

---------------------------------------------------------------------------
(* Every step that is not a revision, nor a move of the window, keeps both. *)
LEMMA OthersKeep ==
  ASSUME IInv, [Next]_vars,
         ~(CreatePage \/ SaveCanonicalPageRevision \/ DeletePage \/ RestoreDeletedPage),
         ~WindowMoves
  PROVE  Kept
<1>1. CASE Mutation
  <2>1. CASE ContextChanges
    <3>1. UNCHANGED <<page, links, vector, effect>> /\ work' = work
      BY <2>1 DEF ContextChanges
    <3> DEFINE u == Tables'
    <3>2. u = Tables' /\ u = Tables /\ Passes(Tables, u) /\ \A v \in Workers : Yields(v, Tables, u)
      BY <3>1, StillPasses
    <3> HIDE DEF u
    <3> QED
      BY <3>1, <3>2, PassingRight
  <2> QED
    BY <1>1, <2>1, AdmissionsKeep, ProtectionKeeps DEF Mutation
<1>2. CASE Fault
  <2>1. ASSUME NEW w \in Workers, Crash(w) PROVE Kept
    BY <2>1, DropKeeps DEF Crash
  <2>2. ASSUME NEW w \in Workers, SinkThrows(w) PROVE Kept
    BY <2>2, ThrowKeeps
  <2> QED
    BY <1>2, <2>1, <2>2, LeasesKeep DEF Fault
<1>3. CASE Maintenance
  BY <1>3, AdmissionsKeep, LeasesKeep DEF Maintenance
<1>4. CASE RefreshSearch
  BY <1>4, RefreshKeeps
<1>5. ASSUME NEW w \in Workers, Claims(w) PROVE Kept
  BY <1>5, ClaimKeeps DEF Claims
<1>6. ASSUME NEW w \in Workers, Executes(w) PROVE Kept
  BY <1>6, ReadingKeeps, RenderKeeps, LinksKeep, DependKeeps, SearchKeeps, FinishKeeps DEF Executes
<1>7. CASE ReleaseExpired \/ LostLeaseLapses
  BY <1>7, LeasesKeep DEF LostLeaseLapses
<1>8. CASE UNCHANGED vars
  <2>1. UNCHANGED <<page, links, vector, effect>> /\ work' = work
    BY <1>8 DEF vars
  <2> DEFINE u == Tables'
  <2>2. u = Tables' /\ u = Tables /\ Passes(Tables, u) /\ \A v \in Workers : Yields(v, Tables, u)
    BY <2>1, StillPasses
  <2> HIDE DEF u
  <2> QED
    BY <2>1, <2>2, PassingRight
<1> QED
  BY <1>1, <1>2, <1>3, <1>4, <1>5, <1>6, <1>7, <1>8 DEF Next

(* Nobody is at work at first, and a legacy page has no receipt. *)
LEMMA InitReceipts == Init => SearchInv /\ LinksInv
<1> SUFFICES ASSUME Init PROVE SearchInv /\ LinksInv
  OBVIOUS
<1>1. Tables.page = page /\ Tables.effect = effect
  BY DEF Tables
<1>2. page.present => page.revision = 1
  <2>1. page \in {NoPage, LegacyPage} /\ ~NoPage.present /\ LegacyPage.revision = 1
    BY DEF Init, NoPage, LegacyPage
  <2> QED
    BY <2>1
<1>3. 1 \in Revisions /\ NoEffect.status = "none"
  BY BoundsAssumption DEF Revisions, NoEffect, Waiting
<1>4. \A k : page.present => ~Succeeded(Tables, k)
  BY <1>1, <1>2, <1>3 DEF Init, Succeeded
<1>5. \A w \in Workers : work[w] = Idle
  BY DEF Init
<1> QED
  BY <1>1, <1>4, <1>5
     DEF SearchInv, LinksInv, SearchTrue, LinksTrue, InHand, SearchWork, LinkWork, RenderWork,
         NotUndone, LinksInHand

(* With no publication window, what search has in hand and its receipt stay *)
(* true in every step.                                                     *)
LEMMA SearchStep ==
  ASSUME ~Windowed, IInv, SearchInv, [Next]_vars
  PROVE  SearchInv'
  BY RevisionsKeep, OthersKeep DEF Kept, WindowMoves

(* With no restoration, so do those of links. *)
LEMMA LinksStep ==
  ASSUME IInv, LinksInv, [Next]_vars, [~RestoreDeletedPage]_vars
  PROVE  LinksInv'
<1>1. CASE CreatePage \/ SaveCanonicalPageRevision \/ DeletePage \/ RestoreDeletedPage
  <2>1. CASE ~RestoreDeletedPage
    BY <1>1, <2>1, RevisionsKeep
  <2>2. CASE UNCHANGED vars
    <3>1. Tables' = Tables /\ work' = work
      BY <2>2 DEF vars, Tables
    <3> QED
      BY <3>1 DEF LinksInv
  <2> QED
    BY <2>1, <2>2
<1> QED
  BY <1>1, WindowKeepsLinks, OthersKeep DEF Kept

(* The invariant of search gives the properties that the runs check.       *)
LEMMA SearchImplied == SearchInv => SearchReceiptIsTrue /\ NoRaceFailsAReceipt
<1> SUFFICES ASSUME SearchInv PROVE SearchReceiptIsTrue /\ NoRaceFailsAReceipt
  OBVIOUS
<1>1. Tables.page = page /\ Tables.vector = vector /\ Tables.effect = effect
  BY DEF Tables
<1>2. SearchReceiptIsTrue
  BY <1>1 DEF SearchInv, SearchTrue, Succeeded, SearchServed, Open, ProvenIn, SearchReceiptIsTrue
<1>3. NoRaceFailsAReceipt
  BY <1>1
     DEF SearchInv, InHand, NotUndone, Live, Held, NoRaceFailsAReceipt, At, Alive, Owned, Row
<1> QED
  BY <1>2, <1>3

(* So does that of links. *)
LEMMA LinksImplied == LinksInv => LinksReceiptIsTrue
  BY DEF LinksInv, LinksTrue, Succeeded, LinksServed, ProvenIn, Tables, LinksReceiptIsTrue

(* Where no page has a publication window, a search receipt of the current  *)
(* revision says what the index holds of the page: whatever admissions,    *)
(* password changes, late refreshes and other processes come between the   *)
(* reads and writes of page-mutation-outbox.ts's search sink, none leaves  *)
(* it succeeded over a row that is not the page's.  (With a window it is   *)
(* false: the window opens with no word to the outbox.)                    *)
THEOREM SearchReceiptsAreTrue == ~Windowed => (Spec => []SearchReceiptIsTrue)
<1> SUFFICES ASSUME ~Windowed PROVE Spec => []SearchReceiptIsTrue
  OBVIOUS
<1>1. Init => SearchInv
  BY InitReceipts
<1>2. IInv /\ SearchInv /\ [Next]_vars => SearchInv'
  BY SearchStep
<1>3. SearchInv => SearchReceiptIsTrue
  BY SearchImplied
<1> QED
  BY <1>1, <1>2, <1>3, Invariant, PTL DEF Spec

(* Nor does one of them undo the work of a process that still has its       *)
(* lease: no sink of the current revision finds its own write gone.        *)
THEOREM NoReceiptIsFailedByARace == ~Windowed => (Spec => []NoRaceFailsAReceipt)
<1> SUFFICES ASSUME ~Windowed PROVE Spec => []NoRaceFailsAReceipt
  OBVIOUS
<1>1. Init => SearchInv
  BY InitReceipts
<1>2. IInv /\ SearchInv /\ [Next]_vars => SearchInv'
  BY SearchStep
<1>3. SearchInv => NoRaceFailsAReceipt
  BY SearchImplied
<1> QED
  BY <1>1, <1>2, <1>3, Invariant, PTL DEF Spec

(* As long as no deleted page is restored, a links receipt of the current   *)
(* revision is true: the rows are those of the certified HTML.  (After a   *)
(* restoration an absent effect that is late still removes the links of    *)
(* the page: it neither locks the page nor looks at it again.)             *)
THEOREM LinksReceiptsAreTrue == Spec /\ [][~RestoreDeletedPage]_vars => []LinksReceiptIsTrue
<1>1. Init => LinksInv
  BY InitReceipts
<1>2. IInv /\ LinksInv /\ [Next]_vars /\ [~RestoreDeletedPage]_vars => LinksInv'
  BY LinksStep
<1>3. LinksInv => LinksReceiptIsTrue
  BY LinksImplied
<1> QED
  BY <1>1, <1>2, <1>3, Invariant, PTL DEF Spec
=============================================================================
