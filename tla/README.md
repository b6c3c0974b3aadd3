# tsEpistle: TLA+ specifications, model checks and proofs

tsEpistle is a wiki: a TypeScript server over PostgreSQL, a Vue client, forked
worker processes, and agents that propose and make changes. This directory
holds specifications of its concurrent core, the TLC configurations that check
them on small instances, and theorems about them that TLAPS checks for every
value of the constants. Paths are relative to `src/`.

| module | what it is |
|---|---|
| `JobQueue` | what the durable job queue promises, with no clocks, retries or statements |
| `DurableJobs` | the durable job table and the processes working on it, one step per SQL statement; refines `JobQueue` |
| `DurableJobsProofs` | type correctness, the inductive invariant and the safety properties of `DurableJobs`, proved |
| `DurableJobsRefinement` | the proof that `DurableJobs` implements `JobQueue` |
| `MCDurableJobs`, `MCDurableRaces`, `MCDurableLive`, `DurableJobs_*.cfg` | instances of `DurableJobs` for TLC |
| `PageProjection` | one page, its rendered HTML, links and search row, and the outbox of effects that keeps them current |
| `PageProjectionProofs` | type correctness, the inductive invariant and two properties of `PageProjection`, proved |
| `PageReceiptsProofs` | that the receipts of `PageProjection` are true and that no race fails one, proved |
| `MCPageProjection`, `MCProjectionScenes`, `MCProjectionConverges`, `PageProjection_*.cfg` | instances of `PageProjection` for TLC |
| `AgentRuns` | the runs of the agent: claims, leases, side effects, approvals, quota reservations, maintenance |
| `AgentRunsProofs` | type correctness, the inductive invariant and three properties of `AgentRuns`, proved |
| `MCAgentRuns`, `AgentRuns*.cfg` | instances of `AgentRuns` for TLC |
| `ApprovedChange` | what an agent proposal promises whoever approves it, with no calls, pages or ledger |
| `ProposalExecution` | one agent proposal from its decision to its recorded outcome, under repeated and dying calls; refines `ApprovedChange` |
| `ProposalExecutionProofs` | type correctness, the inductive invariant and the safety properties of `ProposalExecution`, and that it implements `ApprovedChange`, proved |
| `MCProposalExecution`, `ProposalExecution*.cfg` | its instances for TLC |
| `Scheduler` | timed jobs of one process, two forked children at most, and the shutdown that waits for them |
| `SchedulerProofs` | type correctness, the inductive invariant and four properties of `Scheduler`, proved |
| `MCScheduler`, `Scheduler.cfg` | its instance for TLC |

`PROJECT.json` lists the runs, the mutant that each checked property catches,
the source lines of every definition, the hazards and the theorems.

    tlc -workers 2 -config DurableJobs_races.cfg MCDurableRaces
    tlc -workers 2 -config PageProjection_scenes.cfg MCProjectionScenes
    tlc -workers 2 -config AgentRuns.cfg MCAgentRuns
    tlapm DurableJobsProofs.tla
    tlapm DurableJobsRefinement.tla
    tlapm ProposalExecutionProofs.tla
    tlapm AgentRunsProofs.tla
    tlapm PageProjectionProofs.tla
    tlapm PageReceiptsProofs.tla
    tlapm SchedulerProofs.tla

## 1. Inventory of the system

Everything durable is in PostgreSQL. Several server processes may run over one
database, so what makes the system correct is mostly what its SQL statements
fence: row locks, advisory locks, lease tokens, revisions and deduplication
keys. A component marked * has a model.

### Background work

**Durable job queue*** (`server/core/durable-jobs.ts`, `server/jobs/durable-jobs.ts`,
`server/jobs/durable-job-handlers.ts`). *State*: rows of `durableJobs` with a
state, an attempt count, a due time, a lease token and its expiry; in a process,
the claimed jobs with their heartbeats. *Operations*: enqueue under a
deduplication key, claim a batch, extend a lease, complete, fail, defer, retry,
cancel, clean up. *Interacts*: webhooks, notifications, storage mirrors, site
logo, asset relocation and approvals enqueue rows, their handlers run under a
lease. *Hard*: a claim call is several statements under one clock reading, other
processes and operators act between them, leases lapse while a handler still
runs, answers are lost. *Correct if* only the lease holder's report counts, a
live lease is respected, a job fails only with its attempts used, a storage
mutation is never given up, and every job comes to an end.

**Page projections and their outbox*** (`server/core/page-mutation-outbox.ts`,
`server/jobs/render-page.ts`). *State*: `pageMutationOutbox`, one effect per
page, source revision and projection, with a status, a lease token and
attempts; `pages.render` and the revision it is certified for; `pageLinks`;
`pagesVector`. *Operations*: admit (at a mutation, a rerender, a repair), claim,
execute a sink (render, links, search), finish with a receipt, audit, activate
scheduled publications. *Interacts*: pages and page protection admit effects in
their transactions, search reads the index, readers the HTML. *Hard*: a sink
reads, works and writes in separate transactions, while mutations, readmissions
and other workers act; a rerender must fence running dependents; a lease may
lapse in a sink. *Correct if* certified HTML is of the current source, a
succeeded receipt is true of the rows it is about, a protected body is never
indexed, and the projections catch up once mutations end.

**Event outbox and webhooks** (`server/core/outbox.ts`, `server/core/webhooks.ts`).
*State*: `outboxEvents`, `webhookDeliveries`. *Operations*: write an event in
the transaction of its cause; publish the oldest unpublished event in a
transaction that skips locked rows and enqueues one delivery per hook; deliver,
retry, cancel. *Hard*: two publishers, an event whose payload cannot be read
that stays the oldest, a delivery answered after its lease lapsed. *Correct if*
each enabled hook gets each event's delivery row exactly once, and no event
waits behind another forever.

**Scheduler and forked workers*** (`server/core/scheduler.ts`,
`server/core/worker.ts`). *State*: jobs with their timers, at most two forked
children, a queue of admitted workers, stop promises. *Operations*: start,
invoke, admit, release, stop with SIGTERM then SIGKILL. *Hard*: a stop that
races the exit of a child, a repeated job that must not overlap itself, a
shutdown that waits for a child whose end is not confirmed. *Correct if* no more
than two children live, one job never runs twice at once, and a stop ends.

**Storage mirrors*** (in part; `server/jobs/storage-mutations.ts`,
`server/models/storage.ts`). *State*: retained durable jobs, per-target order,
the target (git and others). *Operations*: enqueue with the committed write,
apply, defer on any error of the application, contend for a per-target lock; a
payload that cannot be read is an error like any other. *Correct if* no
committed write is lost to a target and writes to one path arrive in order.

### Content

**Pages*** (as far as the page row and its effects go; `server/models/pages.ts`,
`server/operations/pages.ts`). *State*: `pages` with a source revision, a
publication window, tags, history, the tree. *Operations*: create, update, move,
convert, delete, restore; all take the page lock and enqueue an effect of every
kind. *Correct if* no two saves share a revision and a deleted page comes back
under a revision of its own.

**Page protection*** (`server/operations/page-protection.ts`). *State*: password
rows. *Operations*: set, remove, unlock. Setting one withdraws the indexed body
in the same transaction and refreshes the index afterwards.

**Search index*** (one page's row; `server/modules/search/postgres/engine.ts`).
*State*: `pagesVector`. *Operations*: reconcile a page, rebuild under an
exclusive lock, query.

**Live notes** (`server/operations/live-notes.ts`,
`server/core/live-note-collaboration.ts`). *State*: notes with revisions, access,
connection leases, published pages. *Hard*: updates of concurrent editors merged
and saved under a revision check, a note swept while it is opened.

**Collaborative editing** (`server/core/collaboration.ts`,
`server/core/collaboration-store.ts`). *State*: rooms with a generation, a merged
document and admitted connections. *Hard*: a page saved outside the room, a
draft discarded while an update of the old generation is on its way.

**Approvals, taxonomy, page integrity** (`server/operations/approvals.ts`,
`taxonomy.ts`, `page-integrity.ts`). Requests decided against the page revision
they were made for; tags applied to many pages with a new revision each.

**Knowledge lifecycle** (`server/knowledge/lifecycle.ts`). The fourth kind of
page effect, with a worker of its own, an enricher that may answer late, and a
search contract.

**Assets and their relocation, site logo** (`server/models/assets.ts`,
`server/jobs/asset-relocation.ts`, `server/jobs/site-logo-process.ts`). *State*:
asset rows, relocation effects with a step, uploaded and processed artefacts.
*Hard*: a move in steps resumed after a crash, a job exhausted while its handler
still writes.

**Watching and notifications** (`server/operations/page-watching.ts`,
`server/jobs/notification-audience.ts`). Fan-out in batches that re-enqueue
themselves with a cursor, aggregated under a future due time.

**Comments and discussions, rendering and extensions, localisation, navigation,
theming, mail, site settings** (`server/operations/*.ts`). One transaction per
operation.

### Agents

**Agent runs*** (`server/agents/coordinator.ts`). *State*: runs with a status, a
lease, an event sequence and a cancellation request; limits counted from live
leases, globally and per owner. *Operations*: claim under an advisory lock,
heartbeat, mark side effects started, finish, request cancellation, recover.
*Hard*: the clock is read before the lock is waited for, candidates are not row
locked, a heartbeat does not look at the expiry and ends for good with one failed
renewal while its handler goes on, a mark of side effects asks for no lease, a
cancellation of a live run is only recorded. *Correct if* a run's side effects
are not repeated unknowingly, the limits hold, and a cancelled run ends.

**Proposals*** (`server/agents/proposals/`). *State*: decisions with a status.
*Operations*: claim a decision (approved, applying), make the change in another
transaction, record the result, recover after a crash between them, expire and
cancel. *Hard*: an answer lost after its commit, two calls that apply one
proposal, a session deleted under a claim. *Correct if*
each approved change is made at most once and ends applied, failed or in the
hands of a person.

**Runtime, tasks, goals, memory, media, maintenance** (`server/agents/*.ts`).
Conversations with providers, schedules that start runs, quotas, retention.

**MCP gateway** (`server/agents/mcp.ts`, `mcp-limiter.ts`). A per-owner window of
requests in a bounded table; the protocol.

**Wiki patches** (`server/agents/patch/wiki-line-patch.ts`). A pure algorithm
that applies line patches.

### Shell

**Users, groups, authentication; HTTP and GraphQL; kernel, servers, database and
migrations; web client** - authorisation, parsing, start-up and user interface
around the operations above. **Offline client** (`client/helpers/offline-*.ts`):
snapshots, drafts and sessions across tabs and reconnections.

### How they interact

    mutation (page, protection, approval, taxonomy, agent proposal)
       | one transaction
       +--> pages row, history, tags        read by HTTP and GraphQL
       +--> pageMutationOutbox effects ---> PageProjectionLifecycle ---> render, pageLinks, pagesVector
       +--> outboxEvents -----------------> publishOutboxEvents ---> durableJobs (deliveries, audiences)
       +--> durableJobs (storage, site logo, relocation) ---> handlers under a lease
    scheduler ---> publication of events, job batches, projection ticks, maintenance
    agents ---> proposals ---> mutations

The two leased tables, `durableJobs` and `pageMutationOutbox`, carry every effect
that outlives its request; they differ in how they lease, fence and retry. They
are what is modelled first.

## 2. Plan

1. `JobQueue`, `DurableJobs`, their refinement and proofs. **Done.**
2. `PageProjection`: the outbox with its three sinks. **Modelled, checked and
   proved**, liveness excepted.
3. `AgentRuns`: claims, heartbeats, side-effect marks, approvals, cancellation,
   quota settlement and maintenance. **Modelled, checked and proved**, liveness
   excepted.
4. `ProposalExecution`: decide, claim, apply, record, reconcile, recover.
   **Modelled, checked and proved**, with its refinement of `ApprovedChange`; liveness
   excepted.
5. `Scheduler`: admission, repetition, stop, escalation. **Modelled, checked and
   proved**, liveness excepted.
6. `EventOutbox` over `JobQueue`: publication and webhook delivery rows.
7. `StorageMutation` over `DurableJobs`: the order per target.
8. `LiveNotes`, `Collaboration`, `AssetRelocation`, `SiteLogo`, `Approvals`,
   `LinkedPages` (several pages that link to each other), the knowledge kind.
9. Pure algorithms: the wiki line patch against a reference definition, the MCP
   limiter's windows, the offline client's merge of snapshots.

Runs are kept few: one per question. Where two instances ask the same questions
of disjoint parts of the state they are *scenes* of one run: a variable of the
MC module, chosen in the initial state and never changed, says which part of the
next-state relation the behaviour uses.

## 3. DurableJobs and JobQueue

### Correspondence

`row[j]` is the stored row of job j. Dates are kept as distances from the
present; `Tick` moves them. A row's date in the past is kept down to
`-MaxStale`, as far back as the clock of any claim call can lag, beyond which no
comparison in the code tells two dates apart. `exec[t]` is a claimed job that a
process holds under lease token t: `runDurableJobBatch`'s closure with its
`attempts`, `contentionAttempts` (`before`) and `authoritative` flag, and `since`,
how old a clock can be that it read for its next statement. `batch[w]`
is the claim call that process w is in: its statement, the age of the clock it
read, the room it has left and the candidates it has read. `found` is history.

| action | code (`server/core/durable-jobs.ts`) |
|---|---|
| `Enqueue` | `enqueue`: insert, or return the row with the same key |
| `BeginClaim`, `SweepExhausted`, `SelectCandidates`, `TakeCandidate`, `EndClaim` | `claim`: the clock is read, lapsed and exhausted rows are failed, candidates are selected, each is updated under its fence |
| `AbortClaim` | a statement of `claim` throws; rows it took stay leased and run nowhere |
| `ExtendLease` | the heartbeat: `extendLease`, its answer, and what the batch concludes from a lost one |
| `Finish` | the handler ends, `complete` or `fail` under the fence of `applyClaimOwnership` |
| `Abandon` | an execution that writes nothing: its lease was lost, its process is gone, its last statement threw |
| `Cancel`, `Retry`, `CleanupDurableJobs` | the operations of the same name |
| `Tick` | time |

A crash of a process is `Abandon` of each of its executions, in any order, and
`AbortClaim`: a crash is thereby interleaved with everything else, which adds
behaviours and removes none. `TakeCandidate` is one step for the `UPDATE` and
the read of the row it returns, because the token just written keeps everybody
else but operators away from it, and an operator's cancellation after the update
has the same effect as one after the read. Several batches of one process may
overlap: when one job's promise rejects the batch's `Promise.all` returns and the
others run on, which `EndClaim` without a wait for executions allows.

*Retained* jobs are `storage-mutation` rows of protocol 1 or 2: not swept, not
cancelled, claimed with their attempts used up, their ownership ends with the
lease, and contention gives the attempt back. Their handler
(`server/jobs/storage-mutations.ts` 296-382) reads its payload (297-302) before the
`try` (304) that turns every further error into a deferral. So a retained job
whose payload this build rejects (`Malformed`) ends in an ordinary error and is
`failed` when its attempts are used up; any other has no error outcome (`Outcomes`).

*Clocks.* A claim call reads its clock once for all its statements
(`batch[w].age`). `extendLease`, `complete` and `fail` read theirs before they send
the `UPDATE` that compares it with the lease of a storage job (262, 277, 300), so
a report is judged, and dated, by a clock of some age up to `since` (`Owns`,
`Report`): a lease that lapsed while the statement was on its way still counts.
`MaxStale` bounds both delays.

*Abstracted*: payloads (but whether the handler accepts one), error texts, the retry jitter
(`RetryDelay` is any function to positive ticks), the owner column (the token
decides), priorities among equal due times (any order). Lease tokens are random
UUIDs; here any token that neither a row nor an execution still holds, so a
token is never confused with an older one, as a UUID is not.

*JobQueue* is what the users of the table rely on: a job is submitted, granted to
a holder, even while another works on it; only the latest holder's report
counts; a protected job is never withdrawn, and failed only if no holder can read
it (`Unreadable`); a settled job is discarded
or, if it failed, armed again. The mapping (`Queue`) shows `state`, `leaseToken`
and the job of each execution, and hides attempts, dates, claim calls, heartbeats
and the authority an execution believes it has.

### Properties

| property | hazard |
|---|---|
| `TypeOK` | attempts exceed their maximum through saturation, refunds and concurrent claims |
| `LeaseAgreement` | a row leased without running, a token on two rows, an execution whose remembered attempts disagree with the row, which decide whether its failure is final |
| `ContentionRefundIsExact` | the refund computed from a candidate that was stale when taken |
| `RetainedSurvives` | a committed write's mirror cancelled, or failed though its handler can read it |
| `NoEarlyFailure` | a failure final by a stale count or a sweep with an old clock |
| `OnlyTheHolderReports` | a superseded, cancelled or swept execution changes a row |
| `LeaseIsRespected` | a live lease taken by a claim whose clock lags |
| `LapsedRetainedLeaseIsDead` | a heartbeat or report moves a row whose lease ran out before its clock was read |
| `OrdinaryJobsSettle` | a job stays pending or running forever, by faults or behind a storage job |
| `StorageJobsSucceed` | a storage job is starved once its attempts are used up |
| `KeepsPromise` | any of these, seen from outside |

### Runs

| run | instance | states | shows |
|---|---|---|---|
| `durable_races` | 2 processes, 3 tokens, 2 attempts, clocks lag 1, leases of 1; three scenes: one ordinary job, one storage job, or one storage job that cannot be read | 914,719 | `TypeOK`, `LeaseAgreement`, `NoEarlyFailure`, `OnlyTheHolderReports`, `LeaseIsRespected`, `ContentionRefundIsExact`, `RetainedSurvives`, `LapsedRetainedLeaseIsDead` |
| `durable_live` | 1 process, 2 tokens, 2 attempts, clocks lag 1, leases of 2; one of the three jobs alone, or an ordinary beside a storage job | 22,087 | `OrdinaryJobsSettle`, `StorageJobsSucceed`, `KeepsPromise` |

*Bounds.* `MaxStale` bounds how long a claim call, a heartbeat or a report lasts.
At 1, with a lease of 1 in `durable_races`, a call can outlive a lease that was
granted after its clock reading: a row that it has read is taken by a call that
lags behind it, and has lapsed again when its own turn comes. This is the case
the fences are for. The theorems below hold for any lag and lease. In
`durable_live` a lease outlasts a report by one tick.
Two processes suffice for one to lag behind another;
`Abandon` and overlapping batches put a third and fourth execution behind the two.
Two attempts distinguish a first from a last one, and let a job fail, be retried
and fail for good. Three tokens for one job are one on the row and two late
executions; of an ordinary job at most two executions are under way at a time, a
storage job has three. In `durable_live` jobs that
are beside each other are submitted once and meet no fault, because the question
there is only which of them the claims come to; each alone meets them all. Nothing is
limited by a horizon: the state is finite because dates are relative.
`Window` is 3 as in the code, so a claim reads more candidates than it takes.

*Fairness* (`Fairness`). The scheduler starts one claim call after another (weak
fairness of `BeginClaim`); each statement of a call that is reached again and
again is answered at times (strong, because a call may be aborted first); timers
fire (strong for `Tick`, which a call at its longest holds up); a handler ends
(weak for `Conclude`). Nothing is assumed of heartbeats, operators or crashes: an
execution may be lost each time. Under this an ordinary job settles, in the
worst case by its attempts running out and the sweep. A storage job succeeds only
if its handler can read it, a call that took it returns, and its target answers
within the lease infinitely often (`TargetAnswers`); without it the claim would be
false, and the queue rightly keeps trying. In the scenes of `durable_live` that let
time pass only between claim calls the clock is fair to that (`Tick /\ Scene`): were
it fair to all of `Tick`, no behaviour that stays in the scene would be fair, and
liveness would hold of nothing.

### Proofs

1116 obligations, from the assumptions that the module declares: the retained jobs
are among the jobs, those that cannot be read among the retained, the sentinels are not values, the numbers are naturals of
which all but retention and staleness are positive. No bound on the number of
jobs, processes, tokens, attempts or ticks is used.

`TypeCorrect` comes first; it needs the arithmetic of attempts (saturation at
`MaxAttempts`, the refund as a minimum). The inductive invariant is

    IInv == TypeOK /\ LeaseAgreement /\ ContentionRefundIsExact
            /\ RetainedSurvives /\ NoEarlyFailure

`NoEarlyFailure` is not inductive by itself: an execution fails its row when *its*
attempts reach the maximum, so the row's must be the same, which is the last
conjunct of `LeaseAgreement`; that in turn needs the token to identify one row
and one execution, the first conjuncts, which a claim preserves because its token
is fresh for rows and executions. `RetainedSurvives` needs a retained job that can be
read to have no error outcome, and none to be swept, and the refund's exactness the fence on the
attempts that were read. `Invariance` proves IInv with a lemma per group of
actions (`InvOwners`, `InvCleanup`, `InvTick`, `InvClaim`, `InvExecution`); each of
its conjuncts is a theorem (`LeasesAgree`, `RefundsAreExact`,
`RetainedRowsSurvive`, `FailuresAreFinal`).

`HolderReportsOnly`, `LeasesAreRespected` and `LapsedLeasesStayDead` are action
properties, proved for each action from `IInv`. The second has an arithmetic core: a claim call of age a
sees a lease as lapsed when `leaseExpiresAt + a <= 0`, so a clock that lags only
sees a lease lapse later than it does. The third rests on the fence of
`applyClaimOwnership`, which for a storage job asks for a lease that was unexpired
when its clock was read: at most `MaxStale` ago, so a lease that lapsed before that
is dead; and on the freshness of a claim's token.

`Refinement` proves `Spec => KeepsPromise`: the initial states agree, and with
`IInv` and `IInv'` each step is a step of the queue or leaves its variables
unchanged. A claim is `Grant`, a sweep `GiveUp` of the swept set, a report that
still owns its row `Report`, one that does not `Vanish`, as are a crash and an
aborted call (for the set of executions it drops); heartbeats, the clock and the
other statements of a claim are invisible.

*Only model-checked*: the two liveness properties, which are beyond the prover (it has no rule for ENABLED).

## 4. PageProjection

### Correspondence

One page. `page` is its row, with the password and the publication window that
belong to it; `certified` is `renderedSourceRevision`, `listed` stands for
visibility, publication and searchability together. The content of HTML, of the
links and of an indexed body is named by what it was made from: the source
revision and the `context` - the linked pages and enabled extensions the render
read. `effect[k][r]` is the outbox row of projection k at revision r, `work[w]`
the effect process w executes and how far it is. `refresh` is a search refresh
promised after a password change.

| action | code |
|---|---|
| `CreatePage`, `SaveCanonicalPageRevision`, `DeletePage`, `RestoreDeletedPage` | `server/models/pages.ts`: the page row, `enqueueCurrentPageProjections`, the cascades |
| `AdmitPageRenderEffect` | an administrator's or a reconnection's rerender: `admitCurrentEffect`, invalidation, dependents re-armed and fenced |
| `SetPageProtection`, `RemovePageProtection`, `RefreshSearch` | `server/operations/page-protection.ts` and its late callback |
| `MaintainGraphEffects`, `RepairSearchPage`, `MaintainAbsentSearchEffects` | the audits of `PageProjectionLifecycle`, scheduled publications among them |
| `ClaimPageMutationEffect`, `ReleaseExpired`, `BeginExecution` | the claim with its readiness rule; expired leases are freed first |
| `ReadSuperseded`, `ReadAbsent`, `ReadCurrent` | the sink's first read |
| `RenderHtml`, `PublishRender`, `CheckRender` | the render sink and `server/jobs/render-page.ts` |
| `ReplaceLinks`, `RemoveLinks`, `CheckLinks` | the links sink |
| `EnsureRenderDependency`, `ReconcileSearch`, `CheckSearch` | the search sink and the engine's `reconcilePage` |
| `SinkThrows`, `Crash`, `Lapse`, `LostLeaseLapses` | any call throws, a process is gone, a lease runs out |
| `FinishClaim` | `finishClaim` under its fence |
| `WindowMoves`, `ContextChanges` | time opens and closes the publication window; what renders depend on changes |

A transaction that holds the page lock is one step, worked out on a record of
the tables (`Admit`, `Rerender`, `EnsureRender`, ... `Commit`); everything between
two transactions is open to others. The several reads with which a sink begins
(page, password, render receipt) are one step, because what it does with them is
checked again under the lock. The absent branch of the links sink holds no lock,
so its delete and its second look are two steps.

A process runs one effect at a time (`runOnce` is single-flight), so its name
stands for its lease token; `Lost` is the token of an execution that is gone. A
lease is unexpired until it lapses, a heartbeat is its not lapsing. A render runs
in a forked job that may outlive its parent; it is fenced by the same token and
publishes as the execution would. The job throws if the page is deleted meanwhile
and publishes nothing if it has moved on (`RenderHtml`). A job that is stopped
while it waits for a slot would end with nothing done and no error; this does not
happen to a render, which only `scheduler.stop` could stop, and the kernel stops
the projection worker, and waits for what it runs, before the scheduler
(`server/core/kernel.ts:207-213`, `server/master.ts:563-573`).

*Abstracted or left out*: backoff (a waiting effect may be claimed at any time);
the attempt counter saturates (the code's claim has no upper bound on attempts,
so a crash-looping effect is taken again and again); empty content, which the
render job skips; cache eviction; the quarantine of malformed rows; the rebuild
of the index; status views; the knowledge kind. Reconnection after a page
appears finds linking pages by their `pageLinks` rows and runs after the commit;
here it is any later `AdmitPageRenderEffect`.

### Properties

| property | hazard |
|---|---|
| `TypeOK` | a row that runs without a token or keeps one when it does not |
| `CertifiedHtmlIsCurrent` | HTML of an older revision certified for the current one; a render receipt without its HTML |
| `LinksReceiptIsTrue` | links of HTML that was invalidated or replaced while they were written |
| `SearchReceiptIsTrue` | a receipt that outlives the row it describes: after a password, a rerender, a late report |
| `BodyIsCertified` | the body of a protected page, or of uncertified HTML, in the index |
| `NoRaceFailsAReceipt` | a process that still has its lease finds its own postcondition violated and fails a receipt of the current revision that nothing re-arms |
| `Converges` | an effect or an audit that never comes: projections stale for good |

### Runs

| run | instance | states | shows |
|---|---|---|---|
| `projection_scenes` | 2 processes, five scenes, below | 1,588,925 | `TypeOK`, `LinksReceiptIsTrue`, `SearchReceiptIsTrue`, `BodyIsCertified`, `NoRaceFailsAReceipt`, `CertifiedHtmlIsCurrent`, no deadlock |
| `projection_converges` | 1 process, render and search, all faults, fairness, three scenes: 2 revisions and windows, 1 revision and passwords, 1 revision and a changing context | 728,103 | `Converges` |
| `projection_opened` | render and search, a publication window | | finding 1 |
| `projection_restored` | render and links, 3 revisions | | finding 2 |

*Bounds.* Links and search depend on the render and not on each other, so a scene
of `projection_scenes` claims the effects of one of them (`watched`). Where the
scene is about *context* or *passwords* the page has one revision, perhaps after an
older history, rerenders at any moment, errors, crashes and lapsing leases, and
the context changes once, or passwords come and go: this is where readmission
and fencing meet. Where it is about *edits* a listed page is edited, deleted and
restored without faults, and rerendered at its first revision, over three
revisions (two where the links are watched): three are the fewest for a page to
be deleted and restored with one process late by two. With one context change two
renders of one revision differ. Two processes are one that lags and one that acts;
a third execution is one whose process crashed, as `Lost`. `MaxAttempts` is 2,
which reaches both retry and final failure (5 in the code), and 1, where a fault
is at once final, in `projection_converges`. The run checks deadlock; `OutOfRevisions` is the
stutter of a deleted page whose revisions the bound has used up.
`CHECK_DEADLOCK FALSE` stands in the other runs for the same reason.

The convergence of the links alone was checked in a larger instance of all kinds
at one revision that is not part of the runs.

*Fairness.* Each process keeps claiming each kind and moves on what it claimed
(`runOnce` at each tick, for every kind), the audits come round every ten
minutes, an abandoned lease lapses after its sixty seconds. `Converges` asks for
nothing until mutations and faults have ended, and exempts a current receipt
that failed: its attempts were used up or its postcondition failed, and the code
leaves it to an operator.
The search refresh after a password change is not relied on.

### Findings

1. `projection_opened`. A page whose window opens between the search sink's read
   and its reconciliation, before its render is certified, gets a row of the
   current revision with an empty body, and a failed receipt;
   `searchStateDisagrees` (:1199) compares presence and revision only, so the
   maintenance that `docs/search-architecture.md:107` relies on for temporal
   activation does not arm it again. This is also why `Converges` exempts failed
   receipts.
2. `projection_restored`. The absent branch of `LinksProjectionSink` (:1022)
   deletes the links of a page id without the page lock and without reading the
   page again. A deletion effect delayed past the restoration removes the rows
   of a page whose links receipt has succeeded, with "Persisted links exactly
   match the revision-fenced rendered projection" (:1089). The audit repairs it
   for a listed page; until then the receipt is false. `LinksReceiptIsTrue` holds
   in `projection_scenes`, where links are watched up to a deletion only.

Not a finding, but worth knowing: `admitCurrentEffect`
(`server/core/page-mutation-outbox.ts:829`) re-arms a render effect only from
succeeded or failed, and answers a rerender asked for while a render runs with
the running effect's id. The HTML that is then published may be of a context
read before the request. The model has this behaviour; no property forbids it,
since nothing in the code says which context a render must have read.

### Proofs

`PageProjectionProofs` proves `TypeOK`, `CertifiedHtmlIsCurrent` and
`BodyIsCertified` for any number of processes, revisions, context changes and
attempts, with every fault, from the three assumptions of the module: a render is
always among the kinds, the bounds are numbers, and the sentinels are none of the
values they stand for the absence of.

`CertifiedHtmlIsCurrent` is not inductive: it says nothing of a process about to
publish or to report. `IInv` adds, in three parts,

- `Core`: no row is of a revision the page has not reached, so that a new
  revision starts with none; every row of the current revision of a page that is
  there is of its presence, which a sink takes the page's absence from; and what
  the page is served with, the property itself;
- `Body`: what of a body is in the index, for a page that is gone as well, since
  its search row outlives it and a restored page has the password it had;
- `WorkSound`: HTML about to be published is of the revision of its effect, and a
  process that found its render satisfied, *if it still has the lease* and the
  revision is current, found a certified page. A rerender may take certification
  away only from a process whose lease it revokes with it.

A transaction is worked out on a record of the tables, by operators that compose
(`Rerender`, `EnsureRender`, `AdmittedSearch`). `Leads(t, u)` says that u is what a
transaction may make of t: it keeps `Core` and the revision, starts no render, and
takes certification away only where no render runs and the search row goes with
it. It is reflexive and transitive, each operator has it (`AdmitLeads`,
`RerenderLeads`, ...), and `CommitRight` shows that committing such a u keeps
`IInv`; so admissions, passwords, audits and the search sink's dependency have one
argument. Claims, lapses and lost processes have another, `RowsRight`: a row
that only changes hands makes no receipt. The sinks' steps rest on `SinkRight`.

`PageReceiptsProofs` proves what the receipts are worth (1765 obligations, over `IInv`):

| theorem | condition | why it is needed |
|---|---|---|
| `SearchReceiptsAreTrue`, `NoReceiptIsFailedByARace` | the page has no publication window (`~Windowed`) | time moves a window with no word to the outbox: finding 1 |
| `LinksReceiptsAreTrue` | no deleted page is restored | a late removal of links: finding 2 |

Neither condition holds of every page of the program; what fails without it is
what the violated runs show. `NoRaceFailsAReceipt` is about executions of the
current revision: a deletion's links effect that is delayed past a restoration
does find links it did not write, and its failed receipt is of a revision nobody
asks about any more.

A receipt is written by a process that read the page, and wrote a projection,
in transactions long past. So the invariants say what each execution has
established, phase by phase, *while it has its lease*: `SearchInv` that a search
execution about to reconcile has read the eligibility the page has now, with a
certified render if the page may be indexed, and that one about to check or to
report finds the row it wrote; that a links execution replaces by the links of
the HTML that is certified now; that a render is certified when it is checked; and
that no execution with a live lease is `unsatisfied`. `LinksInv` adds that links
are removed only of a page that is gone, which restoration would break.

What others may do between is a relation on the tables before and after a step
(`Renders`, `Searches`, `Linked`, `LinksKept`, `Yields`): certification or the
search row may change under an execution only together with its lease, when its
row is fenced (`Fenced`). `SearchFrame` and `LinksFrame` conclude from it that all
work in hand stays sound; `Admits` says the same of a transaction that only
re-arms and fences - it is `Quiet` or it has `Stirred` all dependents - and
composes like `Leads` above. There is a lemma per group of actions.

Model-checked only: `Converges`, which is liveness.

## 5. AgentRuns

### Correspondence

`run[r]` is a row of `agentRuns`: its status, attempts, lease (`holder`,
`lapsed`), `sideEffectsStarted`, `cancelRequestedAt`, the attempt its approval
checkpoint belongs to (`cont`, 0 without one) and the decision on the proposal it
waits for. `hold[r]` is its row of `agentQuotaReservations`, with a settlement
intent (`pending`) and whether its expiry has passed; `spent[r]` that its
dispatch journal holds usage. `exec[w]` is what process w executes and how far
the handler is. `claim` is the half-done claim: the rows it read and those that
moved since. `listed` are the reservations maintenance has read as expired.

| action | code |
|---|---|
| `AdmitAgentRun`, `RequestAgentRunCancellation` | `server/agents/coordinator.ts`: admission with its reservation; a cancellation, recorded if the lease is live, otherwise carried out |
| `TombstoneOwnedSession`, `RecoverRuns`, `ListExpiredReservations`, `ReleaseReservation` | `server/agents/maintenance.ts` |
| `ReadCandidates`, `TakeCandidate`, `TakeNothing` | `claimAgentRun`: candidates are read, then walked through; each is ended, skipped or taken under its fence, or the claim rolls back |
| `Heartbeat`, `MarkSideEffectsStarted`, `PersistApprovalContinuation`, `ClearApprovalContinuation` | the functions of the same name |
| `Begin`, `Dispatch`, `Complete` | the handler reads its checkpoint, dispatches to a provider and completes (`server/agents/runtime.ts`) |
| `ResumeRun`, `Decide` | `waitForApproval` and the decision it waits for |
| `PersistSettlementIntent`, `TerminalizeSuccess`, `SettleFailure`, `TerminalizeFailure` | the usage is written down, then run and reservation are ended in one transaction |
| `Report`, `Rethrow` | `runOnce` looks at the run once its handler has returned |
| `Throw`, `Stop`, `Abort`, `Crash` | errors, aborted signals, processes that die |
| `LeaseLapses`, `Stall`, `Expire` | leases and reservations that run out |

A transaction under the coordinator's advisory lock is one step (`Unlocked`),
except the claim: its candidates carry no row lock, and renewals, fences and
suspensions take no advisory lock and come between reading and taking. A process
claims one run at a time, so its name stands for the lease token; `Lost` is the
token of an execution that is gone. The age of a run is not modelled: the walk
takes its candidates in any order, which includes the oldest first.
A running process renews its lease until its signal is aborted, by a failed
renewal, a cancellation it found, or its budget (`coordinator.ts` 1831-1836); from
then on its handler may still work while the lease runs out (`LeaseLapses`, free).
A lease that is being renewed lapses only where process or database are held up
for that long (`Stall`, a fault). The deletion of a session marks its running
runs in a statement of its own; a run that is suspended in between is neither
ended nor marked, and in the model `TombstoneOwnedSession` does not happen to it.

*Abstracted*: amounts of tokens and cost (whether something was spent is what
decides), messages, events and projections, media, retry delays, who may ask for
what. The event sequence, part of a claim's fence, is `claim.moved`.

### Properties

| property | hazard |
|---|---|
| `TypeOK` | attempts beyond their maximum through resumed and suspended claims; a running row without a lease |
| `EndedRunHoldsNothing` | a run ended by one of its many enders with its part of the daily quota still reserved |
| `QuarantineIsKept` | a run whose settlement is pending is executed again, or its reservation released under it |
| `NoReplayOfKnownSideEffects` | a run whose external effect may have happened is attempted again, after a crash, a recovery, a suspension or a resumption |
| `NoReplayAfterSideEffects` | the same, and of a mark that is set after the claim read the run: violated, see finding 2 |
| `RunsEnd` | a cancellation that is only recorded, a lease nobody renews, a checkpoint nobody resumes |
| `UsageIsCharged` | what a run used is not charged: violated, see finding 1 |

### Runs

| run | instance | states | shows |
|---|---|---|---|
| `agent_runs` | 2 processes, 2 runs of one user, 2 attempts, two scenes, fairness | 165,593 | `TypeOK`, `EndedRunHoldsNothing`, `QuarantineIsKept`, `NoReplayOfKnownSideEffects`, `RunsEnd` |
| `agent_usage` | 1 process, 1 run | | finding 1 |
| `agent_replay` | 2 processes, 1 run | | finding 2 |

*Bounds.* Two scenes share a run: `alone`, one run that meets at most two of a fault,
another fault, a cancellation and the expiry of its reservation; and `pair`, two runs
of one user, of whom one may run at a time, where claims skip, walk on and roll
back, one run may be cancelled and nothing fails. Leases that nobody renews lapse
in both. The theorems below hold without these limits. Two attempts (three in the
code) tell the first from the last. `MaxFaults` limits errors, aborts, crashes and
stalls; time is not limited. Runs end, so deadlock is not checked.

*The ceiling.* Only a claim looks at the limits on running runs. A heartbeat that
revives a lapsed lease and a resumed approval do not, so no bound on live leases
holds between claims, and none is stated.

*Fairness.* A process polls and executes what it claimed (`server/master.ts`
485-520). A run that stays a candidate comes to be the oldest, hence strong
fairness of taking it; executions wait in line for the advisory lock, which is
free again and again, hence strong fairness of *some* of them going on; the work of
a handler is bounded by its budget, hence of some completing. Proposals are
decided or expire, leases nobody renews lapse and the maintenance comes round.
Nothing is assumed of users or of heartbeats, and a handler may fail, stall or be
aborted each time within `MaxFaults`.

### Proofs

873 obligations, for any number of runs and processes, any `MaxAttempts` and any
number of faults. The inductive invariant has two parts:

    IInv == Typed /\ (\A r \in Runs : Sound(run[r], hold[r])) /\ ClaimStands

`Sound` relates a row to its own reservation: a lease only where it may be, no
side effect of a queued run, no reservation open at the end, and a settlement
pending only of a run that has left the queue. That suffices for every step but
the second half of a claim, which acts on rows it read before. `ClaimStands` says
what of them is still so: no candidate's settlement has become pending, because
every transaction that records one takes the lock that the claim holds; its
attempts are the same; and no candidate was queued with a side effect. It does not
say that the side-effect mark is the one that was read, since that is not so:
finding 2.

Every other step is *gentle* with every run (`Gentle`): it keeps `Sound`, adds no
attempt, and makes no settlement pending while a claim is open. Gentle steps keep
the invariant (`GentleStep`), so each action needs one short lemma. Claims are
treated by themselves (`TakenIsSound`, `WalkIsRight`): a candidate that was read
with a side effect is ended, unless it is suspended or resumes its own attempt, and
then taking it adds no attempt. `TypeCorrect`, `EndedRunsHoldNothing`,
`QuarantinesAreKept` and `KnownSideEffectsAreNotReplayed` follow without
assumption. `RunsEnd` is liveness and only model-checked.

### Findings

1. `agent_usage`. `reconcileExpiredReservations` (`server/agents/maintenance.ts:469`)
   lists reservations that have expired, without a lock, and releases each with no
   consumption. It looks neither at the expiry again nor at the run's dispatch
   journal, which every other ender does (`terminalizeAgentRunInTransaction`). A
   run that waited in the queue, or whose process crashed, longer than its
   reservation lasts may have been claimed since and have dispatched; its usage is
   then never charged, because its settlement finds the reservation reconciled.
   `docs/agents-deployment.md:305` says that a complete receipt "charges the full
   actual total/cost once" and that an incomplete attempt "retains conservative
   unsettled exposure".
2. `agent_replay`. `claimAgentRun` ends a run as `recovery_required` if the row it
   read says that side effects may have started (`server/agents/coordinator.ts:1633`),
   and takes it otherwise, fenced by status, event sequence and lease token
   (1659-1663). `markAgentRunSideEffectsStarted` asks for no live lease, takes no
   lock and moves none of the three (1741-1745). The execution that still holds the
   token of the lapsed lease, because it was held up or its heartbeat ended
   with one failed renewal (1831-1836), may so mark its side effects after the claim
   read the row and before the claim takes it; the run is then attempted again.
   `server/test/agents/repository.test.ts:4771` says "claims, fences, heartbeats,
   cancels, and refuses replay after side effects".

## 6. ProposalExecution

### Correspondence

One proposal: the statuses of its rows in `agentProposals`, `agentApprovals` and
`agentActionExecutions`, the page it is about and the calls that apply it.
`plucked` says that a deletion of its session has read it. `changes`, `held` and
`overtaken` are history. The revision it was prepared from is `Base`, the one it
must produce `Target`.

| action | code |
|---|---|
| `DecideProposal`, `WaitForApproval`, `ExpireApprovals` | `decideProposal`, the waiting run's own expiry, and `server/agents/maintenance.ts` 229-237 |
| `PluckProposals`, `TombstoneOwnedSessions`, `DeletionRollsBack` | `server/agents/maintenance.ts` 85-87: a deletion of the session reads the ids of undecided proposals, then cancels them, or fails |
| `ApplyApprovedProposal`, `LoadRecoveryContext`, `ReconcilePrior`, `MarkRecoveryRequired` | `applyApprovedProposal` (`server/agents/proposals/execution.ts` 332-358): a call that finds another's claim |
| `ClaimProposal`, `MutateCommits`, `MutateThrows`, `CommitResult` | its claim, the page operation in a transaction of its own, the record |
| `ReconcileError`, `RecordRecovered`, `Fail` | after any error the page is read: the change is recognised and recorded, or the claim fails |
| `Dies` | the process is gone, or a statement of its own throws |
| `RecoverProposalExecutions` | maintenance; its call may still be going on |
| `OthersChange` | everybody else's edits, deletions and restorations of the page |

Each of these is one transaction or one unlocked read; all interleave. The deletion
is one transaction of which the parts are steps of their own: it reads the
undecided proposals without a lock and updates them by id, with no guard on
their status, so whatever a decision, a claim or a call committed in between is
overwritten with `cancelled`. Its update waits for the row lock of a claim in flight
like any other. `RecoverProposalExecutions` finds an execution that is applying
and throws unless its proposal is too. A change
is recognised by what the page shows (`Wanted`): revision and content for an
edit, the deletion effect for a deletion; a creation's row cannot be recognised
later, and is left to a person. *Abstracted*: hashes, authorities, actors and
request bodies, immutable once persisted.

*ApprovedChange* is what whoever approves the proposal may rely on: one change, made
at most once, while the proposal is being applied, not before an approval and not
after an outcome was recorded; *applied* only if the page has been what was asked
for, *failed* only if nothing was changed or others have changed the page since;
and an outcome that stays. It may be *withdrawn*, with the conversation it came
from, after somebody had begun to apply it: that neither undoes nor prevents the
change, but no call records it as applied then. The mapping shows the verdict - the
execution's status once there is one, before that the proposal's (the three refusals
as one) - the withdrawal and the history variables, and hides the calls, the page
and the approval.

### Properties, run and bounds

| run | instance | states | shows |
|---|---|---|---|
| `proposals` | 3 calls, all three kinds of operation, the page up to revision 4, fairness | 629,252 | `NoChangeWithoutApproval`, `ChangedAtMostOnce`, `OutcomeIsHonest`, `LedgerAgrees`, `OutcomeIsFinal`, `ImplementsApprovedChange`, `ProposalSettles` |
| `proposals_deleted` | the same, up to revision 2 | | the finding |

Two calls are one that claims and one that finds the claim; the
third comes after either has died. Revision 4 lets others change the page twice
after, or around, the proposal's own change. A session is deleted at any moment,
and more than once if a deletion fails. A settled proposal may have nothing
left to do, so deadlock is not checked.

| property | hazard |
|---|---|
| `NoChangeWithoutApproval` | a claim racing a denial or an expiry |
| `ChangedAtMostOnce` | a repeated or resumed call makes the change again after a crash |
| `OutcomeIsHonest` | a lost answer recorded as a failure, or a success that was somebody else's page |
| `LedgerAgrees` | proposal and execution, updated under different guards, part in a way other than the cancellation by a deletion |
| `OutcomeIsFinal` | a late failure overwrites what a reconciliation recorded; anything but a deletion's cancellation replaces an outcome, or that |
| `ImplementsApprovedChange` | any of these, seen from outside; and a change made after somebody else's was recognised and recorded as the outcome, or recorded as applied after a withdrawal |
| `ProposalSettles` | every call died: the proposal stays applying |
| `RecoveryFindsItsProposal` | violated, see the finding |

Fairness (`LiveSpec`) is that of the maintenance tick only; no call is trusted to
come or to return. With one proposal, a recovery that throws for it stops nothing
else. In the program it rolls back the recovery of every proposal of its batch and
skips the expiry that comes after it (`maintenance.ts` 512-514), at each tick, and with
them goes the fairness assumed here: `ProposalSettles` holds as long as no other
proposal is in the state of the finding below.

### Finding

`proposals_deleted`. `tombstoneOwnedSessions` (`server/agents/maintenance.ts:85-87`)
cancels by id what it read without a lock, where `expireApprovals` (229-237) locks
and guards. A claim that commits in between leaves its execution `applying` beside a
cancelled proposal, and the page is changed under it; the call's own record then
fails its guard. If the call dies, or has made the change and cannot record it, the
maintenance cannot move the execution: each recovery throws at the assertion
(:220-221) "PROPOSAL_RECOVERY_CORRUPT", "Applying proposal execution has no matching
applying proposal". The other properties hold with this behaviour and say where it
ends: `OutcomeIsFinal` and `LedgerAgrees` name it
as their only exception, `ApprovedChange` as `Withdraw`.

### Proofs

414 obligations, for any number of calls and any `MaxRevision`. `TypeCorrect`
comes first. The inductive invariant is

    IInv == TypeOK /\ LedgerAgrees
            /\ OneClaimant /\ ChangeFollowsClaim /\ HeldIsKnown /\ FailureIsKnown

Changing the page at most once is not inductive: it needs that at most one call
is between its claim and its end, and none before a claim or after a failure
(`OneClaimant`), which holds because a claim requires that no execution row
exists; and that a call about to change the page is the first (`ChangeFollowsClaim`).
`OutcomeIsHonest` needs that a call about to record has seen the page as wanted
(`HeldIsKnown`), and that one about to fail an edit or a deletion either made no
change or has been overtaken (`FailureIsKnown`).
`LedgerAgreesAlways`, `ChangesAreApproved`, `ChangesOnce`, `OutcomesAreHonest` and
`OutcomesAreFinal` follow.

`Refinement` proves `Spec => ImplementsApprovedChange`, and needs one invariant more.
While the call with the claim is about to change the page, another may find in it
what was asked for, made by somebody else, and record the proposal as applied; the
change must then be refused. `RecordedIsPast` says why it is: what is recognised
lies at or beyond the target revision, and the operation expects the base; a
creation is recognised by its own call only, which is past its change. Each step
is then `Approve`, `Refuse`, `Start`, `Suspect`, `Change`, `Succeed`, `Fail`,
`Withdraw`, `Elsewhere`, or shows nothing (`ProgressStep`, `WithdrawalStep`, ...).
`ProposalSettles` is liveness and only model-checked.

## 7. Scheduler

### Correspondence

`job[j]` is the `Job` object of a name: in no queue, waiting for its timer, or
with its promise open; its child process and what is known of its end; its stop
promise and the two timers of a stop. `active` and `waiting` are `activeWorkers`
and `pendingWorkers`, `awaited` the jobs that the scheduler's stop waits for.
A step is one callback; the promise continuations it causes belong to it.

| action | code (`server/core/scheduler.ts`) |
|---|---|
| `Start`, `RegisterJob`, `TimerFires` | `scheduler.start`, `registerJob`, `Job.enqueue` |
| `Drain`, in each step that frees or asks for a slot | `admitWorker`, `drainWorkers`, and a fork that spawns, fails later, or throws at once |
| `InlineEnds`, `ForkThrew`, `ExitEvent`, `ErrorEvent`, `CloseEvent`, `Dies` | the end of an execution; a child's is known with its termination *and* its close |
| `Stop`, `Escalate`, `Unconfirmed` | `Job.stop`: SIGTERM, SIGKILL after a second, given up after five |
| `StopScheduler`, `StopSchedulerResolves`, `StopSchedulerRejects` | `scheduler.stop` |

### Properties, run and bounds

`scheduler`: three forked jobs, one of them repeating, for two slots, and an
inline job that repeats; 93,239 states, deadlock checked. Three jobs are the
fewest that make one wait; a fourth would wait behind the third.

| property | hazard |
|---|---|
| `TypeOK` | an inline job enters the line of the workers |
| `ChildrenHoldSlots` | a child that was given up on loses its slot while it lives |
| `NobodyWaitsInVain` | a wake-up lost between a release, a failing fork and a cancelled wait |
| `NothingStartsAfterStop` | a timer, the line or a repetition forks after a stop |
| `StopLeavesNothing` | a restart after a stop that once failed inherits a child |
| `StopsEnd` | a stop waits for a child that ignores it or never closes its pipe |

Fairness is that of timers and promises. No child is trusted to end, no pipe to
close, no inline job to return: the stop of the scheduler is promised to end
unless an inline job hangs, which the code does not bound.

### Proofs

`SchedulerProofs` proves every safety property of the table for any set of jobs,
any configuration and any behaviour of the children, from `JobAssumption` (the
jobs are finitely many, workers, repeating and immediate ones are among them, and
the configuration names each at most once). The properties are not inductive:
that a child holds its slot depends on what a queued job may look like, and that
a stop leaves nothing on which jobs its promise covers. `IInv` says, of every job
(`Sound`): who waits was invoked, has no child and was not stopped; a slot is held
exactly by those that have a child, or whose fork just threw; a job with its timer
set was not stopped; a stop that resolved has removed its job; the timers of a
stop belong to a child; and once the scheduler stops, every job in the queue has
been stopped. Of the line: nobody is in it twice, and it is empty unless both
slots are taken. Of the scheduler: the promise of its stop covers every job.

The argument has two halves. `Queue` is the part of `IInv` that holds between the
change of a job and the draining of the line, and `Registering`, `FiringTimer`,
`Ending` and `Stopping` show that each change keeps it. `Draining` shows that the
line is drained into the rest of `IInv`: it fills the slots or empties the line,
and gives a child to nobody but those who wait. Both rest on lemmas about lines:
what is picked of a line keeps its members apart (`ThoseOfALine`, by counting
places), two lines in a row, the head and the rest. `NoForkAfterStop` is proved
beside the invariant, step by step; `StopIsComplete` from the invariant alone.
`StopsEnd` is liveness and only model-checked.

## 8. What is not modelled, and why

- Event outbox, webhooks, live notes, collaboration, approvals, asset relocation,
  site logo, notifications, the knowledge kind, the offline client and the MCP
  limiter have protocols worth checking; they are planned (section 2).
- Users, authentication and authorisation are decision tables over rows read in
  one transaction.
- Comments, localisation, navigation, theming, mail and site settings are single
  transactions whose correctness is that of the database.
- HTTP, GraphQL, the kernel, migrations, rendering and the web client are I/O,
  parsing and formatting.
- PostgreSQL is taken to give row locks, transactions and unique keys as it
  documents; a database failure is a call that throws, with or without effect.
