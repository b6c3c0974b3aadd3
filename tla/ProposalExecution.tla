------------------------ MODULE ProposalExecution ------------------------
(***************************************************************************)
(* One agent proposal from its decision to its recorded outcome:           *)
(* server/agents/proposals/execution.ts, the page operations it calls      *)
(* through server/agents/actions/page-proposals.ts, and the maintenance    *)
(* that expires, cancels and recovers it (server/agents/maintenance.ts).   *)
(*                                                                         *)
(* Applying is four transactions and two unlocked reads: the execution row *)
(* is looked up, a claim is committed, the page is changed by its own      *)
(* transaction, and the result is recorded; after any error the page is    *)
(* read to find out whether the change was made.  Several calls apply the  *)
(* same proposal (a resumed run, a repeated MCP request), each may die     *)
(* anywhere, and other users keep changing the page.  Hashes and           *)
(* authorities are abstracted: they are immutable once persisted.          *)
(***************************************************************************)
EXTENDS Naturals

CONSTANTS Appliers,    \* calls of applyApprovedProposal
          MaxRevision  \* others stop changing the page at this revision

ASSUME RevisionAssumption == MaxRevision \in Nat \ {0}

VARIABLES
  kind,       \* the operation: creating, editing (patch, move, restore), deleting
  proposal,   \* agentProposals.status
  approval,   \* agentApprovals.status
  execution,  \* agentActionExecutions.status, "none" without a row
  lapsed,     \* expiresAt of proposal and approval is in the past
  plucked,    \* the deletion of the session, under way, has read it as undecided
  page,       \* the page the proposal is about, or what is at its path
  removed,    \* a deletion to revision Target is in pageMutationOutbox
  at,         \* where each call is
  changes,    \* history: how often a call has changed the page
  held,       \* history: the page has been what the proposal asks for
  overtaken   \* history: others changed the page after a call did

ledger == <<proposal, approval, execution>>
world == <<page, removed, changes, held, overtaken>>
around == <<lapsed, plucked>>
vars == <<kind, ledger, around, world, at>>

Kinds == {"create", "edit", "delete"}
Undecided == {"pending", "approved"}
Refused == {"denied", "expired", "cancelled"}
Claimed == {"applying", "recovery_required"}
Steps == {"idle", "load", "reconcile", "record", "mark", "claim", "mutate",
          "commit", "reconcileError", "fail"}
Contents == {"base", "proposed", "other"}

Base == 1            \* baseSourceRevision
Target == Base + 1   \* resultIdentity.sourceRevision

TypeOK ==
  /\ kind \in Kinds
  /\ proposal \in Undecided \cup Refused \cup Claimed \cup {"applied", "failed"}
  /\ approval \in Undecided \cup Refused
  /\ execution \in Claimed \cup {"none", "committed", "failed"}
  /\ page \in [present : BOOLEAN, revision : Nat, content : Contents]
  /\ lapsed \in BOOLEAN /\ plucked \in BOOLEAN /\ removed \in BOOLEAN
  /\ held \in BOOLEAN /\ overtaken \in BOOLEAN
  /\ at \in [Appliers -> Steps]
  /\ changes \in Nat

\* A proposal as persistProposal leaves it; a creation finds its path free.
Init ==
  /\ kind \in Kinds
  /\ proposal = "pending" /\ approval = "pending" /\ execution = "none"
  /\ lapsed = FALSE /\ plucked = FALSE
  /\ page = [present |-> kind # "create",
             revision |-> IF kind = "create" THEN 0 ELSE Base,
             content |-> "base"]
  /\ removed = FALSE /\ held = FALSE /\ overtaken = FALSE /\ changes = 0
  /\ at = [p \in Appliers |-> "idle"]

---------------------------------------------------------------------------
(* The page, changed by the proposal's calls and by everybody else.        *)

\* What the proposal asks for; the row of a creation is known to its call only.
Wanted(pg, gone) ==
  \/ /\ kind = "edit"
     /\ pg = [present |-> TRUE, revision |-> Target, content |-> "proposed"]
  \/ kind = "delete" /\ ~pg.present /\ gone

Becomes(new) ==
  /\ page' = new
  /\ removed' = (removed \/ (page.present /\ ~new.present /\ new.revision = Target))

\* The page is what the proposal was prepared from.
AtBase == \/ kind = "create"
          \/ page.present /\ page.revision = Base

\* Any other user of the page: an edit, a deletion, a restoration, or another
\* page at the path.
OthersChange ==
  /\ page.revision < MaxRevision
  /\ \E present \in BOOLEAN, content \in Contents :
       /\ present \/ page.present
       /\ present \/ content = page.content
       /\ Becomes([present |-> present, revision |-> page.revision + 1,
                   content |-> content])
  /\ held' = (held \/ Wanted(page', removed'))
  /\ overtaken' = (overtaken \/ changes > 0)
  /\ UNCHANGED <<kind, ledger, around, at, changes>>

\* The operation itself refuses a page that is not at its expected revision,
\* or a path that is taken.
\* Variant: the operation takes the page at any revision.
ApplicableAnyRevision == page.present <=> kind # "create"
Applicable == IF kind = "create" THEN ~page.present ELSE AtBase

Changed ==
  [present |-> kind # "delete", revision |-> page.revision + 1,
   content |-> IF kind = "delete" THEN page.content ELSE "proposed"]

RecognisedNothing == FALSE

\* A creation is never recognised in the page at its path.
Recognised == Wanted(page, removed)

---------------------------------------------------------------------------
(* Decision, expiry and cancellation.                                      *)

Lapse ==
  /\ ~lapsed
  /\ lapsed' = TRUE
  /\ UNCHANGED <<plucked, kind, ledger, world, at>>

\* A late decision commits the expiry of both and only then fails.
DecideProposal ==
  /\ proposal = "pending" /\ approval = "pending"
  /\ \E decision \in {"approved", "denied", "expired"} :
       /\ (decision = "expired") <=> lapsed
       /\ lapsed \/ AtBase
       /\ proposal' = decision
       /\ approval' = decision
  /\ UNCHANGED <<kind, execution, around, world, at>>

\* The run that waits for the approval expires what is still pending.
WaitForApproval ==
  /\ lapsed /\ approval = "pending"
  /\ approval' = "expired"
  /\ proposal' = IF proposal = "pending" THEN "expired" ELSE proposal
  /\ UNCHANGED <<kind, execution, around, world, at>>

ClosesClaimed(status) ==
  /\ proposal \in Undecided \cup {"applying"}
  /\ proposal' = status
  /\ approval' = IF approval = "pending" THEN status ELSE approval
  /\ UNCHANGED <<kind, execution, around, world, at>>

ClosesPending(status) ==
  /\ proposal = "pending"
  /\ proposal' = status
  /\ approval' = IF approval = "pending" THEN status ELSE approval
  /\ UNCHANGED <<kind, execution, around, world, at>>

Closes(status) ==
  /\ proposal \in Undecided
  /\ proposal' = status
  /\ approval' = IF approval = "pending" THEN status ELSE approval
  /\ UNCHANGED <<kind, execution, around, world, at>>

\* An approved proposal that nobody claims expires too.
ExpireApprovals == lapsed /\ Closes("expired")

\* The session is deleted: the undecided proposals are read without a lock ...
PluckProposals ==
  /\ ~plucked /\ proposal \in Undecided
  /\ plucked' = TRUE
  /\ UNCHANGED <<lapsed, kind, ledger, world, at>>

\* ... and cancelled by their ids alone: a decision, a claim, even an outcome
\* that was committed in between is overwritten.
TombstoneOwnedSessions ==
  /\ plucked /\ plucked' = FALSE
  /\ proposal' = "cancelled"
  /\ approval' = IF approval = "pending" THEN "cancelled" ELSE approval
  /\ UNCHANGED <<lapsed, kind, execution, world, at>>

\* The deletion fails, and with it the transaction that read.
DeletionRollsBack ==
  /\ plucked /\ plucked' = FALSE
  /\ UNCHANGED <<lapsed, kind, ledger, world, at>>

---------------------------------------------------------------------------
(* applyApprovedProposal.                                                  *)

Moves(p, from, to) == at[p] = from /\ at' = [at EXCEPT ![p] = to]

\* The execution row is read outside any transaction.  A committed one is
\* answered from the ledger and changes nothing.
ApplyApprovedProposal(p) ==
  /\ Moves(p, "idle", IF execution = "none" THEN "claim" ELSE "load")
  /\ execution # "committed"
  /\ UNCHANGED <<kind, ledger, around, world>>

LoadRecoveryContext(p) ==
  /\ Moves(p, "load",
           IF approval = "approved" /\ proposal \in Claimed THEN "reconcile"
                                                            ELSE "idle")
  /\ UNCHANGED <<kind, ledger, around, world>>

\* A call that found somebody else's claim: what the page shows is recorded,
\* a creation is given up, anything else is still in progress.
ReconcilePrior(p) ==
  /\ Moves(p, "reconcile",
           IF Recognised THEN "record" ELSE IF kind = "create" THEN "mark" ELSE "idle")
  /\ UNCHANGED <<kind, ledger, around, world>>

RecoveringExecution ==
  /\ execution' = IF execution = "applying" THEN "recovery_required" ELSE execution
  /\ UNCHANGED <<proposal, approval>>

Recovering ==
  /\ execution' = IF execution = "applying" THEN "recovery_required" ELSE execution
  /\ proposal' = IF proposal = "applying" THEN "recovery_required" ELSE proposal
  /\ UNCHANGED approval

MarkRecoveryRequired(p) ==
  /\ Moves(p, "mark", "idle")
  /\ Recovering
  /\ UNCHANGED <<kind, around, world>>

ClaimableAgain ==
  /\ proposal \in {"approved", "recovery_required"} /\ approval = "approved"
  /\ ~lapsed
  /\ AtBase

Claimable ==
  /\ proposal = "approved" /\ approval = "approved"
  /\ ~lapsed
  /\ AtBase
  /\ execution = "none"

ClaimProposal(p) ==
  /\ \/ /\ Claimable
        /\ Moves(p, "claim", "mutate")
        /\ execution' = "applying"
        /\ proposal' = "applying"
        /\ UNCHANGED approval
     \/ /\ ~Claimable
        /\ Moves(p, "claim", "idle")
        /\ UNCHANGED ledger
  /\ UNCHANGED <<kind, around, world>>

\* The page operation commits; its response may be lost.
MutateCommits(p) ==
  /\ \E next \in {"commit", "reconcileError"} : Moves(p, "mutate", next)
  /\ Applicable
  /\ Becomes(Changed)
  /\ changes' = changes + 1
  /\ held' = TRUE
  /\ UNCHANGED <<kind, ledger, around, overtaken>>

\* The lease or the authority is gone, the page has moved on, or an I/O error.
MutateThrows(p) ==
  /\ Moves(p, "mutate", "reconcileError")
  /\ UNCHANGED <<kind, ledger, around, world>>

Committable == execution \in Claimed /\ proposal \in Claimed

Committed ==
  /\ execution' = "committed"
  /\ proposal' = "applied"
  /\ UNCHANGED approval

\* The first recording, inside the try: an error of it is reconciled too.
CommitResult(p) ==
  /\ \/ Committable /\ Moves(p, "commit", "idle") /\ Committed
     \/ execution = "committed" /\ Moves(p, "commit", "idle") /\ UNCHANGED ledger
     \/ Moves(p, "commit", "reconcileError") /\ UNCHANGED ledger
  /\ UNCHANGED <<kind, around, world>>

\* The recording of what the page shows: an error of it is the caller's.
RecordRecovered(p) ==
  /\ Moves(p, "record", "idle")
  /\ IF Committable THEN Committed ELSE UNCHANGED ledger
  /\ UNCHANGED <<kind, around, world>>

ReconcileError(p) ==
  /\ Moves(p, "reconcileError", IF Recognised THEN "record" ELSE "fail")
  /\ UNCHANGED <<kind, ledger, around, world>>

FailingAnyStatus ==
  execution' = "failed" /\ proposal' = "failed" /\ UNCHANGED approval

Failing ==
  /\ execution' = IF execution = "applying" THEN "failed" ELSE execution
  /\ proposal' = IF proposal = "applying" THEN "failed" ELSE proposal
  /\ UNCHANGED approval

\* A failed creation may have been committed without its identity being known.
Fail(p) ==
  /\ Moves(p, "fail", "idle")
  /\ IF kind = "create" THEN Recovering ELSE Failing
  /\ UNCHANGED <<kind, around, world>>

\* The process dies, the call is aborted, or a read or write of its own fails.
Dies(p) ==
  /\ at[p] # "idle"
  /\ Moves(p, at[p], "idle")
  /\ UNCHANGED <<kind, ledger, around, world>>

\* maintenance: a claim of five minutes ago, whose call may yet be going on.
\* Where the proposal is not applying it throws and changes nothing.
RecoverProposalExecutions ==
  /\ execution = "applying" /\ proposal = "applying"
  /\ Recovering
  /\ UNCHANGED <<kind, around, world, at>>

Apply(p) ==
  \/ ApplyApprovedProposal(p) \/ LoadRecoveryContext(p) \/ ReconcilePrior(p)
  \/ MarkRecoveryRequired(p) \/ ClaimProposal(p) \/ MutateCommits(p)
  \/ MutateThrows(p) \/ CommitResult(p) \/ RecordRecovered(p)
  \/ ReconcileError(p) \/ Fail(p) \/ Dies(p)

Next ==
  \/ \E p \in Appliers : Apply(p)
  \/ DecideProposal \/ WaitForApproval \/ ExpireApprovals
  \/ PluckProposals \/ TombstoneOwnedSessions \/ DeletionRollsBack
  \/ RecoverProposalExecutions
  \/ Lapse \/ OthersChange

Spec == Init /\ [][Next]_vars

\* Only the ten-minute maintenance is promised to come; no call is.
LiveSpec == Spec /\ WF_vars(ExpireApprovals) /\ WF_vars(RecoverProposalExecutions)

---------------------------------------------------------------------------
(* Properties.                                                             *)

\* However decision, expiry, cancellation and claims race, the page is changed
\* only by a call that claimed an approved proposal, and never under one that
\* was denied or expired (claim against decideProposal and expireApprovals).
\* A deletion of the session may cancel the proposal under the claim.
NoChangeWithoutApproval ==
  changes > 0 => /\ approval = "approved" /\ execution # "none"
                 /\ proposal \notin Undecided \cup {"denied", "expired"}

\* Resumed runs and repeated requests do not repeat the change, whatever was
\* recorded of the first one and whatever others did to the page since.
ChangedAtMostOnce == changes <= 1

\* What the ledger says happened did: where an outcome is recorded as applied
\* the page was what was asked for, and where as failed it either was not
\* changed or others have changed it again since (the reconciliation after a
\* lost response).
OutcomeIsHonest ==
  /\ execution = "committed" \/ proposal = "applied" => held
  /\ execution = "failed" \/ proposal = "failed" => changes = 0 \/ overtaken

\* What the execution row says of the proposal.
Recorded == IF execution = "committed" THEN "applied" ELSE execution

\* Proposal and execution are updated by the same transactions, each under its
\* own guard.  They never part, whichever of them the guard of a late writer
\* hits, but by the deletion of the session: whatever calls and maintenance do
\* after it leaves the one cancelled and the other an account of the change.
LedgerAgrees ==
  IF execution = "none" THEN proposal \in Undecided \cup Refused
                        ELSE proposal \in {Recorded, "cancelled"}

\* A recorded outcome is never replaced: not by a late failure of the first
\* call, not by a recovery, a second decision or a recording that comes after.
\* Only the deletion of the session writes over one, and what it writes stays.
OutcomeIsFinal ==
  [][/\ execution \in {"committed", "failed"} => execution' = execution
     /\ proposal \in Refused \cup {"applied", "failed"} =>
          proposal' \in {proposal, "cancelled"}
    ]_ledger

\* Once past its expiry a proposal does not stay open, even if every call that
\* applied it died (expireApprovals, recoverProposalExecutions).
ProposalSettles == lapsed ~> proposal \notin Undecided \cup {"applying"}

\* What recoverProposalExecutions takes for granted of an execution it finds
\* (PROPOSAL_RECOVERY_CORRUPT).  It does not hold: see TombstoneOwnedSessions.
RecoveryFindsItsProposal == execution = "applying" => proposal = "applying"

\* What whoever approved the proposal learns of it: from the execution once
\* there is one, and from the proposal that it was withdrawn.
verdict ==
  IF execution # "none" THEN Recorded ELSE IF proposal \in Refused THEN "refused" ELSE proposal
withdrawn == execution # "none" /\ proposal = "cancelled"
Promise == INSTANCE ApprovedChange WITH reached <- held

\* The calls, the ledger and the maintenance keep the promise of ApprovedChange.
\* In particular no call changes the page once an outcome is recorded, though
\* another may record it, from what the page shows, while the first one is
\* about to make the change; and what was withdrawn is not recorded as applied.
ImplementsApprovedChange == Promise!Spec
===========================================================================
