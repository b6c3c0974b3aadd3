--------------------- MODULE ProposalExecutionProofs ---------------------
(***************************************************************************)
(* The safety of ProposalExecution for any number of calls and revisions.  *)
(* The ledger alone does not carry it: the invariant also says where the   *)
(* one call that holds the claim may be, and what it knows of the page.    *)
(* From it follows that ProposalExecution implements ApprovedChange.       *)
(***************************************************************************)
EXTENDS ProposalExecution, TLAPS

\* Where a call that made the claim may be before it is done with it.
Claimant == {"mutate", "commit", "reconcileError", "fail"}

OneClaimant ==
  /\ execution \in {"none", "failed"} => \A p \in Appliers : at[p] \notin Claimant
  /\ \A p, q \in Appliers : at[p] \in Claimant /\ at[q] \in Claimant => p = q

ChangeFollowsClaim ==
  /\ execution = "none" => changes = 0
  /\ execution # "none" => approval = "approved"
  /\ \A p \in Appliers : at[p] = "mutate" => changes = 0
  /\ changes <= 1

HeldIsKnown ==
  /\ Wanted(page, removed) => held
  /\ \A p \in Appliers : at[p] \in {"commit", "record"} => held
  /\ execution = "committed" => held

FailureIsKnown ==
  /\ changes > 0 /\ ~overtaken /\ kind # "create" => Wanted(page, removed)
  /\ \A p \in Appliers :
        at[p] = "fail" /\ kind # "create" => changes = 0 \/ overtaken
  /\ execution = "failed" => changes = 0 \/ overtaken

IInv ==
  /\ TypeOK /\ LedgerAgrees
  /\ OneClaimant /\ ChangeFollowsClaim /\ HeldIsKnown /\ FailureIsKnown

---------------------------------------------------------------------------

\* A proposal that was just persisted (Init: persistProposal).
LEMMA InitInvariant == ASSUME Init PROVE IInv
<1>1. page \in [present : BOOLEAN, revision : Nat, content : Contents]
  BY DEF Init, Contents, Base
<1>2. TypeOK
  BY <1>1 DEF Init, TypeOK, Kinds, Undecided, Refused, Claimed, Steps
<1>3. LedgerAgrees
  BY DEF Init, LedgerAgrees, Undecided
<1>4. OneClaimant /\ ChangeFollowsClaim
  BY DEF Init, OneClaimant, ChangeFollowsClaim, Claimant
<1>5. ~Wanted(page, removed)
  BY DEF Init, Wanted, Kinds
<1>6. HeldIsKnown /\ FailureIsKnown
  BY <1>5 DEF Init, HeldIsKnown, FailureIsKnown
<1> QED BY <1>2, <1>3, <1>4, <1>6 DEF IInv

\* Every step of a call and every step around it preserves the invariant
\* (applyApprovedProposal, decideProposal and the maintenance).
LEMMA StepInvariant == ASSUME IInv, [Next]_vars PROVE IInv'
<1> USE DEF IInv, TypeOK, Kinds, Undecided, Refused, Claimed, Steps, Contents, ledger, world,
        around, LedgerAgrees, Recorded, OneClaimant, Claimant, ChangeFollowsClaim, HeldIsKnown, FailureIsKnown
<1>1. ASSUME NEW p \in Appliers, ApplyApprovedProposal(p) PROVE IInv'
  BY <1>1 DEF ApplyApprovedProposal, Moves, Wanted, Base, Target
<1>2. ASSUME NEW p \in Appliers, LoadRecoveryContext(p) PROVE IInv'
  BY <1>2 DEF LoadRecoveryContext, Moves, Wanted, Base, Target
<1>3. ASSUME NEW p \in Appliers, ReconcilePrior(p) PROVE IInv'
  BY <1>3 DEF ReconcilePrior, Recognised, Moves, Wanted, Base, Target
<1>4. ASSUME NEW p \in Appliers, MarkRecoveryRequired(p) PROVE IInv'
  BY <1>4 DEF MarkRecoveryRequired, Recovering, Moves, Wanted, Base, Target
<1>5. ASSUME NEW p \in Appliers, ClaimProposal(p) PROVE IInv'
  BY <1>5 DEF ClaimProposal, Claimable, Moves, Wanted, Base, Target
<1>6. ASSUME NEW p \in Appliers, MutateCommits(p) PROVE IInv'
  <2>1. at[p] = "mutate" /\ changes = 0 /\ execution \notin {"none", "failed"}
    BY <1>6 DEF MutateCommits, Moves
  <2>2. PICK next \in {"commit", "reconcileError"} : at' = [at EXCEPT ![p] = next]
    BY <1>6 DEF MutateCommits, Moves
  <2>3. /\ page' = Changed /\ changes' = 1 /\ held' = TRUE
        /\ Applicable
        /\ removed' = (removed \/ (page.present /\ ~page'.present /\ page'.revision = Target))
        /\ UNCHANGED <<kind, proposal, approval, execution, lapsed, plucked, overtaken>>
    BY <1>6, <2>1 DEF MutateCommits, Becomes
  <2>4. Changed \in [present : BOOLEAN, revision : Nat, content : Contents]
    BY DEF Changed
  <2>5. TypeOK' /\ LedgerAgrees'
    BY <2>2, <2>3, <2>4
  <2>6. OneClaimant' /\ ChangeFollowsClaim'
    BY <2>1, <2>2, <2>3
  <2>7. HeldIsKnown'
    BY <2>2, <2>3
  <2>8. kind # "create" => Wanted(page', removed')
    BY <2>3 DEF Applicable, AtBase, Changed, Wanted, Base, Target
  <2>9. FailureIsKnown'
    BY <2>1, <2>2, <2>3, <2>8 DEF Wanted
  <2> QED BY <2>5, <2>6, <2>7, <2>9
<1>7. ASSUME NEW p \in Appliers, MutateThrows(p) PROVE IInv'
  BY <1>7 DEF MutateThrows, Moves, Wanted, Base, Target
<1>8. ASSUME NEW p \in Appliers, CommitResult(p) PROVE IInv'
  BY <1>8 DEF CommitResult, Committable, Committed, Moves, Wanted, Base, Target
<1>9. ASSUME NEW p \in Appliers, RecordRecovered(p) PROVE IInv'
  BY <1>9 DEF RecordRecovered, Committable, Committed, Moves, Wanted, Base, Target
<1>10. ASSUME NEW p \in Appliers, ReconcileError(p) PROVE IInv'
  BY <1>10 DEF ReconcileError, Recognised, Moves, Wanted, Base, Target
<1>11. ASSUME NEW p \in Appliers, Fail(p) PROVE IInv'
  BY <1>11 DEF Fail, Failing, Recovering, Moves, Wanted, Base, Target
<1>12. ASSUME NEW p \in Appliers, Dies(p) PROVE IInv'
  BY <1>12 DEF Dies, Moves, Wanted, Base, Target
<1>13. CASE DecideProposal
  BY <1>13 DEF DecideProposal, Wanted, Base, Target
<1>14. CASE WaitForApproval
  BY <1>14 DEF WaitForApproval, Wanted, Base, Target
<1>15. CASE ExpireApprovals
  BY <1>15 DEF ExpireApprovals, Closes, Wanted, Base, Target
<1>16. CASE PluckProposals \/ TombstoneOwnedSessions \/ DeletionRollsBack
  <2>1. CASE PluckProposals \/ DeletionRollsBack
    <3>1. /\ plucked' \in BOOLEAN
          /\ UNCHANGED <<lapsed, kind, proposal, approval, execution, page, removed, changes,
                         held, overtaken, at>>
      BY <2>1 DEF PluckProposals, DeletionRollsBack
    <3> QED
      BY <3>1 DEF Wanted
  <2>2. CASE TombstoneOwnedSessions
    <3>1. /\ proposal' = "cancelled" /\ plucked' = FALSE
          /\ approval' = IF approval = "pending" THEN "cancelled" ELSE approval
          /\ UNCHANGED <<lapsed, kind, execution, page, removed, changes, held, overtaken, at>>
      BY <2>2 DEF TombstoneOwnedSessions
    <3>2. TypeOK'
      <4>1. approval' \in Undecided \cup Refused
        BY <3>1
      <4> QED
        BY <3>1, <4>1
    <3>3. LedgerAgrees'
      BY <3>1
    <3>4. Wanted(page, removed)' <=> Wanted(page, removed)
      BY <3>1 DEF Wanted
    <3>5. OneClaimant' /\ ChangeFollowsClaim'
      BY <3>1
    <3>6. HeldIsKnown' /\ FailureIsKnown'
      BY <3>1, <3>4
    <3> QED
      BY <3>2, <3>3, <3>5, <3>6
  <2> QED
    BY <1>16, <2>1, <2>2
<1>17. CASE RecoverProposalExecutions
  BY <1>17 DEF RecoverProposalExecutions, Recovering, Wanted, Base, Target
<1>18. CASE Lapse
  BY <1>18 DEF Lapse, Wanted, Base, Target
<1>19. CASE OthersChange
  BY <1>19 DEF OthersChange, Becomes, Wanted, Base, Target
<1>20. CASE UNCHANGED vars
  BY <1>20 DEF vars, Wanted
<1> QED BY <1>1, <1>2, <1>3, <1>4, <1>5, <1>6, <1>7, <1>8, <1>9, <1>10, <1>11, <1>12, <1>13, <1>14, <1>15, <1>16, <1>17, <1>18, <1>19, <1>20 DEF Next, Apply

\* The invariant holds in every state of every behaviour (all of Next).
THEOREM Invariant == Spec => []IInv
BY InitInvariant, StepInvariant, PTL DEF Spec

---------------------------------------------------------------------------

\* Types, for any number of calls and any revision bound (the columns and the
\* local progress of applyApprovedProposal).
THEOREM TypeCorrect == Spec => []TypeOK
<1>1. IInv => TypeOK BY DEF IInv
<1> QED BY <1>1, Invariant, PTL

\* Proposal and execution disagree in one way only (commitResult, the failure
\* branch and recoverProposalExecutions each update both; the deletion of the
\* session cancels the one without looking at the other).
THEOREM LedgerAgreesAlways == Spec => []LedgerAgrees
<1>1. IInv => LedgerAgrees BY DEF IInv
<1> QED BY <1>1, Invariant, PTL

\* The page is changed under an approval only, by a call that claimed it (the
\* claim transaction against decideProposal and expireApprovals).
THEOREM ChangesAreApproved == Spec => []NoChangeWithoutApproval
<1>1. IInv => NoChangeWithoutApproval
  BY DEF IInv, TypeOK, LedgerAgrees, Recorded, ChangeFollowsClaim, NoChangeWithoutApproval,
     Claimed, Undecided
<1> QED BY <1>1, Invariant, PTL

\* No number of concurrent or repeated calls changes the page twice (the claim
\* transaction and its execution row).
THEOREM ChangesOnce == Spec => []ChangedAtMostOnce
<1>1. IInv => ChangedAtMostOnce
  BY DEF IInv, ChangeFollowsClaim, ChangedAtMostOnce
<1> QED BY <1>1, Invariant, PTL

\* What is recorded as applied was on the page, what is recorded as failed was
\* not or is gone (reconcile after a lost response).
THEOREM OutcomesAreHonest == Spec => []OutcomeIsHonest
<1>1. IInv => OutcomeIsHonest
  BY DEF IInv, TypeOK, LedgerAgrees, Recorded, HeldIsKnown, FailureIsKnown, OutcomeIsHonest,
     Claimed, Undecided, Refused
<1> QED BY <1>1, Invariant, PTL

\* A recorded outcome is never replaced but by the deletion of the session (the
\* status guards of commitResult, of the failure branch, of the decision and of
\* the maintenance).
THEOREM OutcomesAreFinal == Spec => OutcomeIsFinal
<1>1. ASSUME IInv, [Next]_vars
      PROVE  [/\ execution \in {"committed", "failed"} => execution' = execution
              /\ proposal \in Refused \cup {"applied", "failed"} =>
                   proposal' \in {proposal, "cancelled"}
             ]_ledger
  <2> USE DEF IInv, LedgerAgrees, Recorded, Undecided, Refused, Claimed, ledger
  <2>1. ASSUME NEW p \in Appliers, Apply(p)
        PROVE  /\ execution \in {"committed", "failed"} => execution' = execution
               /\ proposal \in Refused \cup {"applied", "failed"} =>
                   proposal' \in {proposal, "cancelled"}
    BY <2>1 DEF Apply, ApplyApprovedProposal, LoadRecoveryContext, ReconcilePrior,
       MarkRecoveryRequired, ClaimProposal, Claimable, MutateCommits, MutateThrows,
       CommitResult, RecordRecovered, ReconcileError, Fail, Failing, Recovering, Dies,
       Committable, Committed, Moves
  <2>2. CASE \/ DecideProposal \/ WaitForApproval \/ ExpireApprovals
             \/ TombstoneOwnedSessions \/ RecoverProposalExecutions
    BY <2>2 DEF DecideProposal, WaitForApproval, ExpireApprovals, TombstoneOwnedSessions,
       Closes, RecoverProposalExecutions, Recovering
  <2>3. CASE PluckProposals \/ DeletionRollsBack \/ Lapse \/ OthersChange \/ UNCHANGED vars
    BY <2>3 DEF PluckProposals, DeletionRollsBack, Lapse, OthersChange, vars
  <2> QED BY <1>1, <2>1, <2>2, <2>3 DEF Next
<1> QED BY <1>1, Invariant, PTL DEF Spec, OutcomeIsFinal

---------------------------------------------------------------------------
(* ProposalExecution implements ApprovedChange.                            *)

\* Where an outcome is recorded, or about to be, nobody can make the change any
\* more: the page is past the revision that the operation expects, or it was a
\* creation, which only its own call recognises.
RecordedIsPast ==
  /\ removed => page.revision >= Target
  /\ \A p \in Appliers :
       /\ at[p] = "record" => kind # "create"
       /\ at[p] \in {"commit", "record"} /\ kind # "create" => page.revision >= Target
  /\ execution = "committed" =>
       IF kind = "create" THEN \A p \in Appliers : at[p] # "mutate"
                          ELSE page.revision >= Target

\* At first nothing is recorded.
LEMMA InitPast == Init => RecordedIsPast
  BY DEF Init, RecordedIsPast

\* Any step that leaves the page's past alone and moves no call to a recording.
LEMMA PastStays ==
  ASSUME IInv, RecordedIsPast, UNCHANGED kind, page'.revision \in Nat,
         page'.revision >= page.revision,
         removed' => removed \/ page'.revision >= Target,
         \A p \in Appliers : at'[p] \in {at[p], "idle"},
         execution' = "committed" => execution = "committed"
  PROVE  RecordedIsPast'
<1>1. page.revision \in Nat /\ Target \in Nat
  BY DEF IInv, TypeOK, Target, Base
<1> QED
  BY <1>1 DEF RecordedIsPast

\* Every step keeps it (reconcileAppliedProposal looks at the revision).
LEMMA StepPast == ASSUME IInv, RecordedIsPast, [Next]_vars PROVE RecordedIsPast'
<1> USE DEF ledger, world
<1>0. /\ at \in [Appliers -> Steps] /\ page.revision \in Nat /\ Target \in Nat
      /\ kind \in Kinds
  BY DEF IInv, TypeOK, Target, Base
<1>1. ASSUME NEW p \in Appliers, ApplyApprovedProposal(p) PROVE RecordedIsPast'
  BY <1>0, <1>1 DEF ApplyApprovedProposal, Moves, RecordedIsPast
<1>2. ASSUME NEW p \in Appliers, LoadRecoveryContext(p) PROVE RecordedIsPast'
  BY <1>0, <1>2 DEF LoadRecoveryContext, Moves, RecordedIsPast
<1>3. ASSUME NEW p \in Appliers, ReconcilePrior(p) \/ ReconcileError(p) PROVE RecordedIsPast'
  <2>1. Recognised => kind # "create" /\ page.revision >= Target
    BY <1>0 DEF Recognised, Wanted, RecordedIsPast
  <2> QED
    BY <1>0, <1>3, <2>1 DEF ReconcilePrior, ReconcileError, Moves, RecordedIsPast
<1>4. ASSUME NEW p \in Appliers, MarkRecoveryRequired(p) \/ Fail(p) PROVE RecordedIsPast'
  BY <1>0, <1>4 DEF MarkRecoveryRequired, Fail, Failing, Recovering, Moves, RecordedIsPast
<1>5. ASSUME NEW p \in Appliers, ClaimProposal(p) PROVE RecordedIsPast'
  BY <1>0, <1>5 DEF ClaimProposal, Claimable, Moves, RecordedIsPast
<1>6. ASSUME NEW p \in Appliers, MutateCommits(p) PROVE RecordedIsPast'
  <2>1. PICK next \in {"commit", "reconcileError"} : at' = [at EXCEPT ![p] = next]
    BY <1>6 DEF MutateCommits, Moves
  <2>2. /\ Applicable /\ page'.revision = page.revision + 1
        /\ removed' => removed \/ page'.revision = Target
        /\ UNCHANGED <<kind, execution>>
    BY <1>6 DEF MutateCommits, Becomes, Changed
  <2>3. kind # "create" => page'.revision >= Target
    BY <2>2 DEF Applicable, AtBase, Target, Base
  <2> QED
    BY <1>0, <2>1, <2>2, <2>3 DEF RecordedIsPast
<1>7. ASSUME NEW p \in Appliers, MutateThrows(p) \/ Dies(p) PROVE RecordedIsPast'
  BY <1>0, <1>7 DEF MutateThrows, Dies, Moves, RecordedIsPast
<1>8. ASSUME NEW p \in Appliers, CommitResult(p) PROVE RecordedIsPast'
  <2>1. at[p] = "commit" /\ \E next \in Steps \ {"mutate", "record", "commit"} :
          at' = [at EXCEPT ![p] = next]
    BY <1>8 DEF CommitResult, Moves, Steps
  <2>2. \A q \in Appliers : at'[q] # "mutate"
    BY <1>0, <2>1 DEF IInv, OneClaimant, Claimant
  <2>3. UNCHANGED <<kind, page, removed>>
    BY <1>8 DEF CommitResult
  <2> QED
    BY <1>0, <2>1, <2>2, <2>3 DEF RecordedIsPast
<1>9. ASSUME NEW p \in Appliers, RecordRecovered(p) PROVE RecordedIsPast'
  BY <1>0, <1>9 DEF RecordRecovered, Moves, RecordedIsPast
<1>10. CASE \/ DecideProposal \/ WaitForApproval \/ ExpireApprovals
            \/ PluckProposals \/ TombstoneOwnedSessions \/ DeletionRollsBack
            \/ RecoverProposalExecutions \/ Lapse
  BY <1>0, <1>10, PastStays DEF DecideProposal, WaitForApproval, ExpireApprovals, Closes,
     PluckProposals, TombstoneOwnedSessions, DeletionRollsBack, RecoverProposalExecutions,
     Recovering, Lapse
<1>11. CASE OthersChange
  <2>1. PICK present \in BOOLEAN, content \in Contents :
          Becomes([present |-> present, revision |-> page.revision + 1, content |-> content])
    BY <1>11 DEF OthersChange
  <2>2. /\ page'.revision = page.revision + 1
        /\ removed' => removed \/ page'.revision = Target
    BY <2>1 DEF Becomes
  <2>3. UNCHANGED <<kind, execution, at>>
    BY <1>11 DEF OthersChange
  <2> QED
    BY <1>0, <2>2, <2>3, PastStays
<1>12. CASE UNCHANGED vars
  BY <1>0, <1>12, PastStays DEF vars
<1> QED
  BY <1>1, <1>2, <1>3, <1>4, <1>5, <1>6, <1>7, <1>8, <1>9, <1>10, <1>11, <1>12
  DEF Next, Apply

\* A step of the promise, or one that shows nothing of it.
PromiseStep == Promise!Next \/ UNCHANGED Promise!vars

\* Steps that only move a call (reads, lost answers, refused operations).
LEMMA SilentStep ==
  ASSUME UNCHANGED <<proposal, execution, changes, held, overtaken>>
  PROVE  PromiseStep
  BY DEF PromiseStep, Promise!vars, verdict, withdrawn, Recorded

\* The decision and its end (decideProposal, the waiting run, maintenance).
LEMMA DecisionStep ==
  ASSUME IInv, DecideProposal \/ WaitForApproval \/ ExpireApprovals
  PROVE  PromiseStep
<1>1. UNCHANGED <<execution, changes, held, overtaken>>
  BY DEF DecideProposal, WaitForApproval, ExpireApprovals, Closes, world
<1>2. \/ proposal = "pending" /\ proposal' = "approved"
      \/ proposal \in Undecided /\ proposal' \in Refused
      \/ proposal' = proposal
  BY DEF DecideProposal, WaitForApproval, ExpireApprovals, Closes, Undecided, Refused
<1>3. proposal' # proposal => execution = "none"
  BY <1>2 DEF IInv, TypeOK, LedgerAgrees, Recorded, Undecided, Claimed
<1> QED
  BY <1>1, <1>2, <1>3, SilentStep
  DEF PromiseStep, Promise!Next, Promise!Approve, Promise!Refuse, Promise!Turns, verdict,
      withdrawn, Undecided, Refused

\* The deletion of the session: it refuses what nobody has claimed yet, and
\* withdraws what was claimed since it was read.
LEMMA WithdrawalStep ==
  ASSUME IInv, TombstoneOwnedSessions
  PROVE  PromiseStep
<1>1. proposal' = "cancelled" /\ UNCHANGED <<execution, changes, held, overtaken>>
  BY DEF TombstoneOwnedSessions, world
<1>2. CASE execution # "none"
  <2>1. verdict \in Promise!Underway \cup {"applied", "failed"}
    BY <1>2 DEF IInv, TypeOK, Claimed, verdict, Recorded, Promise!Underway
  <2>2. withdrawn' = TRUE /\ verdict' = verdict
    BY <1>1, <1>2 DEF withdrawn, verdict, Recorded
  <2> QED
    BY <1>1, <2>1, <2>2 DEF PromiseStep, Promise!Next, Promise!Withdraw
<1>3. CASE execution = "none" /\ proposal \in Undecided
  BY <1>1, <1>3 DEF PromiseStep, Promise!Next, Promise!Refuse, Promise!Turns, verdict,
     withdrawn, Undecided, Refused
<1>4. CASE execution = "none" /\ proposal \in Refused
  BY <1>1, <1>4 DEF PromiseStep, Promise!vars, verdict, withdrawn, Refused
<1> QED
  BY <1>2, <1>3, <1>4 DEF IInv, LedgerAgrees

\* What a call, or the maintenance after it, writes of its progress.
Progresses ==
  \/ execution = "none" /\ proposal = "approved"
     /\ execution' = "applying" /\ proposal' = "applying"
  \/ execution = "applying" /\ execution' = "recovery_required"
  \/ execution \in Claimed /\ execution' = "committed" /\ proposal \in Claimed /\ held
  \/ execution = "applying" /\ execution' = "failed" /\ (changes = 0 \/ overtaken)

\* Its verdict moves on, and whether it was withdrawn does not change.
LEMMA ProgressStep ==
  ASSUME IInv, IInv', UNCHANGED <<changes, held, overtaken>>,
         Progresses, (proposal = "cancelled") <=> (proposal' = "cancelled")
  PROVE  PromiseStep
<1> USE DEF Progresses
<1>0. execution' # "none" /\ (execution = "none" => proposal # "cancelled")
  BY DEF Claimed
<1>1. withdrawn' = withdrawn /\ verdict' = Recorded'
  BY <1>0 DEF withdrawn, verdict
<1>2. CASE execution = "none" /\ proposal = "approved" /\ execution' = "applying"
  BY <1>1, <1>2 DEF PromiseStep, Promise!Next, Promise!Start, Promise!Turns, verdict,
     Recorded, Refused
<1>3. CASE execution = "applying" /\ execution' = "recovery_required"
  BY <1>1, <1>3 DEF PromiseStep, Promise!Next, Promise!Suspect, Promise!Turns, verdict, Recorded
<1>4. CASE execution \in Claimed /\ execution' = "committed" /\ proposal \in Claimed /\ held
  BY <1>1, <1>4 DEF PromiseStep, Promise!Next, Promise!Succeed, Promise!Turns,
     Promise!Underway, verdict, withdrawn, Recorded, Claimed
<1>5. CASE execution = "applying" /\ execution' = "failed" /\ (changes = 0 \/ overtaken)
  BY <1>1, <1>5 DEF PromiseStep, Promise!Next, Promise!Fail, Promise!Turns, verdict, Recorded
<1> QED
  BY <1>2, <1>3, <1>4, <1>5

\* Either row is put in doubt only where it is applying: the proposal is so only
\* where the execution is.
LEMMA RecoveringStep ==
  ASSUME IInv, Recovering, UNCHANGED <<changes, held, overtaken>>, IInv'
  PROVE  PromiseStep
<1>1. CASE execution = "applying"
  BY <1>1, ProgressStep DEF Recovering, Progresses
<1>2. CASE execution # "applying"
  <2>1. proposal # "applying"
    BY <1>2 DEF IInv, LedgerAgrees, Recorded, Undecided, Refused
  <2> QED
    BY <1>2, <2>1, SilentStep DEF Recovering
<1> QED
  BY <1>1, <1>2

\* The same of a failure, which the call knows to be true.
LEMMA FailingStep ==
  ASSUME IInv, Failing, changes = 0 \/ overtaken, UNCHANGED <<changes, held, overtaken>>, IInv'
  PROVE  PromiseStep
<1>1. CASE execution = "applying"
  BY <1>1, ProgressStep DEF Failing, Progresses
<1>2. CASE execution # "applying"
  <2>1. proposal # "applying"
    BY <1>2 DEF IInv, LedgerAgrees, Recorded, Undecided, Refused
  <2> QED
    BY <1>2, <2>1, SilentStep DEF Failing
<1> QED
  BY <1>1, <1>2

\* The page operation of a call is the one change: nothing was recorded before.
LEMMA ChangeStep ==
  ASSUME IInv, RecordedIsPast, NEW p \in Appliers, MutateCommits(p)
  PROVE  PromiseStep
<1>1. at[p] = "mutate" /\ Applicable
  BY DEF MutateCommits, Moves
<1>2. execution # "committed"
  BY <1>1 DEF RecordedIsPast, Applicable, AtBase, Target, Base
<1>3. execution \in Claimed
  BY <1>1, <1>2 DEF IInv, TypeOK, OneClaimant, Claimant
<1>4. changes = 0 /\ changes' = 1 /\ held' = TRUE /\ UNCHANGED <<ledger, overtaken>>
  BY <1>1 DEF MutateCommits, IInv, ChangeFollowsClaim
<1> QED
  BY <1>3, <1>4 DEF PromiseStep, Promise!Next, Promise!Change, Promise!Underway, verdict,
     withdrawn, Recorded, Claimed, ledger

\* What others do to the page.
LEMMA OthersStep == ASSUME IInv, OthersChange PROVE PromiseStep
<1>1. /\ held' \in {held, TRUE} /\ overtaken' = (overtaken \/ changes > 0)
      /\ UNCHANGED <<proposal, execution, changes>>
  <2>1. held \in BOOLEAN /\ Wanted(page', removed') \in BOOLEAN
    BY DEF IInv, TypeOK, Wanted
  <2> QED
    BY <2>1 DEF OthersChange, ledger
<1> QED
  BY <1>1 DEF PromiseStep, Promise!Next, Promise!Elsewhere, verdict, withdrawn, Recorded

\* Every step of the calls, the maintenance and the others is one of the promise.
LEMMA StepKeepsPromise ==
  ASSUME IInv, RecordedIsPast, [Next]_vars
  PROVE  PromiseStep
<1>0. IInv'
  BY StepInvariant
<1>1. ASSUME NEW p \in Appliers,
             \/ ApplyApprovedProposal(p) \/ LoadRecoveryContext(p) \/ ReconcilePrior(p)
             \/ MutateThrows(p) \/ ReconcileError(p) \/ Dies(p)
      PROVE  PromiseStep
  BY <1>1, SilentStep DEF ApplyApprovedProposal, LoadRecoveryContext, ReconcilePrior,
     MutateThrows, ReconcileError, Dies, ledger, world
<1>2. ASSUME NEW p \in Appliers, MarkRecoveryRequired(p) \/ ClaimProposal(p)
      PROVE  PromiseStep
  <2>1. CASE ClaimProposal(p)
    BY <1>0, <2>1, SilentStep, ProgressStep DEF ClaimProposal, Claimable, Progresses, ledger, world
  <2>2. CASE MarkRecoveryRequired(p)
    BY <1>0, <2>2, RecoveringStep DEF MarkRecoveryRequired, world
  <2> QED
    BY <1>2, <2>1, <2>2
<1>3. ASSUME NEW p \in Appliers, CommitResult(p) \/ RecordRecovered(p)
      PROVE  PromiseStep
  <2>1. held
    BY <1>3 DEF CommitResult, RecordRecovered, Moves, IInv, HeldIsKnown
  <2> QED
    BY <1>0, <1>3, <2>1, SilentStep, ProgressStep DEF CommitResult, RecordRecovered,
       Committable, Committed, Progresses, Claimed, ledger, world
<1>4. ASSUME NEW p \in Appliers, Fail(p)
      PROVE  PromiseStep
  <2>1. kind # "create" => changes = 0 \/ overtaken
    BY <1>4 DEF Fail, Moves, IInv, FailureIsKnown
  <2> QED
    BY <1>0, <1>4, <2>1, RecoveringStep, FailingStep DEF Fail, world
<1>5. CASE RecoverProposalExecutions
  BY <1>0, <1>5, RecoveringStep DEF RecoverProposalExecutions, world
<1>6. CASE PluckProposals \/ DeletionRollsBack \/ Lapse \/ UNCHANGED vars
  BY <1>6, SilentStep DEF PluckProposals, DeletionRollsBack, Lapse, vars, ledger, world
<1> QED
  BY <1>1, <1>2, <1>3, <1>4, <1>5, <1>6, DecisionStep, WithdrawalStep, ChangeStep, OthersStep
  DEF Next, Apply

\* At first the proposal is pending and the page is as it was.
LEMMA InitKeepsPromise == Init => Promise!Init
  BY DEF Init, Promise!Init, verdict, withdrawn, Refused

\* However calls repeat, die and overlap, whoever approved the proposal sees one
\* change at most, made while it is applied, and an outcome that is true and stays,
\* though the deletion of the session may withdraw the proposal at any time.
THEOREM Refinement == Spec => ImplementsApprovedChange
<1>1. IInv /\ RecordedIsPast /\ [Next]_vars => [Promise!Next]_(Promise!vars)
  BY StepKeepsPromise DEF PromiseStep
<1>2. Spec => []RecordedIsPast
  BY InitPast, StepPast, Invariant, PTL DEF Spec
<1> QED
  BY <1>1, <1>2, InitKeepsPromise, Invariant, PTL DEF Spec, ImplementsApprovedChange, Promise!Spec
===========================================================================
